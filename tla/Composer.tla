------------------------------ MODULE Composer ------------------------------
(***************************************************************************)
(* The messages view: one composer for all threads, a send of two writes   *)
(* (the attachment, then the message that points at it) whose answers come *)
(* late, and the release of an attachment whose message was refused.       *)
(* Left out: toasts, the list of threads and its filters, read receipts.   *)
(***************************************************************************)
EXTENDS Naturals, Sequences, FiniteSets

CONSTANTS Threads,     \* chatConversations
          NoThread,    \* none selected
          MaxTexts,    \* bound on what is typed
          MaxFiles,    \* bound on the attachments that are uploaded
          MaxMessages, \* bound on the messages stored and under way
          MaxVisits    \* bound on how often the view is entered anew

VARIABLES server,    \* the build: chat and media on a server, or in the page
          view,      \* the mount of the view: its number, selection and composer
          sends,     \* sends under way
          inbox,     \* chatMessages of each thread
          files,     \* media: attachments by number, stored or released
          typedFor   \* history: the thread under which each text was typed

composerVars == <<server, view, sends, inbox, files, typedFor>>

NoText == 0
Text == NoText..MaxTexts
EMPTY(k) == [key |-> k, draft |-> NoText, attachment |-> FALSE]
Message == [text : Text \ {NoText}, media : 0..MaxFiles]
Sending == [visit : 0..MaxVisits, target : Threads, text : Text, file : BOOLEAN, media : 0..MaxFiles,
            phase : {"upload", "post", "posted", "refused", "release"}]

ASSUME ComposerAssumption ==
    NoThread \notin Threads /\ IsFiniteSet(Threads) /\ {MaxTexts, MaxFiles, MaxMessages, MaxVisits} \subseteq Nat

ComposerTypeOK ==
    /\ server \in BOOLEAN
    /\ view \in [visit : 0..MaxVisits, active : Threads \cup {NoThread}, sending : BOOLEAN,
                 composer : [key : Threads \cup {NoThread}, draft : Text, attachment : BOOLEAN]]
    /\ view.composer.key = view.active
    /\ sends \subseteq Sending /\ \A s \in sends : s.media \in 0..Len(files)
    /\ \A k \in Threads : \A i \in DOMAIN inbox[k] : inbox[k][i] \in Message
    /\ Len(files) <= MaxFiles /\ \A f \in DOMAIN files : files[f] \in {"stored", "released"}
    /\ Len(typedFor) <= MaxTexts

Enters(n, k) == [visit |-> n, active |-> k, sending |-> FALSE, composer |-> EMPTY(k)]
ComposerInit ==
    /\ server \in BOOLEAN /\ view = Enters(0, NoThread) /\ sends = {}
    /\ inbox = [k \in Threads |-> <<>>] /\ files = <<>> /\ typedFor = <<>>

-----------------------------------------------------------------------------
(* A thread is selected: by the operator, as the first of the list, or     *)
(* because a new one was created.  What was composed for another is        *)
(* neither shown nor kept.                                                 *)
SelectThreadKeyMutant(k) ==
    /\ k # view.active
    /\ view' = [view EXCEPT !.active = k]
    /\ UNCHANGED <<server, sends, inbox, files, typedFor>>
SelectThreadMutant(k) ==
    /\ k # view.active
    /\ view' = [view EXCEPT !.active = k, !.composer.key = k]
    /\ UNCHANGED <<server, sends, inbox, files, typedFor>>
SelectThread(k) ==
    /\ k # view.active
    /\ view' = [view EXCEPT !.active = k, !.composer = EMPTY(k)]
    /\ UNCHANGED <<server, sends, inbox, files, typedFor>>

Composing == view.active # NoThread /\ ~view.sending
SetDraft ==
    /\ Composing /\ Len(typedFor) < MaxTexts
    /\ typedFor' = Append(typedFor, view.active)
    /\ view' = [view EXCEPT !.composer.draft = Len(typedFor')]
    /\ UNCHANGED <<server, sends, inbox, files>>
SetAttachment ==
    /\ Composing
    /\ view' = [view EXCEPT !.composer.attachment = ~@]
    /\ UNCHANGED <<server, sends, inbox, files, typedFor>>

(* send: sending is the guard against a second one.                        *)
FilesUnderWay == Cardinality({s \in sends : s.phase = "upload"})
Messages == Cardinality(UNION {{<<k, i>> : i \in DOMAIN inbox[k]} : k \in Threads})
WithinBounds(file) == (file => Len(files) + FilesUnderWay < MaxFiles) /\ Messages + Cardinality(sends) < MaxMessages

SendMessage ==
    /\ Composing /\ view.composer.draft # NoText /\ WithinBounds(view.composer.attachment)
    /\ view' = [view EXCEPT !.sending = TRUE]
    /\ LET file == view.composer.attachment
       IN sends' = sends \cup {[visit |-> view.visit, target |-> view.active, text |-> view.composer.draft,
                                file |-> file, media |-> 0, phase |-> IF file THEN "upload" ELSE "post"]}
    /\ UNCHANGED <<server, inbox, files, typedFor>>

Goes(s, to) == sends' = (sends \ {s}) \cup {to}
Settled(s) == IF s.visit = view.visit THEN [view EXCEPT !.sending = FALSE] ELSE view

Uploaded(s) ==
    /\ s.phase = "upload" /\ files' = Append(files, "stored")
    /\ Goes(s, [s EXCEPT !.phase = "post", !.media = Len(files')])
    /\ UNCHANGED <<server, view, inbox, typedFor>>
UploadRefused(s) ==
    /\ s.phase = "upload" /\ sends' = sends \ {s} /\ view' = Settled(s)
    /\ UNCHANGED <<server, inbox, files, typedFor>>

(* ChatRepository.sendMessage: refuses, or writes a message whose file     *)
(* exists.                                                                 *)
PostMessage(s) ==
    /\ s.phase = "post"
    /\ \/ /\ s.media = 0 \/ s.media \in {f \in DOMAIN files : files[f] = "stored"}
          /\ inbox' = [inbox EXCEPT ![s.target] = Append(@, [text |-> s.text, media |-> s.media])]
          /\ Goes(s, [s EXCEPT !.phase = "posted"])
       \/ inbox' = inbox /\ Goes(s, [s EXCEPT !.phase = "refused"])
    /\ UNCHANGED <<server, view, files, typedFor>>

(* clearFor: only the composer of the thread that was written to.          *)
MessageSent(s) ==
    /\ s.phase = "posted" /\ sends' = sends \ {s}
    /\ view' = IF s.visit = view.visit /\ view.composer.key = s.target
               THEN [Settled(s) EXCEPT !.composer = EMPTY(s.target)] ELSE Settled(s)
    /\ UNCHANGED <<server, inbox, files, typedFor>>

(* The refusal, or an answer of the server that was lost: the attachment   *)
(* is released, then the composer is free again.                           *)
MessageFailed(s) ==
    /\ s.phase = "refused" \/ (server /\ s.phase \in {"post", "posted"})
    /\ IF s.media # 0 THEN Goes(s, [s EXCEPT !.phase = "release"]) /\ UNCHANGED view
       ELSE sends' = sends \ {s} /\ view' = Settled(s)
    /\ UNCHANGED <<server, inbox, files, typedFor>>

Referenced(f) == \E k \in Threads : \E i \in DOMAIN inbox[k] : inbox[k][i].media = f
Release(s) ==
    /\ s.phase = "release" /\ sends' = sends \ {s} /\ view' = Settled(s)
    /\ files' = IF server /\ Referenced(s.media) THEN files ELSE [files EXCEPT ![s.media] = "released"]
    /\ UNCHANGED <<server, inbox, typedFor>>

(* The view is left and entered again.                                     *)
Revisit ==
    /\ view.visit < MaxVisits /\ view' = Enters(view.visit + 1, NoThread)
    /\ UNCHANGED <<server, sends, inbox, files, typedFor>>

ComposerNext ==
    \/ \E k \in Threads : SelectThread(k)
    \/ SetDraft \/ SetAttachment \/ SendMessage \/ Revisit
    \/ \E s \in sends : \/ Uploaded(s) \/ UploadRefused(s) \/ PostMessage(s)
                        \/ MessageSent(s) \/ MessageFailed(s) \/ Release(s)
ComposerSpec == ComposerInit /\ [][ComposerNext]_composerVars

-----------------------------------------------------------------------------
(* A text reaches the thread under which it was typed, no other; it        *)
(* arrives once, unless the server's answer to it was lost; and the file   *)
(* that a message points at is never released.                             *)
Copies(k, text) == {i \in DOMAIN inbox[k] : inbox[k][i].text = text}
MessagesReachTheirThread ==
    \A k \in Threads : \A i \in DOMAIN inbox[k] :
        LET m == inbox[k][i]
        IN /\ typedFor[m.text] = k
           /\ server \/ Copies(k, m.text) = {i}
           /\ m.media # 0 => files[m.media] = "stored"
=============================================================================
