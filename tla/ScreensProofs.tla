----------------------------- MODULE ScreensProofs -----------------------------
(* Proofs about the screens of the client that write: the composer of the  *)
(* messages view, the dialogs that edit a record, and the timetable of the *)
(* demonstration that its dialogs write to.                                *)
EXTENDS Composer, EntityForm, LocalTimetable, SequenceTheorems, FiniteSetTheorems, WellFoundedInduction, TLAPS

LEMMA AppendFacts ==
  ASSUME NEW S, NEW s \in Seq(S), NEW x \in S
  PROVE  /\ Append(s, x) \in Seq(S) /\ Len(s) \in Nat /\ DOMAIN s = 1..Len(s)
         /\ Len(Append(s, x)) = Len(s) + 1
         /\ DOMAIN Append(s, x) = (DOMAIN s) \cup {Len(s) + 1} /\ Len(s) + 1 \notin DOMAIN s
         /\ Append(s, x)[Len(s) + 1] = x
         /\ \A i \in DOMAIN s : Append(s, x)[i] = s[i]
<1>1. /\ Append(s, x) \in Seq(S) /\ Len(Append(s, x)) = Len(s) + 1
      /\ \A i \in 1..Len(s) : Append(s, x)[i] = s[i]
      /\ Append(s, x)[Len(s) + 1] = x
  BY AppendProperties
<1>2. Len(s) \in Nat /\ DOMAIN s = 1..Len(s) /\ DOMAIN Append(s, x) = 1..Len(Append(s, x))
  BY <1>1, LenProperties
<1>3. 1..(Len(s) + 1) = (1..Len(s)) \cup {Len(s) + 1} /\ Len(s) + 1 \notin 1..Len(s)
  BY <1>2
<1> QED
  BY <1>1, <1>2, <1>3

-----------------------------------------------------------------------------
(***************************************************************************)
(* The composer.  A send carries the text and the thread it was typed      *)
(* under, and no other send carries them; while it is under way its mount  *)
(* shows it and accepts no second; what it has not posted is in no thread. *)
(***************************************************************************)

Letters == [text : Nat, media : Nat]
Parcels == [visit : Nat, target : Threads, text : Nat, file : BOOLEAN, media : Nat,
            phase : {"upload", "post", "posted", "refused", "release"}]
Composers == [key : Threads \cup {NoThread}, draft : Nat, attachment : BOOLEAN]
Views == [visit : Nat, active : Threads \cup {NoThread}, sending : BOOLEAN, composer : Composers]

Typing == view.composer.draft
Mine(s) == s.visit = view.visit

ComposerTypes ==
  /\ server \in BOOLEAN /\ view \in Views /\ view.composer.key = view.active
  /\ sends \subseteq Parcels /\ inbox \in [Threads -> Seq(Letters)]
  /\ files \in Seq({"stored", "released"}) /\ typedFor \in Seq(Threads)

DraftIsTyped == Typing # NoText => Typing \in DOMAIN typedFor /\ typedFor[Typing] = view.composer.key

SendsAreTyped ==
  \A s \in sends : /\ s.text # NoText /\ s.text \in DOMAIN typedFor /\ typedFor[s.text] = s.target
                   /\ s.visit <= view.visit /\ s.media \in 0..Len(files)
                   /\ s.phase = "upload" => s.media = 0

SendsAreApart ==
  \A s, t \in sends : s # t => /\ s.text # t.text /\ s.visit # t.visit
                               /\ s.media # 0 => s.media # t.media

SendingIsShown == \A s \in sends : Mine(s) => view.sending /\ Typing \in {NoText, s.text}

InNoThread(text) == \A k \in Threads : \A i \in DOMAIN inbox[k] : inbox[k][i].text # text
PointedAt(f) == \E k \in Threads : \E i \in DOMAIN inbox[k] : inbox[k][i].media = f

DraftIsFresh ==
  Typing # NoText /\ (\A s \in sends : ~Mine(s))
    => /\ \A s \in sends : s.text # Typing
       /\ ~server => InNoThread(Typing)

UnsentIsUnwritten ==
  ~server => \A s \in sends : s.phase # "posted"
    => InNoThread(s.text) /\ (s.media # 0 => ~PointedAt(s.media))

Written ==
  \A k \in Threads : \A i \in DOMAIN inbox[k] :
    /\ inbox[k][i].text \in DOMAIN typedFor /\ typedFor[inbox[k][i].text] = k
    /\ inbox[k][i].media # 0 => inbox[k][i].media \in DOMAIN files /\ files[inbox[k][i].media] = "stored"
    /\ ~server => \A j \in DOMAIN inbox[k] : inbox[k][j].text = inbox[k][i].text => j = i

ComposerInv == /\ ComposerTypes /\ DraftIsTyped /\ SendsAreTyped /\ SendsAreApart
               /\ SendingIsShown /\ DraftIsFresh /\ UnsentIsUnwritten /\ Written

LEMMA EmptyComposer ==
  ASSUME NEW k \in Threads \cup {NoThread}
  PROVE  EMPTY(k) \in Composers /\ EMPTY(k).key = k /\ EMPTY(k).draft = NoText
  BY DEF EMPTY, Composers, NoText

LEMMA ViewFields ==
  ASSUME ComposerTypes
  PROVE  /\ view \in Views /\ view.composer \in Composers /\ view.visit \in Nat
         /\ view.active \in Threads \cup {NoThread} /\ view.sending \in BOOLEAN
         /\ view.composer.key = view.active /\ Typing \in Nat
  BY DEF ComposerTypes, Views, Composers, Typing

\* Steps of the operator that send nothing: the composer is emptied, or keeps
\* its draft, and stays with its mount.
LEMMA ComposingStep ==
  ASSUME ComposerInv, UNCHANGED <<server, sends, inbox, files, typedFor>>,
         NEW w \in Views, view' = w, w.composer.key = w.active,
         \/ w.composer.draft = NoText
         \/ w.composer.draft = Typing /\ w.composer.key = view.composer.key,
         \/ w.visit = view.visit /\ w.sending = view.sending
         \/ w.visit > view.visit /\ w.composer.draft = NoText
  PROVE  ComposerInv'
<1>1. /\ ComposerTypes /\ DraftIsTyped /\ SendsAreTyped /\ SendsAreApart
      /\ SendingIsShown /\ DraftIsFresh /\ UnsentIsUnwritten /\ Written
      /\ view.visit \in Nat /\ sends \subseteq Parcels
  BY ViewFields DEF ComposerInv, ComposerTypes
<1>2. w.visit \in Nat /\ \A s \in sends : s.visit \in Nat
  BY <1>1 DEF Views, Parcels
<1>3. ComposerTypes'
  BY <1>1 DEF ComposerTypes
<1>4. DraftIsTyped'
  BY <1>1 DEF DraftIsTyped, Typing
<1>5. SendsAreTyped'
  BY <1>1, <1>2 DEF SendsAreTyped
<1>6. SendsAreApart' /\ UnsentIsUnwritten' /\ Written'
  BY <1>1 DEF SendsAreApart, UnsentIsUnwritten, Written, InNoThread, PointedAt
<1>7. SendingIsShown'
  BY <1>1, <1>2 DEF SendingIsShown, SendsAreTyped, Mine, Typing
<1>8. DraftIsFresh'
  BY <1>1 DEF DraftIsFresh, Mine, Typing, InNoThread
<1> QED
  BY <1>3, <1>4, <1>5, <1>6, <1>7, <1>8 DEF ComposerInv

LEMMA ComposingSteps ==
  ASSUME ComposerInv, (\E k \in Threads : SelectThread(k)) \/ SetAttachment \/ Revisit
  PROVE  ComposerInv'
<1>1. /\ view \in Views /\ view.composer \in Composers /\ view.composer.key = view.active
      /\ view.visit \in Nat
  BY ViewFields DEF ComposerInv
<1>2. ASSUME NEW k \in Threads, SelectThread(k) PROVE ComposerInv'
  <2> DEFINE w1 == [view EXCEPT !.active = k]
             w == [w1 EXCEPT !.composer = EMPTY(k)]
  <2>1. view' = w /\ UNCHANGED <<server, sends, inbox, files, typedFor>>
    BY <1>2, Zenon DEF SelectThread
  <2>2. w1 \in Views /\ w1.active = k /\ w1.visit = view.visit /\ w1.sending = view.sending
    BY <1>1 DEF Views
  <2> HIDE DEF w1
  <2>3. /\ w \in Views /\ w.active = k /\ w.visit = view.visit /\ w.sending = view.sending
        /\ w.composer = EMPTY(k)
    BY <2>2, EmptyComposer DEF Views
  <2> HIDE DEF w
  <2>4. w.composer.key = k /\ w.composer.draft = NoText
    BY <2>3, EmptyComposer
  <2> QED
    BY <2>1, <2>3, <2>4, ComposingStep
<1>3. CASE SetAttachment
  <2> DEFINE c == [view.composer EXCEPT !.attachment = ~@]
             w == [view EXCEPT !.composer = c]
  <2>1. view' = w /\ UNCHANGED <<server, sends, inbox, files, typedFor>>
    BY <1>1, <1>3 DEF SetAttachment, Views, Composers
  <2>2. c \in Composers /\ c.key = view.composer.key /\ c.draft = Typing
    BY <1>1 DEF Composers, Typing
  <2> HIDE DEF c
  <2>3. /\ w \in Views /\ w.active = view.active /\ w.visit = view.visit
        /\ w.sending = view.sending /\ w.composer = c
    BY <1>1, <2>2 DEF Views
  <2> HIDE DEF w
  <2> QED
    BY <1>1, <2>1, <2>2, <2>3, ComposingStep
<1>4. CASE Revisit
  <2> DEFINE w == Enters(view.visit + 1, NoThread)
  <2>1. view' = w /\ UNCHANGED <<server, sends, inbox, files, typedFor>>
    BY <1>4 DEF Revisit
  <2>2. /\ w \in Views /\ w.visit = view.visit + 1 /\ w.active = NoThread
        /\ w.composer = EMPTY(NoThread)
    BY <1>1, EmptyComposer DEF Enters, Views
  <2> HIDE DEF w
  <2>3. w.composer.key = NoThread /\ w.composer.draft = NoText /\ w.visit > view.visit
    BY <1>1, <2>2, EmptyComposer
  <2> QED
    BY <2>1, <2>2, <2>3, ComposingStep
<1> QED
  BY <1>2, <1>3, <1>4

LEMMA SetDraftStep ==
  ASSUME ComposerInv, SetDraft
  PROVE  ComposerInv'
<1>1. /\ ComposerTypes /\ DraftIsTyped /\ SendsAreTyped /\ SendsAreApart
      /\ SendingIsShown /\ DraftIsFresh /\ UnsentIsUnwritten /\ Written
      /\ view \in Views /\ view.composer \in Composers /\ view.composer.key = view.active
      /\ typedFor \in Seq(Threads) /\ sends \subseteq Parcels
  BY ViewFields DEF ComposerInv, ComposerTypes
<1>2. view.active \in Threads /\ ~view.sending
  BY <1>1 DEF SetDraft, Composing, Views
<1> DEFINE n == Len(typedFor) + 1
           c == [view.composer EXCEPT !.draft = n]
           w == [view EXCEPT !.composer = c]
<1>3. /\ typedFor' = Append(typedFor, view.active) /\ UNCHANGED <<server, sends, inbox, files>>
      /\ typedFor' \in Seq(Threads) /\ n \in Nat /\ n # NoText /\ n \notin DOMAIN typedFor
      /\ DOMAIN typedFor' = (DOMAIN typedFor) \cup {n} /\ typedFor'[n] = view.active
      /\ \A i \in DOMAIN typedFor : typedFor'[i] = typedFor[i]
  <2>1. typedFor' = Append(typedFor, view.active) /\ UNCHANGED <<server, sends, inbox, files>>
    BY DEF SetDraft
  <2> QED
    BY <1>1, <1>2, <2>1, AppendFacts DEF NoText
<1>4. view' = w
  <2>1. Len(typedFor') = n
    BY <1>1, <1>2, <1>3, AppendFacts
  <2>2. view' = [view EXCEPT !.composer.draft = Len(typedFor')]
    BY DEF SetDraft
  <2> HIDE DEF n
  <2> QED
    BY <2>1, <2>2
<1> HIDE DEF n
<1>5. c \in Composers /\ c.key = view.composer.key /\ c.draft = n
  BY <1>1, <1>3 DEF Composers
<1> HIDE DEF c
<1>6. /\ w \in Views /\ w.active = view.active /\ w.visit = view.visit
      /\ w.sending = view.sending /\ w.composer = c
  BY <1>1, <1>5 DEF Views
<1> HIDE DEF w
<1>7. ComposerTypes'
  BY <1>1, <1>3, <1>4, <1>5, <1>6 DEF ComposerTypes
<1>8. DraftIsTyped'
  BY <1>1, <1>3, <1>4, <1>5, <1>6 DEF DraftIsTyped, Typing
<1>9. SendsAreTyped'
  BY <1>1, <1>3, <1>4, <1>6 DEF SendsAreTyped
<1>10. SendsAreApart' /\ UnsentIsUnwritten'
  BY <1>1, <1>3 DEF SendsAreApart, UnsentIsUnwritten, InNoThread, PointedAt
<1>11. SendingIsShown'
  BY <1>1, <1>2, <1>3, <1>4, <1>6 DEF SendingIsShown, Mine
<1>12. DraftIsFresh'
  <2>1. \A s \in sends : s.text # n
    BY <1>1, <1>3 DEF SendsAreTyped
  <2>2. InNoThread(n)
    BY <1>1, <1>3 DEF Written, InNoThread
  <2> QED
    BY <1>3, <1>4, <1>5, <1>6, <2>1, <2>2 DEF DraftIsFresh, Typing, InNoThread
<1>13. Written'
  BY <1>1, <1>3 DEF Written
<1> QED
  BY <1>7, <1>8, <1>9, <1>10, <1>11, <1>12, <1>13 DEF ComposerInv

LEMMA SendMessageStep ==
  ASSUME ComposerInv, SendMessage
  PROVE  ComposerInv'
<1>1. /\ ComposerTypes /\ DraftIsTyped /\ SendsAreTyped /\ SendsAreApart
      /\ SendingIsShown /\ DraftIsFresh /\ UnsentIsUnwritten /\ Written
      /\ view \in Views /\ view.composer \in Composers /\ view.composer.key = view.active
      /\ view.visit \in Nat /\ sends \subseteq Parcels /\ files \in Seq({"stored", "released"})
  BY ViewFields DEF ComposerInv, ComposerTypes
<1>2. /\ view.active \in Threads /\ ~view.sending /\ Typing # NoText /\ Typing \in Nat
      /\ view.composer.attachment \in BOOLEAN
  BY <1>1 DEF SendMessage, Composing, Views, Typing, Composers
<1> DEFINE file == view.composer.attachment
           new == [visit |-> view.visit, target |-> view.active, text |-> Typing,
                   file |-> file, media |-> 0, phase |-> IF file THEN "upload" ELSE "post"]
           w == [view EXCEPT !.sending = TRUE]
<1>3. /\ sends' = sends \cup {new} /\ view' = w /\ UNCHANGED <<server, inbox, files, typedFor>>
  BY DEF SendMessage, Typing
<1>4. /\ new \in Parcels /\ new.visit = view.visit /\ new.target = view.active /\ new.text = Typing
      /\ new.media = 0 /\ new.phase # "posted"
  BY <1>1, <1>2 DEF Parcels
<1> HIDE DEF new
<1>5. /\ w \in Views /\ w.active = view.active /\ w.visit = view.visit
      /\ w.sending /\ w.composer = view.composer
  BY <1>1 DEF Views
<1> HIDE DEF w
<1>6. \A s \in sends : ~Mine(s) /\ s.text # Typing /\ s.visit # view.visit
  BY <1>1, <1>2 DEF SendingIsShown, DraftIsFresh, Mine
<1>7. ~server => InNoThread(Typing)
  BY <1>1, <1>2, <1>6 DEF DraftIsFresh
<1>8. ComposerTypes'
  BY <1>1, <1>3, <1>4, <1>5 DEF ComposerTypes
<1>9. DraftIsTyped'
  BY <1>1, <1>3, <1>5 DEF DraftIsTyped, Typing
<1>10. SendsAreTyped'
  <2>1. 0 \in 0..Len(files)
    BY <1>1, LenProperties
  <2> QED
    BY <1>1, <1>2, <1>3, <1>4, <1>5, <2>1 DEF SendsAreTyped, DraftIsTyped
<1>11. SendsAreApart'
  BY <1>1, <1>3, <1>4, <1>6 DEF SendsAreApart
<1>12. SendingIsShown'
  BY <1>1, <1>3, <1>4, <1>5, <1>6 DEF SendingIsShown, Mine, Typing
<1>13. DraftIsFresh'
  BY <1>3, <1>4, <1>5 DEF DraftIsFresh, Mine
<1>14. UnsentIsUnwritten'
  BY <1>1, <1>3, <1>4, <1>7 DEF UnsentIsUnwritten, InNoThread, PointedAt
<1>15. Written'
  BY <1>1, <1>3 DEF Written
<1> QED
  BY <1>8, <1>9, <1>10, <1>11, <1>12, <1>13, <1>14, <1>15 DEF ComposerInv

\* A send goes on to another phase.
LEMMA GoesOn ==
  ASSUME ComposerInv, NEW s \in sends, NEW to \in Parcels, sends' = (sends \ {s}) \cup {to},
         to.visit = s.visit, to.target = s.target, to.text = s.text, to.phase # "upload",
         to.media = s.media \/ to.media = Len(files) + 1, to.media \in 0..Len(files'),
         Len(files') \in Nat, Len(files) <= Len(files'), UNCHANGED <<view, typedFor>>
  PROVE  /\ DraftIsTyped' /\ SendsAreTyped' /\ SendsAreApart' /\ SendingIsShown'
         /\ Typing' # NoText /\ (\A x \in sends' : ~Mine(x)')
              => /\ Typing # NoText /\ \A x \in sends : ~Mine(x)
                 /\ \A x \in sends' : x.text # Typing'
<1>1. /\ ComposerTypes /\ DraftIsTyped /\ SendsAreTyped /\ SendsAreApart
      /\ SendingIsShown /\ DraftIsFresh /\ sends \subseteq Parcels
  BY DEF ComposerInv, ComposerTypes
<1>2. DraftIsTyped'
  BY <1>1 DEF DraftIsTyped, Typing
<1>3. Len(files) \in Nat
  BY <1>1, LenProperties DEF ComposerTypes
<1>4. SendsAreTyped'
  BY <1>1, <1>3 DEF SendsAreTyped
<1>5. SendsAreApart'
  <2>1. \A x \in sends : x.media \in 0..Len(files) /\ x.media # Len(files) + 1
    BY <1>1, <1>3 DEF SendsAreTyped
  <2> QED
    BY <1>1, <2>1 DEF SendsAreApart
<1>6. SendingIsShown'
  BY <1>1 DEF SendingIsShown, Mine, Typing
<1>7. ASSUME Typing' # NoText, \A x \in sends' : ~Mine(x)'
      PROVE  /\ Typing # NoText /\ \A x \in sends : ~Mine(x)
             /\ \A x \in sends' : x.text # Typing'
  BY <1>1, <1>7 DEF DraftIsFresh, Mine, Typing
<1> QED
  BY <1>2, <1>4, <1>5, <1>6, <1>7

LEMMA UploadedStep ==
  ASSUME ComposerInv, NEW s \in sends, Uploaded(s)
  PROVE  ComposerInv'
<1>1. /\ ComposerTypes /\ SendsAreTyped /\ DraftIsFresh /\ UnsentIsUnwritten /\ Written
      /\ files \in Seq({"stored", "released"}) /\ s \in Parcels /\ s.phase = "upload"
      /\ sends \subseteq Parcels
  BY DEF ComposerInv, ComposerTypes, Uploaded
<1> DEFINE n == Len(files) + 1
           to == [[s EXCEPT !.phase = "post"] EXCEPT !.media = n]
<1>2. /\ files' = Append(files, "stored") /\ files' \in Seq({"stored", "released"})
      /\ Len(files) \in Nat /\ Len(files') = n /\ n \notin DOMAIN files
      /\ DOMAIN files' = (DOMAIN files) \cup {n} /\ files'[n] = "stored"
      /\ \A i \in DOMAIN files : files'[i] = files[i]
  <2>1. files' = Append(files, "stored")
    BY DEF Uploaded
  <2> QED
    BY <1>1, <2>1, AppendFacts
<1>3. sends' = (sends \ {s}) \cup {to} /\ UNCHANGED <<server, view, inbox, typedFor>>
  <2>1. sends' = (sends \ {s}) \cup {[[s EXCEPT !.phase = "post"] EXCEPT !.media = Len(files')]}
    BY Zenon DEF Uploaded, Goes
  <2> QED
    BY <1>2, <2>1 DEF Uploaded
<1>4. /\ to \in Parcels /\ to.visit = s.visit /\ to.target = s.target /\ to.text = s.text
      /\ to.phase = "post" /\ to.media = n
  <2> DEFINE half == [s EXCEPT !.phase = "post"]
  <2>1. /\ half \in Parcels /\ half.visit = s.visit /\ half.target = s.target /\ half.text = s.text
        /\ half.phase = "post"
    BY <1>1 DEF Parcels
  <2> HIDE DEF half
  <2>2. n \in Nat
    BY <1>2
  <2> QED
    BY <2>1, <2>2 DEF Parcels, half
<1> HIDE DEF to
<1>5. /\ DraftIsTyped' /\ SendsAreTyped' /\ SendsAreApart' /\ SendingIsShown'
      /\ Typing' # NoText /\ (\A x \in sends' : ~Mine(x)')
           => /\ Typing # NoText /\ \A x \in sends : ~Mine(x)
              /\ \A x \in sends' : x.text # Typing'
  <2>1. n \in 0..Len(files') /\ Len(files') \in Nat /\ Len(files) <= Len(files')
    BY <1>2
  <2> QED
    BY <1>2, <1>3, <1>4, <2>1, GoesOn
<1>6. ComposerTypes'
  BY <1>1, <1>2, <1>3, <1>4 DEF ComposerTypes
<1>7. DraftIsFresh'
  BY <1>1, <1>3, <1>5 DEF DraftIsFresh, InNoThread, Typing
<1>8. ~PointedAt(n)
  BY <1>1, <1>2 DEF PointedAt, Written
<1>9. UnsentIsUnwritten'
  BY <1>1, <1>3, <1>4, <1>8 DEF UnsentIsUnwritten, InNoThread, PointedAt
<1>10. Written'
  BY <1>1, <1>2, <1>3 DEF Written
<1> QED
  BY <1>5, <1>6, <1>7, <1>9, <1>10 DEF ComposerInv

LEMMA PostMessageStep ==
  ASSUME ComposerInv, NEW s \in sends, PostMessage(s)
  PROVE  ComposerInv'
<1>1. /\ ComposerTypes /\ SendsAreTyped /\ SendsAreApart /\ DraftIsFresh /\ UnsentIsUnwritten
      /\ Written /\ files \in Seq({"stored", "released"}) /\ s \in Parcels /\ s.phase = "post"
      /\ sends \subseteq Parcels /\ inbox \in [Threads -> Seq(Letters)]
  BY DEF ComposerInv, ComposerTypes, PostMessage
<1>2. Len(files) \in Nat /\ UNCHANGED <<server, view, files, typedFor>>
  BY <1>1, LenProperties DEF PostMessage
<1>3. ASSUME NEW phase \in {"posted", "refused"}, NEW to, to = [s EXCEPT !.phase = phase],
             sends' = (sends \ {s}) \cup {to}
      PROVE  /\ to \in Parcels /\ to.visit = s.visit /\ to.target = s.target /\ to.text = s.text
             /\ to.phase = phase /\ to.media = s.media
             /\ DraftIsTyped' /\ SendsAreTyped' /\ SendsAreApart' /\ SendingIsShown'
             /\ Typing' # NoText /\ (\A x \in sends' : ~Mine(x)')
                  => /\ Typing # NoText /\ \A x \in sends : ~Mine(x)
                     /\ \A x \in sends' : x.text # Typing'
  <2>1. /\ to \in Parcels /\ to.visit = s.visit /\ to.target = s.target /\ to.text = s.text
        /\ to.phase = phase /\ to.media = s.media
    BY <1>1, <1>3 DEF Parcels
  <2>2. to.media \in 0..Len(files') /\ Len(files') \in Nat /\ Len(files) <= Len(files')
    BY <1>1, <1>2, <2>1 DEF SendsAreTyped
  <2> QED
    BY <1>2, <1>3, <2>1, <2>2, GoesOn
<1>4. CASE inbox' = inbox /\ Goes(s, [s EXCEPT !.phase = "refused"])
  <2> DEFINE to == [s EXCEPT !.phase = "refused"]
  <2>1. sends' = (sends \ {s}) \cup {to}
    BY <1>4 DEF Goes
  <2>2. /\ to \in Parcels /\ to.text = s.text /\ to.media = s.media
        /\ DraftIsTyped' /\ SendsAreTyped' /\ SendsAreApart' /\ SendingIsShown'
        /\ Typing' # NoText /\ (\A x \in sends' : ~Mine(x)')
             => /\ Typing # NoText /\ \A x \in sends : ~Mine(x)
                /\ \A x \in sends' : x.text # Typing'
    BY <1>3, <2>1
  <2> HIDE DEF to
  <2>3. ComposerTypes'
    BY <1>1, <1>2, <1>4, <2>1, <2>2 DEF ComposerTypes
  <2>4. DraftIsFresh'
    BY <1>1, <1>2, <1>4, <2>2 DEF DraftIsFresh, InNoThread, Typing
  <2>5. UnsentIsUnwritten'
    BY <1>1, <1>2, <1>4, <2>1, <2>2 DEF UnsentIsUnwritten, InNoThread, PointedAt
  <2>6. Written'
    BY <1>1, <1>2, <1>4 DEF Written
  <2> QED
    BY <2>2, <2>3, <2>4, <2>5, <2>6 DEF ComposerInv
<1>5. CASE /\ s.media = 0 \/ s.media \in {f \in DOMAIN files : files[f] = "stored"}
           /\ inbox' = [inbox EXCEPT ![s.target] = Append(@, [text |-> s.text, media |-> s.media])]
           /\ Goes(s, [s EXCEPT !.phase = "posted"])
  <2> DEFINE to == [s EXCEPT !.phase = "posted"]
             k == s.target
             letter == [text |-> s.text, media |-> s.media]
             n == Len(inbox[k]) + 1
  <2>1. sends' = (sends \ {s}) \cup {to}
    BY <1>5 DEF Goes
  <2>2. /\ to \in Parcels /\ to.text = s.text /\ to.media = s.media /\ to.phase = "posted"
        /\ DraftIsTyped' /\ SendsAreTyped' /\ SendsAreApart' /\ SendingIsShown'
        /\ Typing' # NoText /\ (\A x \in sends' : ~Mine(x)')
             => /\ Typing # NoText /\ \A x \in sends : ~Mine(x)
                /\ \A x \in sends' : x.text # Typing'
    BY <1>3, <2>1
  <2>3. letter \in Letters /\ letter.text = s.text /\ letter.media = s.media /\ k \in Threads
    BY <1>1 DEF Letters, Parcels
  <2>4. inbox' = [inbox EXCEPT ![k] = Append(inbox[k], letter)]
    BY <1>5
  <2> HIDE DEF to, letter
  <2>5. /\ inbox' \in [Threads -> Seq(Letters)]
        /\ DOMAIN inbox'[k] = (DOMAIN inbox[k]) \cup {n} /\ n \notin DOMAIN inbox[k]
        /\ inbox'[k][n] = letter /\ \A i \in DOMAIN inbox[k] : inbox'[k][i] = inbox[k][i]
        /\ \A j \in Threads \ {k} : inbox'[j] = inbox[j]
    <3>1. inbox[k] \in Seq(Letters)
      BY <1>1, <2>3
    <3>2. /\ Append(inbox[k], letter) \in Seq(Letters)
          /\ DOMAIN Append(inbox[k], letter) = (DOMAIN inbox[k]) \cup {n} /\ n \notin DOMAIN inbox[k]
          /\ Append(inbox[k], letter)[n] = letter
          /\ \A i \in DOMAIN inbox[k] : Append(inbox[k], letter)[i] = inbox[k][i]
      BY <2>3, <3>1, AppendFacts
    <3> QED
      BY <1>1, <2>3, <2>4, <3>2
  <2> HIDE DEF n
  <2>6. /\ s.text # NoText /\ s.text \in DOMAIN typedFor /\ typedFor[s.text] = k
    BY <1>1 DEF SendsAreTyped
  <2>7. \A x \in sends' : x.phase # "posted"
          => x \in sends /\ x.text # s.text /\ (x.media # 0 => x.media # s.media)
    BY <1>1, <2>1, <2>2 DEF SendsAreApart
  <2>8. ComposerTypes'
    BY <1>1, <1>2, <2>1, <2>2, <2>5 DEF ComposerTypes
  <2>9. ASSUME NEW j \in Threads, NEW i \in DOMAIN inbox'[j]
        PROVE  (i \in DOMAIN inbox[j] /\ inbox'[j][i] = inbox[j][i]) \/ (j = k /\ i = n /\ inbox'[j][i] = letter)
    BY <2>5, <2>9
  <2>10. DraftIsFresh'
    <3> SUFFICES ASSUME Typing' # NoText, \A x \in sends' : ~Mine(x)'
                 PROVE  /\ \A x \in sends' : x.text # Typing'
                        /\ ~server' => InNoThread(Typing)'
      BY DEF DraftIsFresh
    <3>1. /\ Typing # NoText /\ \A x \in sends : ~Mine(x)
          /\ \A x \in sends' : x.text # Typing'
      BY <2>2
    <3>2. Typing' = Typing /\ s.text # Typing /\ (~server => InNoThread(Typing))
      BY <1>1, <1>2, <3>1 DEF DraftIsFresh, Typing
    <3>3. ~server' => InNoThread(Typing)'
      BY <1>2, <2>3, <2>9, <3>2 DEF InNoThread
    <3> QED
      BY <3>1, <3>3
  <2>11. UnsentIsUnwritten'
    <3> SUFFICES ASSUME ~server, NEW x \in sends', x.phase # "posted",
                        NEW j \in Threads, NEW i \in DOMAIN inbox'[j]
                 PROVE  inbox'[j][i].text # x.text /\ (x.media # 0 => inbox'[j][i].media # x.media)
      BY <1>2 DEF UnsentIsUnwritten, InNoThread, PointedAt
    <3>1. x \in sends /\ x.text # s.text /\ (x.media # 0 => x.media # s.media)
      BY <2>7
    <3>2. InNoThread(x.text) /\ (x.media # 0 => ~PointedAt(x.media))
      BY <1>1, <3>1 DEF UnsentIsUnwritten
    <3> QED
      BY <2>3, <2>9, <3>1, <3>2 DEF InNoThread, PointedAt
  <2>12. Written'
    <3>1. s.media # 0 => s.media \in DOMAIN files /\ files[s.media] = "stored"
      BY <1>5
    <3>2. ASSUME ~server PROVE \A i \in DOMAIN inbox[k] : inbox[k][i].text # s.text
      BY <1>1, <2>3, <3>2 DEF UnsentIsUnwritten, InNoThread
    <3> SUFFICES ASSUME NEW j \in Threads, NEW i \in DOMAIN inbox'[j]
                 PROVE  /\ inbox'[j][i].text \in DOMAIN typedFor /\ typedFor[inbox'[j][i].text] = j
                        /\ inbox'[j][i].media # 0
                             => inbox'[j][i].media \in DOMAIN files /\ files[inbox'[j][i].media] = "stored"
                        /\ ~server => \A h \in DOMAIN inbox'[j] : inbox'[j][h].text = inbox'[j][i].text => h = i
      BY <1>2 DEF Written
    <3>3. CASE i \in DOMAIN inbox[j] /\ inbox'[j][i] = inbox[j][i]
      <4>1. /\ inbox'[j][i].text \in DOMAIN typedFor /\ typedFor[inbox'[j][i].text] = j
            /\ inbox'[j][i].media # 0
                 => inbox'[j][i].media \in DOMAIN files /\ files[inbox'[j][i].media] = "stored"
        BY <1>1, <3>3 DEF Written
      <4>2. ASSUME ~server, NEW h \in DOMAIN inbox'[j], inbox'[j][h].text = inbox'[j][i].text PROVE h = i
        BY <1>1, <2>3, <2>9, <3>2, <3>3, <4>2 DEF Written
      <4> QED
        BY <4>1, <4>2
    <3>4. CASE j = k /\ i = n /\ inbox'[j][i] = letter
      <4>1. ASSUME ~server, NEW h \in DOMAIN inbox'[j], inbox'[j][h].text = inbox'[j][i].text PROVE h = i
        BY <2>3, <2>9, <3>2, <3>4, <4>1
      <4> QED
        BY <2>3, <2>6, <3>1, <3>4, <4>1
    <3> QED
      BY <2>9, <3>3, <3>4
  <2> QED
    BY <2>2, <2>8, <2>10, <2>11, <2>12 DEF ComposerInv
<1> QED
  BY <1>4, <1>5 DEF PostMessage

\* A send ends, and the mount that began it is free again.
LEMMA SettlesDown ==
  ASSUME ComposerInv, NEW s \in sends, sends' = sends \ {s}, UNCHANGED <<server, inbox, typedFor>>,
         NEW w \in Views, view' = w, w.visit = view.visit, w.active = view.active,
         w.composer.key = w.active, w.sending = (view.sending /\ ~Mine(s)),
         w.composer.draft = NoText \/ w.composer.draft = Typing,
         s.phase = "posted" /\ ~server /\ Mine(s) /\ Typing = s.text => w.composer.draft = NoText,
         files' \in Seq({"stored", "released"}), Len(files') = Len(files), DOMAIN files' = DOMAIN files,
         \A f \in DOMAIN files : PointedAt(f) => files'[f] = files[f]
  PROVE  ComposerInv'
<1>1. /\ ComposerTypes /\ DraftIsTyped /\ SendsAreTyped /\ SendsAreApart
      /\ SendingIsShown /\ DraftIsFresh /\ UnsentIsUnwritten /\ Written /\ sends \subseteq Parcels
      /\ view.composer.key = view.active /\ view.sending \in BOOLEAN
  BY ViewFields DEF ComposerInv, ComposerTypes
<1>2. ComposerTypes'
  BY <1>1 DEF ComposerTypes
<1>3. DraftIsTyped'
  BY <1>1 DEF DraftIsTyped, Typing
<1>4. SendsAreTyped' /\ SendsAreApart'
  BY <1>1 DEF SendsAreTyped, SendsAreApart
<1>5. SendingIsShown'
  <2>1. \A x \in sends' : Mine(x) => ~Mine(s) /\ view.sending /\ Typing \in {NoText, x.text}
    BY <1>1 DEF SendingIsShown, SendsAreApart, Mine
  <2> QED
    BY <2>1 DEF SendingIsShown, Mine, Typing
<1>6. DraftIsFresh'
  <2> SUFFICES ASSUME Typing' # NoText, \A x \in sends' : ~Mine(x)
               PROVE  /\ \A x \in sends' : x.text # Typing'
                      /\ ~server => InNoThread(Typing')
    BY DEF DraftIsFresh, InNoThread, Mine
  <2>1. Typing' = Typing /\ Typing # NoText
    BY DEF Typing
  <2>2. CASE Mine(s)
    <3>1. Typing = s.text
      BY <1>1, <2>1, <2>2 DEF SendingIsShown
    <3>2. ~server => s.phase # "posted"
      BY <2>1, <2>2, <3>1 DEF Typing
    <3>3. ~server => InNoThread(Typing)
      BY <1>1, <3>1, <3>2 DEF UnsentIsUnwritten
    <3> QED
      BY <1>1, <2>1, <3>1, <3>3 DEF SendsAreApart
  <2>3. CASE ~Mine(s)
    BY <1>1, <2>1, <2>3 DEF DraftIsFresh
  <2> QED
    BY <2>2, <2>3
<1>7. UnsentIsUnwritten'
  BY <1>1 DEF UnsentIsUnwritten, InNoThread, PointedAt
<1>8. Written'
  BY <1>1 DEF Written, PointedAt
<1> QED
  BY <1>2, <1>3, <1>4, <1>5, <1>6, <1>7, <1>8 DEF ComposerInv

LEMMA SettledFields ==
  ASSUME ComposerTypes, NEW s
  PROVE  /\ Settled(s) \in Views /\ Settled(s).visit = view.visit /\ Settled(s).active = view.active
         /\ Settled(s).composer = view.composer
         /\ Settled(s).sending = (view.sending /\ ~Mine(s))
<1>1. view \in Views
  BY DEF ComposerTypes
<1>2. CASE Mine(s)
  <2> DEFINE w == [view EXCEPT !.sending = FALSE]
  <2>1. w \in Views /\ w.visit = view.visit /\ w.active = view.active /\ w.composer = view.composer /\ ~w.sending
    BY <1>1 DEF Views
  <2>2. Settled(s) = w
    BY <1>2 DEF Settled, Mine
  <2>3. w.sending \in BOOLEAN
    BY <2>1 DEF Views
  <2> HIDE DEF w
  <2> QED
    BY <1>2, <2>1, <2>2, <2>3
<1>3. CASE ~Mine(s)
  <2>1. Settled(s) = view
    BY <1>3 DEF Settled, Mine
  <2>2. view.sending \in BOOLEAN
    BY <1>1 DEF Views
  <2> QED
    BY <1>1, <1>3, <2>1, <2>2
<1> QED
  BY <1>2, <1>3

LEMMA EndSteps ==
  ASSUME ComposerInv, NEW s \in sends,
         UploadRefused(s) \/ MessageSent(s) \/ MessageFailed(s) \/ Release(s)
  PROVE  ComposerInv'
<1>1. /\ ComposerTypes /\ DraftIsTyped /\ SendsAreTyped /\ SendingIsShown /\ UnsentIsUnwritten
      /\ view.composer.key = view.active /\ files \in Seq({"stored", "released"})
      /\ s \in Parcels /\ sends \subseteq Parcels /\ Len(files) \in Nat
  BY ViewFields, LenProperties DEF ComposerInv, ComposerTypes
<1>2. /\ Settled(s) \in Views /\ Settled(s).visit = view.visit /\ Settled(s).active = view.active
      /\ Settled(s).composer = view.composer
      /\ Settled(s).sending = (view.sending /\ ~Mine(s))
  BY <1>1, SettledFields
<1>3. ASSUME sends' = sends \ {s}, view' = Settled(s), UNCHANGED <<server, inbox, files, typedFor>>,
             s.phase # "posted" \/ server \/ ~Mine(s) \/ Typing # s.text \/ Typing = NoText
      PROVE  ComposerInv'
  BY <1>1, <1>2, <1>3, SettlesDown DEF Typing
<1>4. CASE UploadRefused(s)
  BY <1>3, <1>4 DEF UploadRefused
<1>5. CASE MessageSent(s)
  <2>1. /\ sends' = sends \ {s} /\ UNCHANGED <<server, inbox, files, typedFor>> /\ s.phase = "posted"
        /\ view' = IF s.visit = view.visit /\ view.composer.key = s.target
                   THEN [Settled(s) EXCEPT !.composer = EMPTY(s.target)] ELSE Settled(s)
    BY <1>5 DEF MessageSent
  <2>2. CASE s.visit = view.visit /\ view.composer.key = s.target
    <3> DEFINE w == [Settled(s) EXCEPT !.composer = EMPTY(s.target)]
    <3>1. view' = w
      BY <2>1, <2>2
    <3>2. /\ EMPTY(s.target) \in Composers /\ EMPTY(s.target).key = s.target
          /\ EMPTY(s.target).draft = NoText
      BY <1>1, EmptyComposer DEF Parcels
    <3>3. /\ w \in Views /\ w.visit = view.visit /\ w.active = view.active
          /\ w.composer = EMPTY(s.target) /\ w.sending = (view.sending /\ ~Mine(s))
      BY <1>2, <3>2 DEF Views
    <3> HIDE DEF w
    <3> QED
      BY <1>1, <2>1, <2>2, <3>1, <3>2, <3>3, SettlesDown
  <2>3. CASE ~(s.visit = view.visit /\ view.composer.key = s.target)
    <3>1. ASSUME Mine(s), Typing = s.text PROVE FALSE
      <4>1. typedFor[s.text] = s.target /\ s.text # NoText /\ s.visit = view.visit
        BY <1>1, <3>1 DEF SendsAreTyped, Mine
      <4>2. typedFor[Typing] = view.composer.key
        BY <1>1, <3>1, <4>1 DEF DraftIsTyped
      <4> QED
        BY <2>3, <3>1, <4>1, <4>2
    <3>2. view' = Settled(s)
      BY <2>1, <2>3
    <3> QED
      BY <1>3, <2>1, <3>1, <3>2
  <2> QED
    BY <2>2, <2>3
<1>6. CASE MessageFailed(s)
  <2>1. /\ UNCHANGED <<server, inbox, files, typedFor>> /\ s.phase # "upload"
        /\ s.phase = "posted" => server
    BY <1>6 DEF MessageFailed
  <2>2. CASE s.media = 0
    <3>1. sends' = sends \ {s} /\ view' = Settled(s)
      BY <1>6, <2>2 DEF MessageFailed
    <3> QED
      BY <1>3, <2>1, <3>1
  <2>3. CASE s.media # 0
    <3> DEFINE to == [s EXCEPT !.phase = "release"]
    <3>1. sends' = (sends \ {s}) \cup {to} /\ view' = view
      BY <1>6, <2>3 DEF MessageFailed, Goes
    <3>2. /\ to \in Parcels /\ to.visit = s.visit /\ to.target = s.target /\ to.text = s.text
          /\ to.phase = "release" /\ to.media = s.media
      BY <1>1 DEF Parcels
    <3> HIDE DEF to
    <3>3. /\ DraftIsTyped' /\ SendsAreTyped' /\ SendsAreApart' /\ SendingIsShown'
          /\ Typing' # NoText /\ (\A x \in sends' : ~Mine(x)')
               => /\ Typing # NoText /\ \A x \in sends : ~Mine(x)
                  /\ \A x \in sends' : x.text # Typing'
      <4>1. to.media \in 0..Len(files') /\ Len(files') \in Nat /\ Len(files) <= Len(files')
        BY <1>1, <2>1, <3>2 DEF SendsAreTyped
      <4> QED
        BY <2>1, <3>1, <3>2, <4>1, GoesOn
    <3>4. ComposerTypes'
      BY <1>1, <2>1, <3>1, <3>2 DEF ComposerTypes
    <3>5. DraftIsFresh'
      BY <2>1, <3>1, <3>3 DEF ComposerInv, DraftIsFresh, InNoThread, Typing
    <3>6. UnsentIsUnwritten'
      BY <1>1, <2>1, <3>1, <3>2 DEF UnsentIsUnwritten, InNoThread, PointedAt
    <3>7. Written'
      BY <2>1 DEF ComposerInv, Written
    <3> QED
      BY <3>3, <3>4, <3>5, <3>6, <3>7 DEF ComposerInv
  <2> QED
    BY <2>2, <2>3
<1>7. CASE Release(s)
  <2>1. /\ sends' = sends \ {s} /\ view' = Settled(s) /\ UNCHANGED <<server, inbox, typedFor>>
        /\ s.phase = "release"
        /\ files' = IF server /\ Referenced(s.media) THEN files ELSE [files EXCEPT ![s.media] = "released"]
    BY <1>7 DEF Release
  <2>2. CASE files' = files
    BY <1>3, <2>1, <2>2
  <2>3. CASE files' # files
    <3>1. files' = [files EXCEPT ![s.media] = "released"] /\ ~(server /\ Referenced(s.media))
      BY <2>1, <2>3
    <3>2. /\ files' \in Seq({"stored", "released"}) /\ Len(files') = Len(files)
          /\ DOMAIN files' = DOMAIN files
          /\ \A f \in DOMAIN files : f # s.media => files'[f] = files[f]
      <4>1. files = [f \in DOMAIN files |-> files[f]] /\ DOMAIN files = 1..Len(files)
        BY <1>1, LenProperties
      <4>2. s.media \in 1..Len(files)
        BY <2>3, <3>1, <4>1
      <4>3. DOMAIN files' = 1..Len(files)
        BY <3>1, <4>1
      <4>4. "released" \in {"stored", "released"}
        OBVIOUS
      <4> QED
        BY <1>1, <3>1, <4>1, <4>2, <4>3, <4>4, ExceptSeq
    <3>3. ASSUME NEW f \in DOMAIN files, PointedAt(f) PROVE f # s.media
      <4>1. CASE server
        BY <3>1, <3>3, <4>1 DEF Referenced, PointedAt
      <4>2. CASE ~server
        <5>1. 0 \notin DOMAIN files
          BY <1>1, LenProperties
        <5>2. s.media # 0 => ~PointedAt(s.media)
          BY <1>1, <2>1, <4>2 DEF UnsentIsUnwritten
        <5> QED
          BY <3>3, <5>1, <5>2
      <4> QED
        BY <4>1, <4>2
    <3> QED
      BY <1>1, <1>2, <2>1, <3>2, <3>3, SettlesDown DEF Typing
  <2> QED
    BY <2>2, <2>3
<1> QED
  BY <1>4, <1>5, <1>6, <1>7

LEMMA ComposerStarts == ComposerInit => ComposerInv
<1> SUFFICES ASSUME ComposerInit PROVE ComposerInv
  OBVIOUS
<1>1. /\ server \in BOOLEAN /\ view = Enters(0, NoThread) /\ sends = {}
      /\ inbox = [k \in Threads |-> <<>>] /\ files = <<>> /\ typedFor = <<>>
  BY DEF ComposerInit
<1>2. /\ view \in Views /\ view.active = NoThread /\ view.composer = EMPTY(NoThread)
  BY <1>1, EmptyComposer DEF Enters, Views
<1>3. view.composer.key = NoThread /\ Typing = NoText
  BY <1>2, EmptyComposer DEF Typing
<1>4. \A k \in Threads : DOMAIN inbox[k] = {} /\ inbox[k] \in Seq(Letters)
  BY <1>1
<1>5. ComposerTypes
  <2>1. inbox \in [Threads -> Seq(Letters)]
    BY <1>1
  <2> QED
    BY <1>1, <1>2, <1>3, <2>1 DEF ComposerTypes
<1> QED
  BY <1>1, <1>3, <1>4, <1>5
  DEF ComposerInv, DraftIsTyped, SendsAreTyped, SendsAreApart, SendingIsShown, DraftIsFresh,
      UnsentIsUnwritten, Written, InNoThread

LEMMA ComposerKeeps == ComposerInv /\ [ComposerNext]_composerVars => ComposerInv'
<1> SUFFICES ASSUME ComposerInv, [ComposerNext]_composerVars PROVE ComposerInv'
  OBVIOUS
<1>1. CASE UNCHANGED composerVars
  BY <1>1
  DEF composerVars, ComposerInv, ComposerTypes, DraftIsTyped, SendsAreTyped, SendsAreApart,
      SendingIsShown, DraftIsFresh, UnsentIsUnwritten, Written, InNoThread, PointedAt, Typing, Mine
<1>2. CASE ComposerNext
  BY <1>2, ComposingSteps, SetDraftStep, SendMessageStep, UploadedStep, PostMessageStep, EndSteps
  DEF ComposerNext
<1> QED
  BY <1>1, <1>2

\* A message reaches the thread under which it was typed, once unless an answer
\* of the server was lost, and its file stands: for any number of threads,
\* texts, sends under way and visits (views/messages/useComposer.ts, views/Messages.tsx).
THEOREM ComposerReachesItsThread == ComposerSpec => []MessagesReachTheirThread
<1>1. ComposerInv => MessagesReachTheirThread
  <2> SUFFICES ASSUME ComposerInv, NEW k \in Threads, NEW i \in DOMAIN inbox[k]
               PROVE  LET m == inbox[k][i]
                      IN /\ typedFor[m.text] = k
                         /\ server \/ Copies(k, m.text) = {i}
                         /\ m.media # 0 => files[m.media] = "stored"
    BY DEF MessagesReachTheirThread
  <2>1. /\ typedFor[inbox[k][i].text] = k
        /\ inbox[k][i].media # 0 => files[inbox[k][i].media] = "stored"
        /\ ~server => \A j \in DOMAIN inbox[k] : inbox[k][j].text = inbox[k][i].text => j = i
    BY DEF ComposerInv, Written
  <2>2. ~server => Copies(k, inbox[k][i].text) = {i}
    BY <2>1 DEF Copies
  <2> QED
    BY <2>1, <2>2
<1> QED
  BY <1>1, ComposerStarts, ComposerKeeps, PTL DEF ComposerSpec


-----------------------------------------------------------------------------
(***************************************************************************)
(* The dialogs.  What is drafted is drafted for what is shown; a guarded   *)
(* dialog has no second write of its view under way; in the page, a staged *)
(* photo that a record carries is that of a write not yet answered, and an *)
(* upload under way belongs to the field on the screen.                    *)
(***************************************************************************)
Drafts == [of : Records \cup {NoRecord}, photo : Nat]
Forms == [shows : Records \cup {NoRecord}, opening : Nat, view : Nat,
          submitting : BOOLEAN, draft : Drafts]
Writes == [view : Nat, opening : Nat, target : Records, draft : Drafts,
           answer : {"none", "written", "refused"}]
Store == {"stored", "released"}

FormTypes ==
  /\ api \in BOOLEAN /\ dialog \in Dialogs /\ late \in BOOLEAN
  /\ form \in Forms /\ saves \subseteq Writes
  /\ uploads \subseteq [view : Nat, opening : Nat, prior : Nat]
  /\ staged \subseteq Nat \X Nat /\ saved \in [Records -> Nat] /\ photos \in Seq(Store)

DraftsMatch == /\ Open => form.draft.of = form.shows
               /\ \A c \in saves : c.draft.of = c.target

ViewsGrow == /\ form.view <= form.opening
             /\ \A c \in saves : c.view <= form.view

SavesAreAlone ==
  Has("guarded") =>
    \A c \in saves : c.view = form.view
      => /\ Open /\ form.submitting /\ c.opening = form.opening /\ c.target = form.shows
         /\ \A d \in saves : d.view = c.view => d = c

PlainStageNothing == ~Has("photo") => uploads = {} /\ staged = {}

PageAnswers == ~api => \A c \in saves : c.answer # "none"

SavedIsPresent == \A r \in Records : saved[r] \in Present
ServerKeeps == api => SavedIsPresent

DraftIsPresent == Open => form.draft.photo \in Present
UploadsAreOfField ==
  \A u \in uploads : OfField(u) /\ Open /\ ~form.submitting /\ u.prior = form.draft.photo
CarriedIsUnanswered ==
  Open => \A s \in staged : s[1] = Mount(form) /\ s[2] \in Carried
    => \E c \in saves : /\ c.answer = "written" /\ c.view = form.view
                        /\ c.opening = form.opening /\ c.draft.photo = s[2]
PageKeeps == ~api /\ ~late => /\ SavedIsPresent /\ DraftIsPresent
                              /\ UploadsAreOfField /\ CarriedIsUnanswered

FormInv == /\ FormTypes /\ DraftsMatch /\ ViewsGrow /\ SavesAreAlone
           /\ PlainStageNothing /\ PageAnswers /\ ServerKeeps /\ PageKeeps

LEMMA Traits ==
  ASSUME dialog \in Dialogs
  PROVE  /\ Has("stays") \in BOOLEAN /\ Has("guarded") \in BOOLEAN /\ Has("photo") \in BOOLEAN
         /\ Has("photo") => Has("guarded")
<1> DEFINE Kinds == {t \in [stays : BOOLEAN, guarded : BOOLEAN, photo : BOOLEAN] : t.photo => t.guarded}
<1>0. /\ RoomFormDialog \in Kinds /\ StudentFormDialog \in Kinds /\ ActionSheet \in Kinds
      /\ AssignPieceDialog \in Kinds /\ RegisterCompensationDialog \in Kinds
  BY DEF RoomFormDialog, StudentFormDialog, ActionSheet, AssignPieceDialog, RegisterCompensationDialog
<1> HIDE DEF Kinds
<1>1. \A d \in DOMAIN Dialog : Dialog[d] \in Kinds
  BY <1>0 DEF Dialog, PieceFormDialog, InstrumentFormDialog, ClassFormDialog,
         UserFormDialog, GenerateSessionsDialog, CorrectMarkDialog, ConversationManagerDialog,
         RescheduleSessionDialog, CancelSessionDialog, TeacherFormDialog, RecordProgressDialog,
         ScheduleCompensationDialog, CompleteCompensationDialog
<1>2. dialog \in DOMAIN Dialog
  BY FormAssumption
<1> QED
  BY <1>1, <1>2 DEF Has, Kinds

LEMMA FormInvInit == FormInit => FormInv
<1> SUFFICES ASSUME FormInit PROVE FormInv
  OBVIOUS
<1> USE FormAssumption DEF FormInit
<1>0. photos \in Seq(Store)
  BY DEF Store
<1>1. FormTypes
  BY <1>0 DEF FormTypes, Forms, Drafts, NoPhoto
<1>2. ~Open
  BY DEF Open
<1>3. SavedIsPresent
  BY DEF SavedIsPresent, Present
<1> QED
  BY <1>1, <1>2, <1>3 DEF FormInv, DraftsMatch, ViewsGrow, SavesAreAlone, PlainStageNothing,
     PageAnswers, ServerKeeps, DraftIsPresent, UploadsAreOfField, CarriedIsUnanswered, PageKeeps

LEMMA OpenKeepsInv ==
  ASSUME FormInv, NEW r \in Records, OpenDialog(r)
  PROVE  FormInv'
<1> USE FormAssumption DEF FormInv, OpenDialog
<1>0. /\ ~Open /\ form' \in Forms /\ form'.shows = r /\ form'.view = form.view
      /\ form'.opening = form.opening + 1 /\ form'.draft = [of |-> r, photo |-> saved[r]]
      /\ form.view \in Nat /\ form.opening \in Nat
  BY DEF FormTypes, Forms, Drafts
<1>1. FormTypes'
  BY <1>0 DEF FormTypes
<1>2. DraftsMatch' /\ Open'
  BY <1>0 DEF DraftsMatch, Open
<1>3. ViewsGrow'
  BY <1>0 DEF ViewsGrow, Has
<1>4. \A c \in saves : Has("guarded") => c.view # form.view
  BY <1>0 DEF SavesAreAlone
<1>5. SavesAreAlone'
  BY <1>0, <1>4 DEF SavesAreAlone, Has
<1>6. PlainStageNothing' /\ PageAnswers' /\ ServerKeeps'
  BY DEF PlainStageNothing, PageAnswers, ServerKeeps, SavedIsPresent, Present, Has
<1>7. ASSUME PageKeeps, ~api, ~late PROVE PageKeeps'
  <2>1. SavedIsPresent' /\ DraftIsPresent'
    BY <1>7, <1>0 DEF PageKeeps, SavedIsPresent, DraftIsPresent, Present
  <2>2. uploads = {}
    BY <1>7, <1>0 DEF PageKeeps, UploadsAreOfField
  <2> QED
    BY <2>1, <2>2 DEF PageKeeps, UploadsAreOfField, CarriedIsUnanswered, Mount, Has
<1> QED
  BY <1>1, <1>2, <1>3, <1>5, <1>6, <1>7 DEF PageKeeps

LEMMA LeaveKeepsInv == FormInv /\ LeaveView => FormInv'
<1> SUFFICES ASSUME FormInv, LeaveView PROVE FormInv'
  OBVIOUS
<1> USE FormAssumption DEF FormInv, LeaveView
<1>0. /\ form' \in Forms /\ form'.shows = NoRecord /\ form'.view = form.opening
      /\ form'.opening = form.opening /\ form.view < form.opening
      /\ form.view \in Nat /\ form.opening \in Nat
      /\ \A c \in saves : c.view \in Nat
      /\ \A s \in staged : s[1] \in Nat
  BY DEF FormTypes, Forms, Drafts, Writes
<1>1. FormTypes' /\ ~Open'
  BY <1>0 DEF FormTypes, Open
<1>2. DraftsMatch' /\ ViewsGrow'
  BY <1>0, <1>1 DEF DraftsMatch, ViewsGrow, Has
<1>3. \A c \in saves : c.view # form'.view
  BY <1>0 DEF ViewsGrow
<1>4. SavesAreAlone'
  BY <1>3 DEF SavesAreAlone
<1>5. PlainStageNothing' /\ PageAnswers' /\ ServerKeeps'
  BY DEF PlainStageNothing, PageAnswers, ServerKeeps, SavedIsPresent, Present, Has
<1>6. ASSUME ~api, ~late, ~Uploading PROVE PageKeeps'
  <2>1. uploads = {}
    BY <1>6 DEF PageKeeps, UploadsAreOfField, Uploading
  <2> QED
    BY <2>1, <1>1, <1>6 DEF PageKeeps, UploadsAreOfField, CarriedIsUnanswered, DraftIsPresent,
       SavedIsPresent, Present
<1> QED
  BY <1>1, <1>2, <1>4, <1>5, <1>6 DEF PageKeeps

LEMMA PickKeepsInv == FormInv /\ PickPhoto => FormInv'
<1> SUFFICES ASSUME FormInv, PickPhoto PROVE FormInv'
  OBVIOUS
<1> USE DEF FormInv, PickPhoto
<1>1. FormTypes'
  BY DEF FormTypes, Forms, Drafts
<1>2. DraftsMatch' /\ ViewsGrow' /\ SavesAreAlone' /\ PageAnswers' /\ ServerKeeps'
  BY DEF DraftsMatch, ViewsGrow, SavesAreAlone, PageAnswers, ServerKeeps, SavedIsPresent, Present,
     Has, Open
<1>3. PlainStageNothing'
  BY DEF PlainStageNothing, Has
<1>4. UploadsAreOfField /\ ~api /\ ~late => UploadsAreOfField'
  BY DEF UploadsAreOfField, OfField, Open
<1>5. PageKeeps'
  BY <1>4 DEF PageKeeps, CarriedIsUnanswered, DraftIsPresent, SavedIsPresent, Present, Open,
     Mount, Has, Carried
<1> QED
  BY <1>1, <1>2, <1>3, <1>5

LEMMA UploadFailsKeepsInv ==
  ASSUME FormInv, NEW u \in uploads, UploadFails(u)
  PROVE  FormInv'
<1> USE DEF FormInv, UploadFails
<1>1. FormTypes'
  BY DEF FormTypes
<1>2. DraftsMatch' /\ ViewsGrow' /\ SavesAreAlone' /\ PageAnswers' /\ ServerKeeps'
  BY DEF DraftsMatch, ViewsGrow, SavesAreAlone, PageAnswers, ServerKeeps, SavedIsPresent, Present,
     Has, Open
<1>3. PlainStageNothing'
  BY DEF PlainStageNothing, Has
<1>5. PageKeeps'
  BY DEF PageKeeps, UploadsAreOfField, OfField, CarriedIsUnanswered, DraftIsPresent,
     SavedIsPresent, Present, Open, Mount, Has, Carried
<1> QED
  BY <1>1, <1>2, <1>3, <1>5

(* What freeing photos leaves of the store.                                *)
LEMMA FreedFacts ==
  ASSUME photos \in Seq(Store), NEW gone
  PROVE  /\ Freed(gone) \in Seq(Store) /\ Len(Freed(gone)) = Len(photos)
         /\ DOMAIN Freed(gone) = DOMAIN photos
         /\ \A p \in Present : p \notin gone \/ (api /\ p \in Carried)
              => p = NoPhoto \/ (p \in DOMAIN photos /\ Freed(gone)[p] = "stored")
<1>1. Len(photos) \in Nat /\ DOMAIN photos = 1..Len(photos) /\ \A p \in DOMAIN photos : photos[p] \in Store
  BY LenProperties
<1>2. Freed(gone) \in [1..Len(photos) -> Store]
  BY <1>1 DEF Freed, Store
<1>3. Freed(gone) \in Seq(Store)
  BY <1>1, <1>2, SeqDef
<1>4. Len(Freed(gone)) = Len(photos)
  BY <1>1, <1>2, <1>3, LenProperties
<1> QED
  BY <1>1, <1>2, <1>3, <1>4 DEF Freed, Present

(* Photos that no record carries are freed: the records keep theirs.       *)
LEMMA FreeKeepsSaved ==
  ASSUME photos \in Seq(Store), NEW gone, SavedIsPresent, saved' = saved, photos' = Freed(gone),
         api \/ \A p \in gone : p \notin Carried
  PROVE  SavedIsPresent'
<1> SUFFICES ASSUME NEW r \in Records PROVE saved[r] \in Present'
  BY DEF SavedIsPresent
<1>1. saved[r] \in Present /\ saved[r] \in Carried
  BY DEF SavedIsPresent, Carried
<1> QED
  BY <1>1, FreedFacts DEF Present

LEMMA CancelKeepsInv == FormInv /\ CancelDialog => FormInv'
<1> SUFFICES ASSUME FormInv, CancelDialog PROVE FormInv'
  OBVIOUS
<1> DEFINE gone == {s[2] : s \in {s \in staged : s[1] = Mount(form)}}
<1> USE DEF FormInv, CancelDialog
<1>0. /\ form' \in Forms /\ form'.shows = NoRecord /\ form'.view = form.view
      /\ form'.opening = form.opening /\ form'.submitting = form.submitting
      /\ photos \in Seq(Store)
  BY DEF FormTypes, Forms, Drafts
<1>1. ~Open'
  BY <1>0 DEF Open
<1>2. \/ Has("stays") /\ photos' = Freed(gone) /\ staged' \subseteq staged
      \/ photos' = photos /\ staged' = staged
  BY DEF releaseStagedPhotos, releaseStagedMedia
<1> HIDE DEF gone
<1>3. FormTypes'
  BY <1>0, <1>2, FreedFacts DEF FormTypes
<1>4. \A c \in saves : Has("guarded") => c.view # form.view
  BY DEF SavesAreAlone
<1>5. DraftsMatch' /\ ViewsGrow' /\ PlainStageNothing' /\ PageAnswers'
  BY <1>0, <1>1, <1>2 DEF DraftsMatch, ViewsGrow, PlainStageNothing, PageAnswers, Has
<1>6. SavesAreAlone'
  BY <1>0, <1>4 DEF SavesAreAlone, Has
<1>7. ServerKeeps'
  BY <1>0, <1>2, FreeKeepsSaved DEF ServerKeeps, SavedIsPresent, Present
<1>8. ASSUME ~api, ~late, ~Uploading PROVE PageKeeps'
  <2>1. uploads = {}
    BY <1>8 DEF PageKeeps, UploadsAreOfField, Uploading
  <2>2. \A p \in gone : p \notin Carried
    <3> SUFFICES ASSUME NEW s \in staged, s[1] = Mount(form), s[2] \in Carried PROVE FALSE
      BY DEF gone
    <3>1. Has("guarded")
      BY Traits DEF FormTypes, PlainStageNothing
    <3> QED
      BY <3>1, <1>4, <1>8 DEF PageKeeps, CarriedIsUnanswered
  <2>3. SavedIsPresent'
    BY <1>0, <1>2, <1>8, <2>2, FreeKeepsSaved DEF PageKeeps, SavedIsPresent, Present
  <2> QED
    BY <2>1, <2>3, <1>1, <1>8 DEF PageKeeps, UploadsAreOfField, CarriedIsUnanswered, DraftIsPresent
<1> QED
  BY <1>3, <1>5, <1>6, <1>7, <1>8 DEF PageKeeps

LEMMA RemoveKeepsInv == FormInv /\ RemovePhoto => FormInv'
<1> SUFFICES ASSUME FormInv, RemovePhoto PROVE FormInv'
  OBVIOUS
<1> DEFINE mine == <<Mount(form), form.draft.photo>>
           gone == IF mine \in staged THEN {form.draft.photo} ELSE {}
<1> USE DEF FormInv, RemovePhoto
<1>0. /\ form' \in Forms /\ form'.shows = form.shows /\ form'.view = form.view
      /\ form'.opening = form.opening /\ form'.submitting = form.submitting
      /\ form'.draft.of = form.draft.of /\ form'.draft.photo = NoPhoto
      /\ photos \in Seq(Store) /\ staged' \subseteq staged
  BY DEF FormTypes, Forms, Drafts, NoPhoto
<1>1. Open /\ Open' /\ ~form.submitting /\ ~Uploading
  BY <1>0 DEF Open
<1>2. photos' = Freed(gone)
  BY DEF releaseStagedMedia
<1>3. FormTypes'
  BY <1>0, <1>2, FreedFacts DEF FormTypes
<1>4. \A c \in saves : Has("guarded") => c.view # form.view
  BY <1>1 DEF SavesAreAlone
<1>5. DraftsMatch' /\ ViewsGrow' /\ PlainStageNothing' /\ PageAnswers'
  BY <1>0, <1>1, <1>2 DEF DraftsMatch, ViewsGrow, PlainStageNothing, PageAnswers, Has
<1>6. SavesAreAlone'
  BY <1>0, <1>4 DEF SavesAreAlone, Has
<1>7. ServerKeeps'
  BY <1>0, <1>2, FreeKeepsSaved DEF ServerKeeps
<1>8. ASSUME ~api, ~late PROVE PageKeeps'
  <2>1. uploads = {}
    BY <1>1, <1>8 DEF PageKeeps, UploadsAreOfField, Uploading
  <2>2. Has("guarded") \/ staged = {}
    BY Traits DEF FormTypes, PlainStageNothing
  <2>3. \A s \in staged : s[1] = Mount(form) => s[2] \notin Carried
    BY <1>1, <1>4, <2>2, <1>8 DEF PageKeeps, CarriedIsUnanswered
  <2>4. \A p \in gone : p \notin Carried
    BY <2>3, Zenon
  <2>5. SavedIsPresent'
    BY <1>0, <1>2, <1>8, <2>4, FreeKeepsSaved DEF PageKeeps
  <2>6. CarriedIsUnanswered'
    BY <1>0, <2>3 DEF CarriedIsUnanswered, Mount, Has, Carried
  <2> QED
    BY <2>1, <2>5, <2>6, <1>0 DEF PageKeeps, UploadsAreOfField, DraftIsPresent, Present
<1> QED
  BY <1>3, <1>5, <1>6, <1>7, <1>8 DEF PageKeeps

(* What serving a write c leaves: an answer w, and, if it was written, the *)
(* photo on its record and every carried photo where it was.               *)
LEMMA ServesFacts ==
  ASSUME FormTypes, NEW c \in Writes, NEW others, Serves(c, others)
  PROVE  \E w \in Writes :
           /\ saves' = others \cup {w} /\ w.answer \in {"written", "refused"}
           /\ w.view = c.view /\ w.opening = c.opening /\ w.target = c.target /\ w.draft = c.draft
           /\ saved' \in [Records -> Nat] /\ photos' \in Seq(Store)
           /\ w.answer = "refused" => saved' = saved /\ photos' = photos
           /\ w.answer = "written" => /\ saved' = [saved EXCEPT ![c.target] = c.draft.photo]
                                      /\ api => c.draft.photo \in Present
                                      /\ \A p \in Present : p \in Carried' => p \in Present'
<1>0. /\ c = [view |-> c.view, opening |-> c.opening, target |-> c.target, draft |-> c.draft,
              answer |-> c.answer]
      /\ c.draft.photo \in Nat /\ c.target \in Records
      /\ saved \in [Records -> Nat] /\ photos \in Seq(Store)
  BY DEF Writes, Drafts, FormTypes
<1> DEFINE w(a) == [c EXCEPT !.answer = a]
<1>1. \A a \in {"written", "refused"} :
        /\ w(a) \in Writes /\ w(a).answer = a /\ w(a).view = c.view /\ w(a).opening = c.opening
        /\ w(a).target = c.target /\ w(a).draft = c.draft
  BY DEF Writes
<1>2. CASE /\ saves' = others \cup {w("refused")}
           /\ UNCHANGED <<saved, photos>>
  BY <1>0, <1>1, <1>2
<1>3. CASE /\ saves' = others \cup {w("written")}
           /\ saved' = [saved EXCEPT ![c.target] = c.draft.photo]
           /\ api => c.draft.photo \in Present
           /\ photos' = [p \in DOMAIN photos |->
                IF p = saved[c.target] /\ p \notin {saved'[r] : r \in Records} THEN "released" ELSE photos[p]]
  <2>1. Len(photos) \in Nat /\ DOMAIN photos = 1..Len(photos) /\ \A p \in DOMAIN photos : photos[p] \in Store
    BY <1>0, LenProperties
  <2>2. photos' \in [1..Len(photos) -> Store]
    BY <2>1, <1>3 DEF Store
  <2>3. photos' \in Seq(Store) /\ DOMAIN photos' = DOMAIN photos
    BY <2>1, <2>2, SeqDef
  <2>4. \A p \in Present : p \in Carried' => p \in Present'
    BY <1>3, <2>3 DEF Present, Carried
  <2> QED
    BY <1>0, <1>1, <1>3, <2>3, <2>4
<1> QED
  BY <1>2, <1>3 DEF Serves

(* What is served keeps the photos that the records carry.                 *)
LEMMA ServeKeepsSaved ==
  ASSUME FormTypes, NEW c \in Writes, SavedIsPresent, c.draft.photo \in Present,
         saved' = [saved EXCEPT ![c.target] = c.draft.photo],
         \A p \in Present : p \in Carried' => p \in Present'
  PROVE  SavedIsPresent'
<1> SUFFICES ASSUME NEW r \in Records PROVE saved'[r] \in Present'
  BY DEF SavedIsPresent
<1>1. saved'[r] \in Carried' /\ saved'[r] \in Present
  BY DEF SavedIsPresent, Carried, FormTypes
<1> QED
  BY <1>1

LEMMA ServeKeepsInv ==
  ASSUME FormInv, NEW c \in saves, ServeSave(c)
  PROVE  FormInv'
<1> USE DEF FormInv, ServeSave
<1>0. c \in Writes /\ FormTypes
  BY DEF FormTypes
<1>1. PICK w \in Writes :
           /\ saves' = (saves \ {c}) \cup {w} /\ w.answer \in {"written", "refused"}
           /\ w.view = c.view /\ w.opening = c.opening /\ w.target = c.target /\ w.draft = c.draft
           /\ saved' \in [Records -> Nat] /\ photos' \in Seq(Store)
           /\ w.answer = "refused" => saved' = saved /\ photos' = photos
           /\ w.answer = "written" => /\ saved' = [saved EXCEPT ![c.target] = c.draft.photo]
                                      /\ api => c.draft.photo \in Present
                                      /\ \A p \in Present : p \in Carried' => p \in Present'
  BY <1>0, ServesFacts
<1>2. FormTypes'
  BY <1>0, <1>1 DEF FormTypes
<1>3. DraftsMatch' /\ ViewsGrow'
  BY <1>1 DEF DraftsMatch, ViewsGrow, Open, Has
<1>4. SavesAreAlone'
  BY <1>1 DEF SavesAreAlone, Open, Has
<1>5. PlainStageNothing' /\ PageAnswers'
  BY <1>1 DEF PlainStageNothing, PageAnswers, Has
<1>6. ServerKeeps'
  <2>1. CASE w.answer = "refused"
    BY <2>1, <1>1 DEF ServerKeeps, SavedIsPresent, Present
  <2>2. CASE w.answer = "written"
    BY <2>2, <1>0, <1>1, ServeKeepsSaved DEF ServerKeeps
  <2> QED
    BY <1>1, <2>1, <2>2
<1>7. PageKeeps'
  BY <1>0 DEF PageKeeps, PageAnswers
<1> QED
  BY <1>2, <1>3, <1>4, <1>5, <1>6, <1>7

LEMMA SubmitKeepsInv == FormInv /\ SubmitForm => FormInv'
<1> SUFFICES ASSUME FormInv, SubmitForm PROVE FormInv'
  OBVIOUS
<1> USE DEF FormInv, SubmitForm
<1>0. /\ form' \in Forms /\ form'.shows = form.shows /\ form'.view = form.view
      /\ form'.opening = form.opening /\ form'.submitting = TRUE /\ form'.draft = form.draft
      /\ form.shows \in Records /\ form.shows # NoRecord /\ form.view \in Nat
  BY DEF FormTypes, Forms, Open
<1>1. /\ SaveOfDraft \in Writes /\ SaveOfDraft.view = form.view /\ SaveOfDraft.opening = form.opening
      /\ SaveOfDraft.target = form.shows /\ SaveOfDraft.draft = form.draft /\ FormTypes
  BY <1>0 DEF SaveOfDraft, Writes, FormTypes, Forms
<1>2. Open /\ Open' /\ ~form.submitting
  BY <1>0 DEF Open
<1> HIDE DEF SaveOfDraft
<1>3. PICK w \in Writes :
        /\ saves' = saves \cup {w} /\ saved' \in [Records -> Nat] /\ photos' \in Seq(Store)
        /\ w.view = form.view /\ w.opening = form.opening /\ w.target = form.shows /\ w.draft = form.draft
        /\ api \/ w.answer = "refused" => saved' = saved /\ photos' = photos
        /\ ~api => w.answer \in {"written", "refused"}
        /\ ~api /\ w.answer = "written" =>
             /\ saved' = [saved EXCEPT ![w.target] = w.draft.photo]
             /\ \A p \in Present : p \in Carried' => p \in Present'
  <2>1. CASE api
    BY <1>1, <2>1 DEF FormTypes
  <2>2. CASE ~api
    BY <1>1, <2>2, ServesFacts
  <2> QED
    BY <2>1, <2>2
<1>4. FormTypes'
  BY <1>0, <1>1, <1>3 DEF FormTypes
<1>5. DraftsMatch' /\ ViewsGrow'
  BY <1>0, <1>2, <1>3 DEF DraftsMatch, ViewsGrow, Has
<1>6. \A c \in saves : Has("guarded") => c.view # form.view
  BY <1>2 DEF SavesAreAlone
<1>7. SavesAreAlone'
  BY <1>0, <1>2, <1>3, <1>6 DEF SavesAreAlone, Has
<1>8. PlainStageNothing' /\ PageAnswers'
  BY <1>3 DEF PlainStageNothing, PageAnswers, Has
<1>9. ServerKeeps'
  BY <1>3 DEF ServerKeeps, SavedIsPresent, Present
<1>10. ASSUME ~api, ~late, ~Uploading PROVE PageKeeps'
  <2>1. uploads = {}
    BY <1>2, <1>10 DEF PageKeeps, UploadsAreOfField, Uploading
  <2>2. Has("guarded") \/ staged = {}
    BY Traits DEF FormTypes, PlainStageNothing
  <2>3. \A s \in staged : s[1] = Mount(form) => s[2] \notin Carried
    BY <1>2, <1>6, <2>2, <1>10 DEF PageKeeps, CarriedIsUnanswered
  <2>4. SavedIsPresent /\ form.draft.photo \in Present
    BY <1>2, <1>10 DEF PageKeeps, DraftIsPresent
  <2>5. CASE w.answer = "refused"
    <3>1. SavedIsPresent' /\ DraftIsPresent'
      BY <1>0, <1>3, <2>4, <2>5 DEF SavedIsPresent, DraftIsPresent, Present
    <3>2. CarriedIsUnanswered'
      BY <1>0, <1>3, <2>3, <2>5 DEF CarriedIsUnanswered, Mount, Has, Carried
    <3> QED
      BY <2>1, <3>1, <3>2 DEF PageKeeps, UploadsAreOfField
  <2>6. CASE w.answer = "written"
    <3>1. SavedIsPresent'
      BY <1>1, <1>3, <1>10, <2>4, <2>6, ServeKeepsSaved
    <3>2. DraftIsPresent'
      BY <1>0, <1>3, <1>1, <3>1, <1>10, <2>6 DEF SavedIsPresent, DraftIsPresent, FormTypes
    <3>3. \A p \in Carried' : p \in Carried \/ p = form.draft.photo
      BY <1>0, <1>1, <1>3, <1>10, <2>6 DEF Carried, FormTypes
    <3>4. CarriedIsUnanswered'
      BY <1>0, <1>3, <2>3, <2>6, <3>3 DEF CarriedIsUnanswered, Mount, Has
    <3> QED
      BY <2>1, <3>1, <3>2, <3>4 DEF PageKeeps, UploadsAreOfField
  <2> QED
    BY <1>3, <1>10, <2>5, <2>6
<1> QED
  BY <1>4, <1>5, <1>7, <1>8, <1>9, <1>10 DEF PageKeeps

LEMMA AnsweredFacts ==
  ASSUME form \in Forms, NEW c
  PROVE  /\ Answered(c) \in Forms /\ Answered(c).shows = form.shows /\ Answered(c).view = form.view
         /\ Answered(c).opening = form.opening /\ Answered(c).draft = form.draft
         /\ Answered(c).submitting => form.submitting
         /\ Answered(c).submitting = form.submitting \/ c.view = form.view
<1>1. Mounted(c) => c.view = form.view
  BY DEF Mounted
<1>2. (form.submitting /\ ~Mounted(c)) \in BOOLEAN
  OBVIOUS
<1> HIDE DEF Mounted
<1> QED
  BY <1>1, <1>2 DEF Answered, Forms

LEMMA SaveFailsKeepsInv ==
  ASSUME FormInv, NEW c \in saves, SaveFails(c)
  PROVE  FormInv'
<1> USE DEF FormInv, SaveFails
<1>0. /\ form' \in Forms /\ form'.shows = form.shows /\ form'.view = form.view
      /\ form'.opening = form.opening /\ form'.draft = form.draft
      /\ form'.submitting => form.submitting
      /\ form'.submitting = form.submitting \/ c.view = form.view
      /\ saves' \subseteq saves
  BY AnsweredFacts DEF FormTypes
<1>1. FormTypes'
  BY <1>0 DEF FormTypes
<1>2. DraftsMatch' /\ ViewsGrow' /\ PageAnswers' /\ PlainStageNothing'
  BY <1>0 DEF DraftsMatch, ViewsGrow, Open, Has, PageAnswers, PlainStageNothing
<1>3. SavesAreAlone'
  BY <1>0 DEF SavesAreAlone, Open, Has
<1>4. ServerKeeps'
  BY DEF ServerKeeps, SavedIsPresent, Present
<1>5. ASSUME ~api, ~late PROVE PageKeeps'
  <2>1. SavedIsPresent' /\ DraftIsPresent' /\ UploadsAreOfField'
    BY <1>0, <1>5 DEF PageKeeps, SavedIsPresent, DraftIsPresent, UploadsAreOfField, Present, Open, OfField
  <2>2. c.answer = "refused"
    BY <1>5
  <2>3. CarriedIsUnanswered'
    BY <1>0, <1>5, <2>2 DEF PageKeeps, CarriedIsUnanswered, Open, Mount, Has, Carried
  <2> QED
    BY <2>1, <2>3 DEF PageKeeps
<1> QED
  BY <1>1, <1>2, <1>3, <1>4, <1>5 DEF PageKeeps

LEMMA SaveSucceedsKeepsInv ==
  ASSUME FormInv, NEW c \in saves, SaveSucceeds(c)
  PROVE  FormInv'
<1> DEFINE left == staged \ {<<Mount(c), c.draft.photo>>}
           gone == {s[2] : s \in {s \in left : s[1] = Mount(form)}}
<1> USE DEF FormInv, SaveSucceeds
<1>0. saves' = saves \ {c} /\ form \in Forms /\ photos \in Seq(Store) /\ c.answer = "written"
  BY DEF FormTypes
<1>1. CASE c.view # form.view
  <2>1. form' = form /\ staged' \subseteq staged /\ photos' = photos /\ late' = late
    BY <1>1 DEF Closes
  <2>2. FormTypes'
    BY <1>0, <2>1 DEF FormTypes
  <2>3. DraftsMatch' /\ ViewsGrow' /\ PageAnswers' /\ PlainStageNothing' /\ SavesAreAlone'
    BY <1>0, <2>1 DEF DraftsMatch, ViewsGrow, Open, Has, PageAnswers, PlainStageNothing, SavesAreAlone
  <2>4. ServerKeeps'
    BY <2>1 DEF ServerKeeps, SavedIsPresent, Present
  <2>5. ASSUME ~api, ~late PROVE PageKeeps'
    <3>1. SavedIsPresent' /\ DraftIsPresent' /\ UploadsAreOfField'
      BY <2>1, <2>5 DEF PageKeeps, SavedIsPresent, DraftIsPresent, UploadsAreOfField, Present, Open, OfField
    <3>2. CarriedIsUnanswered'
      BY <1>0, <1>1, <2>1, <2>5 DEF PageKeeps, CarriedIsUnanswered, Open, Mount, Has, Carried
    <3> QED
      BY <3>1, <3>2 DEF PageKeeps
  <2> QED
    BY <2>1, <2>2, <2>3, <2>4, <2>5 DEF PageKeeps
<1>2. CASE c.view = form.view
  <2>1. /\ form' = [Answered(c) EXCEPT !.shows = NoRecord] /\ late' = (late \/ Uploading)
        /\ \/ Has("stays") /\ photos' = Freed(gone) /\ staged' \subseteq staged
           \/ photos' = photos /\ staged' \subseteq staged
    BY <1>2 DEF Closes, releaseStagedPhotos, releaseStagedMedia
  <2> HIDE DEF gone, left
  <2>2. /\ form' \in Forms /\ form'.shows = NoRecord /\ form'.view = form.view
        /\ form'.opening = form.opening
    BY <1>0, <2>1, AnsweredFacts DEF Forms
  <2>3. ~Open'
    BY <2>2 DEF Open
  <2>4. FormTypes'
    BY <1>0, <2>1, <2>2, FreedFacts DEF FormTypes
  <2>5. DraftsMatch' /\ ViewsGrow' /\ PageAnswers' /\ PlainStageNothing'
    BY <1>0, <2>1, <2>2, <2>3 DEF DraftsMatch, ViewsGrow, Has, PageAnswers, PlainStageNothing
  <2>6. SavesAreAlone'
    BY <1>0, <1>2, <2>2 DEF SavesAreAlone, Has
  <2>7. ServerKeeps'
    BY <1>0, <2>1, FreeKeepsSaved DEF ServerKeeps, SavedIsPresent, Present
  <2>8. ASSUME ~api, ~late, ~Uploading PROVE PageKeeps'
    <3>1. uploads = {}
      BY <2>8 DEF PageKeeps, UploadsAreOfField, Uploading
    <3>2. \A p \in gone : p \notin Carried
      <4> SUFFICES ASSUME NEW s \in left, s[1] = Mount(form), s[2] \in Carried PROVE FALSE
        BY DEF gone
      <4>1. s \in staged /\ s # <<Mount(c), c.draft.photo>> /\ s = <<s[1], s[2]>>
        BY DEF left, FormTypes
      <4>2. Has("guarded")
        BY <4>1, Traits DEF FormTypes, PlainStageNothing
      <4>3. Open /\ c.opening = form.opening /\ \A d \in saves : d.view = c.view => d = c
        BY <1>2, <4>2 DEF SavesAreAlone
      <4>4. s[2] = c.draft.photo
        BY <1>2, <4>1, <4>3, <2>8 DEF PageKeeps, CarriedIsUnanswered
      <4>5. Mount(c) = Mount(form)
        BY <1>2, <4>3 DEF Mount
      <4> QED
        BY <4>1, <4>4, <4>5
    <3>3. SavedIsPresent'
      BY <1>0, <2>1, <2>8, <3>2, FreeKeepsSaved DEF PageKeeps, SavedIsPresent, Present
    <3> QED
      BY <2>3, <2>8, <3>1, <3>3 DEF PageKeeps, UploadsAreOfField, CarriedIsUnanswered, DraftIsPresent
  <2> QED
    BY <2>1, <2>4, <2>5, <2>6, <2>7, <2>8 DEF PageKeeps
<1> QED
  BY <1>1, <1>2

LEMMA UploadDoneKeepsInv ==
  ASSUME FormInv, NEW u \in uploads, UploadDone(u)
  PROVE  FormInv'
<1> DEFINE p == Len(photos) + 1
           replaced == <<Mount(u), u.prior>>
           gone == IF replaced \in staged THEN {u.prior} ELSE {}
<1> USE DEF FormInv
<1>0. /\ photos \in Seq(Store) /\ Len(photos) \in Nat /\ form \in Forms /\ DOMAIN photos = 1..Len(photos)
      /\ u \in [view : Nat, opening : Nat, prior : Nat] /\ Mount(u) \in Nat
  BY LenProperties DEF FormTypes, Mount
<1>1. /\ photos' = Append(Freed(gone), "stored")
      /\ staged' = (staged \ {replaced}) \cup {<<Mount(u), p>>}
      /\ form' = IF Mounted(u) THEN [form EXCEPT !.draft.photo = p] ELSE form
      /\ uploads' = uploads \ {u} /\ UNCHANGED <<api, dialog, saves, saved, late>>
      /\ p = Len(photos) + 1 /\ replaced = <<Mount(u), u.prior>>
  BY DEF UploadDone
<1> HIDE DEF gone, p, replaced
<1>2. /\ Freed(gone) \in Seq(Store) /\ Len(Freed(gone)) = Len(photos) /\ DOMAIN Freed(gone) = DOMAIN photos
      /\ \A q \in Present : q \notin gone \/ (api /\ q \in Carried)
           => q = NoPhoto \/ (q \in DOMAIN photos /\ Freed(gone)[q] = "stored")
  BY <1>0, FreedFacts
<1>3. /\ photos' \in Seq(Store) /\ DOMAIN photos' = DOMAIN photos \cup {p} /\ p \notin DOMAIN photos
      /\ photos'[p] = "stored" /\ \A q \in DOMAIN photos : photos'[q] = Freed(gone)[q]
  BY <1>0, <1>1, <1>2, AppendFacts DEF Store
<1>4. \A q \in Present : q \notin gone \/ (api /\ q \in Carried) => q \in Present'
  BY <1>2, <1>3 DEF Present
<1>5. p \in Present' /\ p \notin Present /\ p \in Nat
  BY <1>0, <1>1, <1>3 DEF Present, NoPhoto
<1>6. /\ form' \in Forms /\ form'.shows = form.shows /\ form'.view = form.view
      /\ form'.opening = form.opening /\ form'.submitting = form.submitting
      /\ form'.draft.of = form.draft.of
      /\ form'.draft.photo = IF Mounted(u) THEN p ELSE form.draft.photo
  BY <1>0, <1>1, <1>5 DEF Forms, Drafts
<1>7. FormTypes'
  BY <1>0, <1>1, <1>3, <1>5, <1>6 DEF FormTypes
<1>8. DraftsMatch' /\ PageAnswers' /\ SavesAreAlone'
  BY <1>1, <1>6 DEF DraftsMatch, Open, Has, PageAnswers, SavesAreAlone
<1>9. ViewsGrow' /\ PlainStageNothing'
  BY <1>1, <1>6 DEF ViewsGrow, PlainStageNothing, Has
<1>10. ServerKeeps'
  BY <1>1, <1>4 DEF ServerKeeps, SavedIsPresent, Carried
<1>11. ASSUME ~api, ~late PROVE PageKeeps'
  <2>1. /\ OfField(u) /\ Open /\ ~form.submitting /\ u.prior = form.draft.photo
        /\ \A v \in uploads : v = u
    BY <1>11 DEF PageKeeps, UploadsAreOfField, OfField, FormTypes
  <2>2. Mount(u) = Mount(form) /\ Mounted(u)
    BY <2>1 DEF Mount, Mounted, OfField
  <2>3. \A s \in staged : s[1] = Mount(form) => s[2] \notin Carried
    <3>1. Has("guarded")
      BY Traits DEF FormTypes, PlainStageNothing
    <3> QED
      BY <2>1, <3>1, <1>11 DEF PageKeeps, CarriedIsUnanswered, SavesAreAlone
  <2>4. \A q \in gone : q \notin Carried
    BY <1>1, <2>2, <2>3 DEF gone
  <2>5. SavedIsPresent /\ SavedIsPresent'
    BY <1>1, <1>4, <1>11, <2>4 DEF PageKeeps, SavedIsPresent, Carried
  <2>6. DraftIsPresent'
    BY <1>5, <1>6, <2>2 DEF DraftIsPresent
  <2>7. UploadsAreOfField'
    BY <1>1, <2>1 DEF UploadsAreOfField
  <2>8. p \notin Carried
    BY <1>5, <2>5 DEF SavedIsPresent, Carried
  <2>9. CarriedIsUnanswered'
    <3>1. \A s \in staged' : s \in staged \/ s = <<Mount(u), p>>
      BY <1>1
    <3>2. Carried' = Carried /\ Mount(form)' = Mount(form)
      BY <1>1, <1>6 DEF Carried, Mount, Has
    <3>3. \A s \in staged' : s[1] = Mount(form) => s[2] \notin Carried
      BY <2>3, <2>8, <3>1
    <3> QED
      BY <3>2, <3>3 DEF CarriedIsUnanswered
  <2> QED
    BY <2>5, <2>6, <2>7, <2>9 DEF PageKeeps
<1> QED
  BY <1>1, <1>7, <1>8, <1>9, <1>10, <1>11 DEF PageKeeps

LEMMA FormInvStep == FormInv /\ [FormNext]_formVars => FormInv'
<1> SUFFICES ASSUME FormInv, [FormNext]_formVars PROVE FormInv'
  OBVIOUS
<1>1. ASSUME NEW r \in Records, OpenDialog(r) PROVE FormInv'
  BY <1>1, OpenKeepsInv
<1>2. CASE CancelDialog
  BY <1>2, CancelKeepsInv
<1>3. CASE LeaveView
  BY <1>3, LeaveKeepsInv
<1>4. CASE SubmitForm
  BY <1>4, SubmitKeepsInv
<1>5. CASE PickPhoto
  BY <1>5, PickKeepsInv
<1>6. CASE RemovePhoto
  BY <1>6, RemoveKeepsInv
<1>7. ASSUME NEW c \in saves, ServeSave(c) PROVE FormInv'
  BY <1>7, ServeKeepsInv
<1>8. ASSUME NEW c \in saves, SaveSucceeds(c) PROVE FormInv'
  BY <1>8, SaveSucceedsKeepsInv
<1>9. ASSUME NEW c \in saves, SaveFails(c) PROVE FormInv'
  BY <1>9, SaveFailsKeepsInv
<1>10. ASSUME NEW u \in uploads, UploadDone(u) PROVE FormInv'
  BY <1>10, UploadDoneKeepsInv
<1>11. ASSUME NEW u \in uploads, UploadFails(u) PROVE FormInv'
  BY <1>11, UploadFailsKeepsInv
<1>12. CASE UNCHANGED formVars
  BY <1>12 DEF formVars, FormInv, FormTypes, DraftsMatch, ViewsGrow, SavesAreAlone, PlainStageNothing,
     PageAnswers, ServerKeeps, PageKeeps, SavedIsPresent, DraftIsPresent, UploadsAreOfField,
     CarriedIsUnanswered, Present, Carried, Open, OfField, Mount, Has
<1> QED
  BY <1>1, <1>2, <1>3, <1>4, <1>5, <1>6, <1>7, <1>8, <1>9, <1>10, <1>11, <1>12 DEF FormNext

(* A dialog writes to a record only what was drafted for it, a guarded one *)
(* awaits a single write of the opening on the screen, and no dialog frees *)
(* the photo a record was saved with, unless a save or a closing met an    *)
(* unfinished upload; whatever the dialog, the build and the number of     *)
(* openings and uploads (useEntityForm.ts, StudentFormDialog.tsx).         *)
THEOREM FormsWriteAndKeepPhotos == FormSpec => []FormsKeepTheirWord
<1>1. FormInv => FormsKeepTheirWord
  BY DEF FormInv, FormsKeepTheirWord, FormsWriteWhatTheyShow, SavedPhotosSurvive, FormTypes,
     DraftsMatch, SavesAreAlone, ServerKeeps, PageKeeps, SavedIsPresent
<1> QED
  BY <1>1, FormInvInit, FormInvStep, PTL DEF FormSpec

-----------------------------------------------------------------------------
(***************************************************************************)
(* The demonstration's timetable.  A row that the generator wrote and      *)
(* nobody edited belongs to the class its id is drawn from: what a         *)
(* generation moves is therefore of the class it was checked for.  What a  *)
(* method remembers over its await is a slot that was asked for and a      *)
(* session or an obligation.                                               *)
(***************************************************************************)
Debts == [status : {"none"}, class : {NoLesson}, attempts : Seq(Lessons)]
         \cup [status : {"open", "completed"}, class : Courses, attempts : Seq(Lessons)]
Curricula == [status : {"active", "archived"}, plan : Plans]
RowStates == Row \cup {Unborn, Removed}

RowsAreTyped ==
  /\ lessons \in [Lessons -> RowStates] /\ course \in [Courses -> Curricula] /\ marked \subseteq Lessons
DebtsAreTyped == debts \in [Owed -> Debts]

Sound(m) ==
  /\ m.op = "move" => m.id \in Lessons /\ m.at \in Asked
  /\ m.op \in {"move", "register"} => m.seen \in Courses
  /\ m.op \in {"register", "schedule", "append", "complete"} => m.id \in Owed
  /\ m.op = "schedule" => m.at \in Asked
  /\ m.op = "append" => m.at \in Lessons /\ m.seen \in Seq(Lessons)
TasksRecall == DOMAIN task = Tasks /\ \A t \in Tasks : Sound(task[t])

GeneratedForItsClass ==
  \A i \in Lessons : Stored(i) /\ lessons[i].origin = "generated" => i[1] = lessons[i].class

RowsHold == RowsAreTyped /\ GeneratedForItsClass /\ SlotsAreKept
DebtsHold == DebtsAreTyped /\ CapIsKept
TimetableInv == RowsHold /\ TasksRecall /\ DebtsHold

-----------------------------------------------------------------------------
LEMMA CollideIsMutual == \A a, b : Collide(a, b) <=> Collide(b, a)
  BY DEF Collide, overlaps

LEMMA StoredIsRow ==
  ASSUME RowsAreTyped, NEW i \in Lessons, Stored(i)
  PROVE  lessons[i] \in Row
  BY DEF RowsAreTyped, RowStates, Stored, Unborn, Removed

LEMMA ManualIsRow ==
  ASSUME NEW c \in Courses, NEW s \in Times, NEW status \in {"scheduled", "cancelled"},
         NEW from \in Lessons \cup {NoLesson}
  PROVE  /\ Manual(c, s, status, from) \in Row
         /\ Manual(c, s, status, from).class = c /\ Manual(c, s, status, from).at = s
         /\ Manual(c, s, status, from).status = status
         /\ Manual(c, s, status, from).origin = "manual"
  BY DEF Manual, Row

LEMMA FreshIsDrawn ==
  ASSUME CanDraw
  PROVE  Fresh \in Lessons /\ lessons[Fresh] = Unborn /\ ~Stored(Fresh)
  BY DEF CanDraw, Fresh, Lessons, Stored, Unborn

\* A row that takes place is where it was, or collides with no other class.
LEMMA SlotsStayApart ==
  ASSUME SlotsAreKept,
         \A i \in Lessons : Takes(i)' =>
            \/ Takes(i) /\ lessons'[i].at = lessons[i].at /\ lessons'[i].class = lessons[i].class
            \/ \A j \in Lessons \ {i} :
                 Takes(j)' /\ lessons'[j].class # lessons'[i].class => ~Collide(lessons'[j].at, lessons'[i].at),
         \A i \in marked' : Stored(i)'
  PROVE  SlotsAreKept'
<1> SUFFICES ASSUME NEW i \in Lessons, NEW j \in Lessons, i # j, Takes(i)', Takes(j)',
                    lessons'[i].class # lessons'[j].class
             PROVE  ~Collide(lessons'[i].at, lessons'[j].at)
  BY DEF SlotsAreKept
<1>1. CASE Takes(i) /\ lessons'[i].at = lessons[i].at /\ lessons'[i].class = lessons[i].class
  <2>1. CASE Takes(j) /\ lessons'[j].at = lessons[j].at /\ lessons'[j].class = lessons[j].class
    BY <1>1, <2>1 DEF SlotsAreKept
  <2>2. CASE \A k \in Lessons \ {j} :
               Takes(k)' /\ lessons'[k].class # lessons'[j].class => ~Collide(lessons'[k].at, lessons'[j].at)
    BY <2>2
  <2> QED
    BY <2>1, <2>2
<1>2. CASE \A k \in Lessons \ {i} :
             Takes(k)' /\ lessons'[k].class # lessons'[i].class => ~Collide(lessons'[k].at, lessons'[i].at)
  <2>1. ~Collide(lessons'[j].at, lessons'[i].at)
    BY <1>2
  <2> QED
    BY <2>1, CollideIsMutual
<1> QED
  BY <1>1, <1>2

\* One row is written: free of conflicts if it takes place.
LEMMA RowIsPlaced ==
  ASSUME RowsHold, NEW i \in Lessons, NEW r \in RowStates,
         lessons' = [lessons EXCEPT ![i] = r], course' = course, marked' = marked,
         r \in Row \/ i \notin marked,
         r \in Row => \/ r.origin = "manual"
                      \/ Stored(i) /\ r.origin = lessons[i].origin /\ r.class = lessons[i].class,
         r.status = "scheduled" =>
            \A j \in Lessons \ {i} : Takes(j) => ~Collide(lessons[j].at, r.at)
  PROVE  RowsHold'
<1>1. /\ lessons' \in [Lessons -> RowStates] /\ lessons'[i] = r
      /\ \A j \in Lessons \ {i} : lessons'[j] = lessons[j]
  BY DEF RowsHold, RowsAreTyped
<1>2. RowsAreTyped'
  BY <1>1 DEF RowsHold, RowsAreTyped
<1>3. GeneratedForItsClass'
  <2> SUFFICES ASSUME NEW j \in Lessons, Stored(j)', lessons'[j].origin = "generated"
               PROVE  j[1] = lessons'[j].class
    BY DEF GeneratedForItsClass
  <2>1. CASE j = i
    <3>1. r \in Row
      BY <1>1, <2>1 DEF Stored, RowStates, Unborn, Removed
    <3> QED
      BY <1>1, <2>1, <3>1 DEF RowsHold, GeneratedForItsClass
  <2>2. CASE j # i
    BY <1>1, <2>2 DEF RowsHold, GeneratedForItsClass, Stored
  <2> QED
    BY <2>1, <2>2
<1>4. \A j \in marked' : Stored(j)'
  <2>1. r \in Row => r.status \in {"scheduled", "cancelled"}
    BY DEF Row
  <2> QED
    BY <1>1, <2>1 DEF RowsHold, RowsAreTyped, SlotsAreKept, Stored
<1>5. \A k \in Lessons : Takes(k)' =>
         \/ Takes(k) /\ lessons'[k].at = lessons[k].at /\ lessons'[k].class = lessons[k].class
         \/ \A j \in Lessons \ {k} :
              Takes(j)' /\ lessons'[j].class # lessons'[k].class => ~Collide(lessons'[j].at, lessons'[k].at)
  BY <1>1 DEF Takes
<1>6. SlotsAreKept
  BY DEF RowsHold
<1>7. SlotsAreKept'
  BY <1>4, <1>5, <1>6, SlotsStayApart
<1> QED
  BY <1>2, <1>3, <1>7 DEF RowsHold

\* No session but itself stands in the way of a slot that has no conflict.
LEMMA NoConflictIsFree ==
  ASSUME NEW self, NEW c, NEW s, ~detectConflicts(self, c, s)
  PROVE  \A j \in Lessons \ {self} : Takes(j) => ~Collide(lessons[j].at, s)
  BY DEF detectConflicts

LEMMA NothingIsNoLesson == TimetableAssumption => NoLesson \notin Lessons
  BY DEF TimetableAssumption

-----------------------------------------------------------------------------
LEMMA TimetableStarts ==
  ASSUME TimetableInit
  PROVE  TimetableInv
<1>1. RowsAreTyped
  <2>1. course \in [Courses -> Curricula]
    <3>1. PICK plan \in [Courses -> Plans] :
             course = [c \in Courses |-> [status |-> "active", plan |-> plan[c]]]
      BY DEF TimetableInit
    <3>2. \A c \in Courses : [status |-> "active", plan |-> plan[c]] \in Curricula
      BY DEF Curricula
    <3> QED
      BY <3>1, <3>2
  <2>2. lessons \in [Lessons -> RowStates]
    <3>1. PICK c \in Courses, s \in Asked :
             lessons = [i \in Lessons |-> IF i \in Owed THEN Manual(c, s, "cancelled", NoLesson) ELSE Unborn]
      BY DEF TimetableInit
    <3>2. Manual(c, s, "cancelled", NoLesson) \in Row
      BY ManualIsRow DEF Times
    <3> QED
      BY <3>1, <3>2 DEF RowStates
  <2> QED
    BY <2>1, <2>2 DEF RowsAreTyped, TimetableInit
<1>2. PICK c \in Courses, s \in Asked :
         lessons = [i \in Lessons |-> IF i \in Owed THEN Manual(c, s, "cancelled", NoLesson) ELSE Unborn]
  BY DEF TimetableInit
<1>3. \A i \in Lessons : ~Takes(i) /\ (Stored(i) => lessons[i].origin = "manual")
  BY <1>2 DEF Takes, Stored, Manual, Unborn
<1>4. RowsHold
  BY <1>1, <1>3 DEF RowsHold, GeneratedForItsClass, SlotsAreKept, TimetableInit
<1>5. TasksRecall
  BY DEF TimetableInit, TasksRecall, Sound, Rest
<1>6. DebtsAreTyped
  <2>1. [status |-> "none", class |-> NoLesson, attempts |-> <<>>] \in Debts
    BY DEF Debts
  <2> QED
    BY <2>1 DEF TimetableInit, DebtsAreTyped
<1>7. CapIsKept
  <2>1. {o \in Owed : debts[o].status # "none"} = {}
    BY DEF TimetableInit
  <2>2. Cardinality({}) = 0 /\ 0 <= MakeupCap
    BY FS_EmptySet, TimetableAssumption DEF TimetableAssumption
  <2> QED
    BY <2>1, <2>2 DEF CapIsKept
<1> QED
  BY <1>4, <1>5, <1>6, <1>7 DEF TimetableInv, DebtsHold

-----------------------------------------------------------------------------
(* What a step does to the rows.                                           *)

LEMMA RowsStay ==
  ASSUME RowsHold, UNCHANGED <<lessons, course, marked>>
  PROVE  RowsHold'
<1>1. \A i \in Lessons : (Stored(i)' <=> Stored(i)) /\ (Takes(i)' <=> Takes(i))
  BY DEF Stored, Takes
<1>2. SlotsAreKept'
  BY DEF RowsHold, SlotsAreKept, Takes, Stored
<1>3. RowsAreTyped' /\ GeneratedForItsClass'
  BY <1>1 DEF RowsHold, RowsAreTyped, GeneratedForItsClass
<1> QED
  BY <1>2, <1>3 DEF RowsHold

LEMMA BookingHolds ==
  ASSUME RowsHold, CanDraw, NEW c \in Courses, NEW s \in Times,
         NEW status \in {"scheduled", "cancelled"}, Books(Fresh, c, s, status),
         course' = course, marked' = marked
  PROVE  RowsHold'
<1> DEFINE r == Manual(c, s, status, NoLesson)
<1>1. Fresh \in Lessons /\ ~Stored(Fresh)
  BY FreshIsDrawn
<1>2. r \in Row /\ r.origin = "manual" /\ r.at = s
  BY ManualIsRow
<1>3. lessons' = [lessons EXCEPT ![Fresh] = r]
  BY DEF Books
<1>4. \A j \in Lessons \ {NoLesson} : Takes(j) => ~Collide(lessons[j].at, s)
  BY NoConflictIsFree DEF Books
<1>5. \A j \in Lessons : Takes(j) => ~Collide(lessons[j].at, r.at)
  BY <1>2, <1>4, NothingIsNoLesson, TimetableAssumption
<1> HIDE DEF r
<1> QED
  BY <1>1, <1>2, <1>3, <1>5, RowIsPlaced DEF RowStates

LEMMA CreateKeepsRows ==
  ASSUME RowsHold, CreateSession
  PROVE  RowsHold'
<1>1. PICK c \in Courses, s \in Asked, status \in {"scheduled", "cancelled"} : Books(Fresh, c, s, status)
  BY DEF CreateSession
<1>2. s \in Times /\ CanDraw /\ course' = course /\ marked' = marked
  BY DEF CreateSession, Times
<1> QED
  BY <1>1, <1>2, BookingHolds

LEMMA UpdateKeepsRows ==
  ASSUME RowsHold, NEW i \in Lessons, UpdateSession(i)
  PROVE  RowsHold'
<1>1. PICK s \in Asked : /\ ~detectConflicts(i, lessons[i].class, s)
                         /\ lessons' = [lessons EXCEPT ![i].at = s, ![i].origin = "manual"]
  BY DEF UpdateSession
<1>2. lessons[i] \in Row
  BY StoredIsRow DEF UpdateSession, RowsHold
<1> DEFINE r == [lessons[i] EXCEPT !.at = s, !.origin = "manual"]
<1>3. r \in Row /\ r.at = s /\ r.origin = "manual"
  <2>1. s \in Times
    BY DEF Times
  <2> QED
    BY <1>2, <2>1 DEF Row
<1>4. lessons \in [Lessons -> RowStates]
  BY DEF RowsHold, RowsAreTyped
<1>5. lessons' = [lessons EXCEPT ![i] = r]
  BY <1>1, <1>2, <1>4
<1>6. \A j \in Lessons \ {i} : Takes(j) => ~Collide(lessons[j].at, r.at)
  BY <1>1, <1>3, NoConflictIsFree
<1>7. course' = course /\ marked' = marked
  BY DEF UpdateSession
<1> HIDE DEF r
<1> QED
  BY <1>3, <1>5, <1>6, <1>7, RowIsPlaced DEF RowStates

LEMMA CancelKeepsRows ==
  ASSUME RowsHold, NEW i \in Lessons, CancelSession(i)
  PROVE  RowsHold'
<1> DEFINE r == [lessons[i] EXCEPT !.status = "cancelled"]
<1>1. Stored(i) /\ lessons' = [lessons EXCEPT ![i] = r] /\ course' = course /\ marked' = marked
  BY DEF CancelSession, Takes, Stored
<1>2. lessons[i] \in Row
  BY <1>1, StoredIsRow DEF RowsHold
<1>3. r \in Row /\ r.status = "cancelled" /\ r.origin = lessons[i].origin /\ r.class = lessons[i].class
  BY <1>2 DEF Row
<1> HIDE DEF r
<1> QED
  BY <1>1, <1>3, RowIsPlaced DEF RowStates

LEMMA DeleteKeepsRows ==
  ASSUME RowsHold, NEW i \in Lessons, DeleteSession(i)
  PROVE  RowsHold'
<1>1. /\ lessons' = [lessons EXCEPT ![i] = Removed] /\ i \notin marked
      /\ course' = course /\ marked' = marked
  BY DEF DeleteSession, hasAttendance
<1>2. Removed \in RowStates /\ Removed \notin Row /\ Removed.status # "scheduled"
  BY DEF RowStates, Removed, Row
<1> QED
  BY <1>1, <1>2, RowIsPlaced

LEMMA RecordKeepsRows ==
  ASSUME RowsHold, RecordAttendance
  PROVE  RowsHold'
<1>1. PICK i \in Lessons : Takes(i) /\ marked' = marked \cup {i}
  BY DEF RecordAttendance
<1>2. lessons' = lessons /\ course' = course
  BY DEF RecordAttendance
<1>3. \A j \in Lessons : Stored(j)' = Stored(j) /\ Takes(j)' = Takes(j)
  BY <1>2 DEF Stored, Takes
<1>4. SlotsAreKept'
  BY <1>1, <1>2, <1>3 DEF RowsHold, SlotsAreKept, Takes, Stored
<1>5. RowsAreTyped' /\ GeneratedForItsClass'
  BY <1>1, <1>2, <1>3 DEF RowsHold, RowsAreTyped, GeneratedForItsClass
<1> QED
  BY <1>4, <1>5 DEF RowsHold

LEMMA EditCourseKeepsRows ==
  ASSUME RowsHold, EditCourse
  PROVE  RowsHold'
<1>1. PICK c \in Courses, plan \in Plans, status \in {"active", "archived"} :
         course' = [course EXCEPT ![c] = [status |-> status, plan |-> plan]]
  BY DEF EditCourse
<1>2. course' \in [Courses -> Curricula]
  BY <1>1 DEF RowsHold, RowsAreTyped, Curricula
<1>3. lessons' = lessons /\ marked' = marked
  BY DEF EditCourse
<1>5. SlotsAreKept' /\ GeneratedForItsClass'
  BY <1>3 DEF RowsHold, SlotsAreKept, GeneratedForItsClass, Stored, Takes
<1>6. RowsAreTyped'
  BY <1>2, <1>3 DEF RowsHold, RowsAreTyped
<1> QED
  BY <1>5, <1>6 DEF RowsHold

LEMMA ScheduleKeepsRows ==
  ASSUME RowsHold, DebtsAreTyped, TasksRecall, NEW t \in Tasks, ScheduleMakeup(t)
  PROVE  RowsHold'
<1> DEFINE o == task[t].id
<1>1. o \in Owed /\ task[t].at \in Times
  BY DEF TasksRecall, Sound, ScheduleMakeup, Did, Times
<1>2. course' = course /\ marked' = marked /\ CanDraw
  BY DEF ScheduleMakeup
<1>3. CASE lessons' = lessons
  BY <1>2, <1>3, RowsStay
<1>4. CASE debts[o].status = "open" /\ Books(Fresh, debts[o].class, task[t].at, "scheduled")
  <2>3. debts[o].class \in Courses
    BY <1>1, <1>4 DEF DebtsAreTyped, Debts
  <2> HIDE DEF o
  <2> QED
    BY <1>1, <1>2, <1>4, <2>3, BookingHolds
<1> QED
  BY <1>3, <1>4 DEF ScheduleMakeup

LEMMA RescheduleKeepsRows ==
  ASSUME RowsHold, TasksRecall, NEW t \in Tasks, RescheduleSession(t)
  PROVE  RowsHold'
<1>1. course' = course /\ marked' = marked /\ CanDraw
  BY DEF RescheduleSession
<1>2. CASE lessons' = lessons
  BY <1>1, <1>2, RowsStay
<1>3. ASSUME NEW i, i = task[t].id, NEW j, j = Fresh, Stored(i), ~detectConflicts(i, task[t].seen, task[t].at),
             Replaces(i, j, Manual(task[t].seen, task[t].at, "scheduled", i))
      PROVE  RowsHold'
  <2> DEFINE ri == [lessons[i] EXCEPT !.status = "cancelled", !.to = j]
             rj == Manual(task[t].seen, task[t].at, "scheduled", i)
  <2>1. i \in Lessons /\ task[t].at \in Times
    BY <1>3 DEF TasksRecall, Sound, RescheduleSession, Did, Times
  <2>2. lessons[i] \in Row
    BY <1>3, <2>1, StoredIsRow DEF RowsHold
  <2>3. j \in Lessons /\ lessons[j] = Unborn /\ ~Stored(j) /\ i # j
    BY <1>1, <1>3, FreshIsDrawn
  <2>4. task[t].seen \in Courses
    BY DEF TasksRecall, Sound, RescheduleSession, Did
  <2>5. rj \in Row /\ rj.at = task[t].at /\ rj.origin = "manual"
    BY <2>1, <2>4, ManualIsRow
  <2>6. ri \in Row /\ ri.status = "cancelled" /\ ri.origin = lessons[i].origin /\ ri.class = lessons[i].class
    BY <2>2, <2>3 DEF Row
  <2>7. /\ lessons \in [Lessons -> RowStates] /\ lessons'[i] = ri /\ lessons'[j] = rj
        /\ \A k \in Lessons \ {i, j} : lessons'[k] = lessons[k]
        /\ lessons' = [lessons EXCEPT ![j] = rj, ![i] = ri]
    BY <1>3, <2>1, <2>2, <2>3 DEF RowsHold, RowsAreTyped, Replaces
  <2>8. \A k \in Lessons \ {i} : Takes(k) => ~Collide(lessons[k].at, rj.at)
    BY <1>3, <2>5, NoConflictIsFree
  <2> HIDE DEF ri, rj
  <2>9. RowsAreTyped'
    BY <1>1, <2>1, <2>3, <2>5, <2>6, <2>7 DEF RowsHold, RowsAreTyped, RowStates
  <2>10. GeneratedForItsClass'
    <3> SUFFICES ASSUME NEW k \in Lessons, Stored(k)', lessons'[k].origin = "generated"
                 PROVE  k[1] = lessons'[k].class
      BY DEF GeneratedForItsClass
    <3>1. k # j
      BY <2>5, <2>7
    <3>2. lessons'[k].class = lessons[k].class /\ lessons[k].origin = "generated"
      BY <2>6, <2>7, <3>1
    <3>3. Stored(k)
      BY <1>3, <2>7, <3>1 DEF Stored
    <3> QED
      BY <3>2, <3>3 DEF RowsHold, GeneratedForItsClass
  <2>11. \A k \in marked' : Stored(k)'
    <3>1. rj.status \in {"scheduled", "cancelled"}
      BY <2>5 DEF Row
    <3> QED
      BY <1>1, <2>6, <2>7, <3>1 DEF RowsHold, RowsAreTyped, SlotsAreKept, Stored
  <2>12. \A k \in Lessons : Takes(k)' =>
           \/ Takes(k) /\ lessons'[k].at = lessons[k].at /\ lessons'[k].class = lessons[k].class
           \/ \A l \in Lessons \ {k} :
                Takes(l)' /\ lessons'[l].class # lessons'[k].class => ~Collide(lessons'[l].at, lessons'[k].at)
    <3> SUFFICES ASSUME NEW k \in Lessons, Takes(k)'
                 PROVE \/ Takes(k) /\ lessons'[k].at = lessons[k].at /\ lessons'[k].class = lessons[k].class
                       \/ \A l \in Lessons \ {k} :
                            Takes(l)' /\ lessons'[l].class # lessons'[k].class
                              => ~Collide(lessons'[l].at, lessons'[k].at)
      OBVIOUS
    <3>1. k # i
      BY <2>6, <2>7 DEF Takes
    <3>2. CASE k = j
      <4>1. \A l \in Lessons \ {j} : Takes(l)' => l # i /\ Takes(l) /\ lessons'[l] = lessons[l]
        BY <2>6, <2>7 DEF Takes
      <4> QED
        BY <2>7, <2>8, <3>2, <4>1
    <3>3. CASE k # j
      BY <2>7, <3>1, <3>3 DEF Takes
    <3> QED
      BY <3>2, <3>3
  <2>13. SlotsAreKept
    BY DEF RowsHold
  <2>14. SlotsAreKept'
    BY <2>11, <2>12, <2>13, SlotsStayApart
  <2> QED
    BY <2>9, <2>10, <2>14 DEF RowsHold
<1>4. ASSUME NEW i, i = task[t].id, NEW j, j = Fresh, ~Stored(i), ~detectConflicts(i, task[t].seen, task[t].at),
             Replaces(i, j, Manual(task[t].seen, task[t].at, "scheduled", i))
      PROVE  RowsHold'
  <2> DEFINE r == Manual(task[t].seen, task[t].at, "scheduled", i)
  <2>1. i \in Lessons /\ task[t].at \in Times /\ task[t].seen \in Courses
    BY <1>4 DEF TasksRecall, Sound, RescheduleSession, Did, Times
  <2>2. j \in Lessons /\ ~Stored(j)
    BY <1>1, <1>4, FreshIsDrawn
  <2>3. r \in Row /\ r.at = task[t].at /\ r.origin = "manual"
    BY <2>1, ManualIsRow
  <2>4. \A k \in Lessons \ {j} : Takes(k) => ~Collide(lessons[k].at, r.at)
    <3>1. \A k \in Lessons \ {i} : Takes(k) => ~Collide(lessons[k].at, task[t].at)
      BY <1>4, NoConflictIsFree
    <3>2. ~Takes(i)
      BY <1>4 DEF Takes, Stored
    <3> QED
      BY <2>3, <3>1, <3>2
  <2>5. lessons' = [lessons EXCEPT ![j] = r]
    BY <1>4 DEF Replaces
  <2> HIDE DEF r
  <2> QED
    BY <1>1, <2>2, <2>3, <2>4, <2>5, RowIsPlaced DEF RowStates
<1>5. \/ lessons' = lessons
      \/ /\ ~detectConflicts(task[t].id, task[t].seen, task[t].at)
         /\ Replaces(task[t].id, Fresh, Manual(task[t].seen, task[t].at, "scheduled", task[t].id))
  BY DEF RescheduleSession
<1> QED
  BY <1>2, <1>3, <1>4, <1>5

\* A generated row lies in the class it is generated for, on a slot of the batch.
LEMMA GenerationKeepsRows ==
  ASSUME RowsHold, GenerateSessions
  PROVE  RowsHold'
<1>1. course' = course /\ marked' = marked
  BY DEF GenerateSessions
<1>2. PICK c \in Courses, days \in SUBSET Days, confirmUpdates \in BOOLEAN :
         LET creates == Creates(c, days)
             updates == IF confirmUpdates THEN Updates(c, days) ELSE {}
             Id(s) == deterministicSessionId(c, s)
         IN /\ ~evaluatePlanConflicts(c, creates \cup Updates(c, days))
            /\ creates \cup updates # {}
            /\ lessons' = [i \in Lessons |->
                  IF \E s \in creates : i = Id(s)
                  THEN [Manual(c, CHOOSE s \in creates : i = Id(s), "scheduled", NoLesson)
                          EXCEPT !.origin = "generated"]
                  ELSE IF \E s \in updates : i = Id(s)
                  THEN [lessons[i] EXCEPT !.at = CHOOSE s \in updates : i = Id(s)]
                  ELSE lessons[i]]
  BY Zenon DEF GenerateSessions
<1> DEFINE creates == Creates(c, days)
           updates == IF confirmUpdates THEN Updates(c, days) ELSE {}
           Id(s) == deterministicSessionId(c, s)
           New(i) == CHOOSE s \in creates : i = Id(s)
           Moved(i) == CHOOSE s \in updates : i = Id(s)
           born(i) == [Manual(c, New(i), "scheduled", NoLesson) EXCEPT !.origin = "generated"]
           moved(i) == [lessons[i] EXCEPT !.at = Moved(i)]
<1>3. course[c].plan \in Plans
  BY DEF RowsHold, RowsAreTyped, Curricula
<1>4. creates \subseteq Times /\ updates \subseteq Times
  BY <1>3 DEF Creates, Updates, Slots, Times
<1>5. \A s \in creates \cup updates : \A j \in Lessons :
         Takes(j) /\ lessons[j].class # c => ~Collide(lessons[j].at, s)
  <2>1. updates \subseteq Updates(c, days)
    OBVIOUS
  <2> QED
    BY <1>2, <2>1 DEF evaluatePlanConflicts
<1>6. \A s \in creates : ~Stored(Id(s))
  BY DEF Creates
<1>7. \A s \in updates : Takes(Id(s)) /\ lessons[Id(s)].origin = "generated"
  BY DEF Updates
<1>8. \A s : Id(s)[1] = c
  BY DEF deterministicSessionId
<1>9. lessons' = [i \in Lessons |-> IF \E s \in creates : i = Id(s) THEN born(i)
                                    ELSE IF \E s \in updates : i = Id(s) THEN moved(i)
                                    ELSE lessons[i]]
  BY <1>2
<1> HIDE DEF creates, updates, Id
<1>10. \A i \in Lessons : (\E s \in creates : i = Id(s)) =>
          /\ New(i) \in creates /\ ~Stored(i) /\ i[1] = c
          /\ lessons'[i] = born(i)
  BY <1>6, <1>8, <1>9
<1>11. \A i \in Lessons : (~\E s \in creates : i = Id(s)) /\ (\E s \in updates : i = Id(s)) =>
          /\ Moved(i) \in updates /\ Takes(i) /\ lessons[i].origin = "generated" /\ i[1] = c
          /\ lessons'[i] = moved(i)
  BY <1>7, <1>8, <1>9
<1>12. \A i \in Lessons : (~\E s \in creates : i = Id(s)) /\ (~\E s \in updates : i = Id(s)) =>
          lessons'[i] = lessons[i]
  BY <1>9
<1> HIDE DEF New, Moved
<1>13. \A i \in Lessons : New(i) \in creates =>
          /\ born(i) \in Row /\ born(i).class = c /\ born(i).at = New(i)
          /\ born(i).status = "scheduled" /\ born(i).origin = "generated"
  <2> SUFFICES ASSUME NEW i \in Lessons, New(i) \in creates
               PROVE  /\ born(i) \in Row /\ born(i).class = c /\ born(i).at = New(i)
                      /\ born(i).status = "scheduled" /\ born(i).origin = "generated"
    OBVIOUS
  <2>1. New(i) \in Times
    BY <1>4
  <2> QED
    BY <2>1 DEF Manual, Row
<1>14. \A i \in Lessons : Moved(i) \in updates /\ Takes(i) /\ lessons[i].origin = "generated" /\ i[1] = c =>
          /\ moved(i) \in Row /\ moved(i).class = c /\ moved(i).at = Moved(i)
          /\ moved(i).status = "scheduled" /\ moved(i).origin = "generated"
  <2> SUFFICES ASSUME NEW i \in Lessons, Moved(i) \in updates, Takes(i), lessons[i].origin = "generated", i[1] = c
               PROVE  /\ moved(i) \in Row /\ moved(i).class = c /\ moved(i).at = Moved(i)
                      /\ moved(i).status = "scheduled" /\ moved(i).origin = "generated"
    OBVIOUS
  <2>1. Stored(i) /\ Moved(i) \in Times
    BY <1>4 DEF Takes, Stored
  <2>2. lessons[i] \in Row /\ lessons[i].class = c
    BY <2>1, StoredIsRow DEF RowsHold, GeneratedForItsClass
  <2> QED
    BY <2>1, <2>2 DEF Row, Takes
<1> HIDE DEF born, moved
<1>15. \A i \in Lessons :
          \/ lessons'[i] = lessons[i]
          \/ /\ lessons'[i] \in Row /\ lessons'[i].class = c /\ lessons'[i].at \in creates \cup updates
             /\ lessons'[i].status = "scheduled" /\ lessons'[i].origin = "generated" /\ i[1] = c
  BY <1>10, <1>11, <1>12, <1>13, <1>14
<1>16. RowsAreTyped'
  <2>1. \A i \in Lessons : lessons'[i] \in RowStates
    BY <1>15 DEF RowsHold, RowsAreTyped, RowStates
  <2>2. lessons' \in [Lessons -> RowStates]
    BY <1>9, <2>1
  <2> QED
    BY <1>1, <2>2 DEF RowsHold, RowsAreTyped
<1>17. GeneratedForItsClass'
  BY <1>15 DEF RowsHold, GeneratedForItsClass, Stored
<1>18. \A i \in marked' : Stored(i)'
  BY <1>1, <1>15 DEF RowsHold, RowsAreTyped, SlotsAreKept, Stored
<1>19. \A i \in Lessons : Takes(i)' =>
         \/ Takes(i) /\ lessons'[i].at = lessons[i].at /\ lessons'[i].class = lessons[i].class
         \/ \A j \in Lessons \ {i} :
              Takes(j)' /\ lessons'[j].class # lessons'[i].class => ~Collide(lessons'[j].at, lessons'[i].at)
  <2> SUFFICES ASSUME NEW i \in Lessons, Takes(i)', lessons'[i] # lessons[i], NEW j \in Lessons \ {i},
                      Takes(j)', lessons'[j].class # lessons'[i].class
               PROVE  ~Collide(lessons'[j].at, lessons'[i].at)
    BY DEF Takes
  <2>1. lessons'[i].class = c /\ lessons'[i].at \in creates \cup updates
    BY <1>15
  <2>2. lessons'[j] = lessons[j] /\ Takes(j)
    BY <1>15, <2>1 DEF Takes
  <2> QED
    BY <1>5, <2>1, <2>2
<1>20. SlotsAreKept
  BY DEF RowsHold
<1>21. SlotsAreKept'
  BY <1>18, <1>19, <1>20, SlotsStayApart
<1> QED
  BY <1>16, <1>17, <1>21 DEF RowsHold

-----------------------------------------------------------------------------
(* What a step does to the tasks and to the obligations.                   *)

LEMMA TaskGoesOn ==
  ASSUME TasksRecall, NEW t \in Tasks, NEW m, Sound(m), Then(t, m)
  PROVE  TasksRecall'
<1>1. DOMAIN task' = Tasks /\ \A u \in Tasks : task'[u] = IF u = t THEN m ELSE task[u]
  BY DEF TasksRecall, Then
<1> QED
  BY <1>1 DEF TasksRecall

LEMMA TaskEnds ==
  ASSUME TasksRecall, NEW t \in Tasks, Ends(t)
  PROVE  TasksRecall'
<1>1. Sound(Rest)
  BY DEF Sound, Rest
<1> QED
  BY <1>1, TaskGoesOn DEF Ends

LEMMA StepsKeepTasks ==
  ASSUME RowsAreTyped, TasksRecall, DebtsAreTyped, Called \/ Resumed
  PROVE  TasksRecall'
<1>1. CASE task' = task
  BY <1>1 DEF TasksRecall
<1>2. ASSUME NEW t \in Tasks, NEW i \in Lessons, GetSession(t, i)
      PROVE  TasksRecall'
  <2>1. PICK s \in Asked : Then(t, Remembers("move", i, s, lessons[i].class))
    BY <1>2 DEF GetSession
  <2>2. lessons[i].class \in Courses
    <3>1. lessons[i] \in Row
      BY <1>2, StoredIsRow DEF GetSession, Takes, Stored
    <3> QED
      BY <3>1 DEF Row
  <2>3. Sound(Remembers("move", i, s, lessons[i].class))
    BY <2>2 DEF Sound, Remembers
  <2> QED
    BY <2>1, <2>3, TaskGoesOn
<1>3. ASSUME NEW t \in Tasks, RegisterDebt(t)
      PROVE  TasksRecall'
  <2>1. PICK o \in Owed : lessons[o].status = "cancelled" /\ Then(t, Remembers("register", o, NoLesson, lessons[o].class))
    BY <1>3 DEF RegisterDebt
  <2>2. lessons[o].class \in Courses
    <3>1. o \in Lessons /\ Stored(o)
      BY <2>1, TimetableAssumption DEF TimetableAssumption, Lessons, Stored
    <3>2. lessons[o] \in Row
      BY <3>1, StoredIsRow
    <3> QED
      BY <3>2 DEF Row
  <2>3. Sound(Remembers("register", o, NoLesson, lessons[o].class))
    BY <2>2 DEF Sound, Remembers
  <2> QED
    BY <2>1, <2>3, TaskGoesOn
<1>4. ASSUME NEW t \in Tasks, NEW op, NEW s, serializeBooking(t, op, s),
             op = "complete" \/ (op = "schedule" /\ s \in Asked)
      PROVE  TasksRecall'
  <2>1. PICK o \in Owed : Then(t, Remembers(op, o, s, <<>>))
    BY <1>4 DEF serializeBooking
  <2>2. Sound(Remembers(op, o, s, <<>>))
    BY <1>4 DEF Sound, Remembers
  <2> QED
    BY <2>1, <2>2, TaskGoesOn
<1>5. ASSUME NEW t \in Tasks, ScheduleMakeup(t)
      PROVE  TasksRecall'
  <2> DEFINE o == task[t].id
             m == Remembers("append", o, Fresh, debts[o].attempts)
  <2>1. o \in Owed /\ CanDraw
    BY <1>5 DEF ScheduleMakeup, Did, TasksRecall, Sound
  <2>2. debts[o].attempts \in Seq(Lessons) /\ Fresh \in Lessons
    BY <2>1, FreshIsDrawn DEF DebtsAreTyped, Debts
  <2>3. Sound(m)
    BY <2>1, <2>2 DEF Sound, Remembers
  <2>4. Then(t, m) \/ Ends(t)
    BY <1>5 DEF ScheduleMakeup
  <2> QED
    BY <2>3, <2>4, TaskGoesOn, TaskEnds
<1>6. ASSUME NEW t \in Tasks, RescheduleSession(t) \/ Registered(t) \/ AppendAttempt(t) \/ CompleteDebt(t)
      PROVE  TasksRecall'
  <2>1. Ends(t)
    BY <1>6 DEF RescheduleSession, Registered, AppendAttempt, CompleteDebt
  <2> QED
    BY <2>1, TaskEnds
<1>7. CASE Resumed
  BY <1>5, <1>6, <1>7 DEF Resumed
<1>8. CASE Called
  <2>1. CASE CreateSession \/ RecordAttendance \/ GenerateSessions \/ EditCourse
    BY <1>1, <2>1 DEF CreateSession, RecordAttendance, GenerateSessions, EditCourse
  <2>2. ASSUME NEW i \in Lessons, UpdateSession(i) \/ CancelSession(i) \/ DeleteSession(i)
        PROVE  TasksRecall'
    BY <1>1, <2>2 DEF UpdateSession, CancelSession, DeleteSession
  <2>3. ASSUME NEW t \in Tasks,
               \/ \E i \in Lessons : GetSession(t, i)
               \/ RegisterDebt(t)
               \/ serializeBooking(t, "complete", NoLesson)
               \/ \E s \in Asked : serializeBooking(t, "schedule", s)
        PROVE  TasksRecall'
    BY <1>2, <1>3, <1>4, <2>3
  <2> QED
    BY <1>8, <2>1, <2>2, <2>3 DEF Called
<1> QED
  BY <1>7, <1>8

Due == {o \in Owed : debts[o].status # "none"}

\* The cap is read again where the obligation is written.
LEMMA RegisteredKeepsDebts ==
  ASSUME DebtsHold, TasksRecall, NEW t \in Tasks, Registered(t)
  PROVE  DebtsHold'
<1> DEFINE o == task[t].id
           opened == [status |-> "open", class |-> task[t].seen, attempts |-> <<>>]
<1>1. o \in Owed /\ task[t].seen \in Courses
  BY DEF TasksRecall, Sound, Registered, Did
<1>2. CASE debts' = debts
  BY <1>2 DEF DebtsHold, DebtsAreTyped, CapIsKept
<1>3. CASE Cardinality(Due) < MakeupCap /\ debts' = [debts EXCEPT ![o] = opened]
  <2>1. opened \in Debts /\ opened.status # "none"
    BY <1>1 DEF Debts
  <2> HIDE DEF opened, o
  <2>2. DebtsAreTyped' /\ debts'[o] = opened /\ \A x \in Owed \ {o} : debts'[x] = debts[x]
    BY <1>1, <1>3, <2>1 DEF DebtsHold, DebtsAreTyped
  <2>3. Due' = Due \cup {o}
    BY <1>1, <2>1, <2>2 DEF Due
  <2>4. IsFiniteSet(Due) /\ Cardinality(Due) \in Nat
    <3>1. IsFiniteSet(Owed) /\ Due \in SUBSET Owed
      BY TimetableAssumption DEF TimetableAssumption, Due
    <3>2. IsFiniteSet(Due)
      BY <3>1, FS_Subset
    <3> QED
      BY <3>2, FS_CardinalityType
  <2>5. Cardinality(Due \cup {o}) <= Cardinality(Due) + 1
    <3>1. Cardinality(Due \cup {o}) = IF o \in Due THEN Cardinality(Due) ELSE Cardinality(Due) + 1
      BY <2>4, FS_AddElement
    <3> QED
      BY <2>4, <3>1
  <2>6. MakeupCap \in Nat
    BY TimetableAssumption DEF TimetableAssumption
  <2>7. Cardinality(Due \cup {o}) \in Nat
    BY <2>4, FS_AddElement
  <2>8. Cardinality(Due \cup {o}) <= MakeupCap
    BY <1>3, <2>4, <2>5, <2>6, <2>7
  <2>9. Cardinality(Due') <= MakeupCap
    BY <2>3, <2>8
  <2> QED
    BY <2>2, <2>9 DEF DebtsHold, CapIsKept, Due
<1>4. debts' = debts \/ (Cardinality(Due) < MakeupCap /\ debts' = [debts EXCEPT ![o] = opened])
  BY DEF Registered, assertWithinMakeupCap, Due
<1> QED
  BY <1>2, <1>3, <1>4

\* A ledger line, or a discharge, owes no more than before.
LEMMA SameDebtsOwed ==
  ASSUME DebtsHold, NEW o \in Owed, NEW d \in Debts, d.status # "none" \/ debts[o].status = "none",
         debts[o].status # "none" \/ d.status = "none", debts' = [debts EXCEPT ![o] = d]
  PROVE  DebtsHold'
<1>1. DebtsAreTyped' /\ debts'[o] = d /\ \A x \in Owed \ {o} : debts'[x] = debts[x]
  BY DEF DebtsHold, DebtsAreTyped
<1>2. {x \in Owed : debts'[x].status # "none"} = {x \in Owed : debts[x].status # "none"}
  BY <1>1
<1> QED
  BY <1>1, <1>2 DEF DebtsHold, CapIsKept

LEMMA AppendKeepsDebts ==
  ASSUME DebtsHold, TasksRecall, NEW t \in Tasks, AppendAttempt(t)
  PROVE  DebtsHold'
<1> DEFINE o == task[t].id
           line == Append(task[t].seen, task[t].at)
           d == [debts[o] EXCEPT !.attempts = line]
<1>1. o \in Owed /\ task[t].seen \in Seq(Lessons) /\ task[t].at \in Lessons
  BY DEF TasksRecall, Sound, AppendAttempt, Did
<1>2. line \in Seq(Lessons)
  BY <1>1, AppendProperties
<1>3. debts[o] \in Debts
  BY <1>1 DEF DebtsHold, DebtsAreTyped
<1>4. debts' = [debts EXCEPT ![o] = d]
  BY DEF AppendAttempt
<1> HIDE DEF line
<1>5. d \in Debts /\ d.status = debts[o].status
  <2>1. CASE debts[o].status = "none"
    BY <1>2, <1>3, <2>1 DEF Debts
  <2>2. CASE debts[o].status # "none"
    BY <1>2, <1>3, <2>2 DEF Debts
  <2> QED
    BY <2>1, <2>2
<1> HIDE DEF d, o
<1> QED
  BY <1>1, <1>4, <1>5, SameDebtsOwed

LEMMA CompleteKeepsDebts ==
  ASSUME DebtsHold, TasksRecall, NEW t \in Tasks, CompleteDebt(t)
  PROVE  DebtsHold'
<1> DEFINE o == task[t].id
           d == [debts[o] EXCEPT !.status = "completed"]
<1>1. o \in Owed
  BY DEF TasksRecall, Sound, CompleteDebt, Did
<1>2. CASE debts' = debts
  BY <1>2 DEF DebtsHold, DebtsAreTyped, CapIsKept
<1>3. CASE debts[o].status = "open" /\ debts' = [debts EXCEPT ![o] = d]
  <2>1. debts[o] \in Debts
    BY <1>1 DEF DebtsHold, DebtsAreTyped
  <2>2. d \in Debts /\ d.status = "completed"
    BY <1>3, <2>1 DEF Debts
  <2> HIDE DEF d, o
  <2> QED
    BY <1>1, <1>3, <2>2, SameDebtsOwed
<1>4. debts' = debts \/ (debts[o].status = "open" /\ debts' = [debts EXCEPT ![o] = d])
  BY DEF CompleteDebt
<1> QED
  BY <1>2, <1>3, <1>4

-----------------------------------------------------------------------------
LEMMA TimetableStepsKeep ==
  ASSUME TimetableInv, Called \/ Resumed
  PROVE  TimetableInv'
<1> USE DEF TimetableInv
<1>1. TasksRecall'
  BY StepsKeepTasks DEF DebtsHold, RowsHold
<1>2. RowsHold'
  <2>1. CASE Called
    <3>1. CASE CreateSession \/ RecordAttendance \/ GenerateSessions \/ EditCourse
      BY <3>1, CreateKeepsRows, RecordKeepsRows, GenerationKeepsRows, EditCourseKeepsRows
    <3>2. ASSUME NEW i \in Lessons, UpdateSession(i) \/ CancelSession(i) \/ DeleteSession(i)
          PROVE  RowsHold'
      BY <3>2, UpdateKeepsRows, CancelKeepsRows, DeleteKeepsRows
    <3>3. CASE UNCHANGED <<lessons, course, marked>>
      BY <3>3, RowsStay
    <3>4. ASSUME NEW t \in Tasks,
                 \/ \E i \in Lessons : GetSession(t, i)
                 \/ RegisterDebt(t)
                 \/ serializeBooking(t, "complete", NoLesson)
                 \/ \E s \in Asked : serializeBooking(t, "schedule", s)
          PROVE  UNCHANGED <<lessons, course, marked>>
      BY <3>4 DEF GetSession, RegisterDebt, serializeBooking
    <3> QED
      BY <2>1, <3>1, <3>2, <3>3, <3>4 DEF Called
  <2>2. ASSUME NEW t \in Tasks, RescheduleSession(t) \/ ScheduleMakeup(t)
        PROVE  RowsHold'
    BY <2>2, RescheduleKeepsRows, ScheduleKeepsRows DEF DebtsHold
  <2>3. ASSUME NEW t \in Tasks, Registered(t) \/ AppendAttempt(t) \/ CompleteDebt(t)
        PROVE  RowsHold'
    <3>1. UNCHANGED <<lessons, course, marked>>
      BY <2>3 DEF Registered, AppendAttempt, CompleteDebt
    <3> QED
      BY <3>1, RowsStay
  <2> QED
    BY <2>1, <2>2, <2>3 DEF Resumed
<1>3. DebtsHold'
  <2>1. CASE debts' = debts
    BY <2>1 DEF DebtsHold, DebtsAreTyped, CapIsKept
  <2>2. CASE Called
    <3>1. debts' = debts
      BY <2>2 DEF Called, CreateSession, RecordAttendance, GenerateSessions, EditCourse, UpdateSession,
                  CancelSession, DeleteSession, GetSession, RegisterDebt, serializeBooking
    <3> QED
      BY <2>1, <3>1
  <2>3. ASSUME NEW t \in Tasks, Registered(t) \/ AppendAttempt(t) \/ CompleteDebt(t)
        PROVE  DebtsHold'
    BY <2>3, RegisteredKeepsDebts, AppendKeepsDebts, CompleteKeepsDebts
  <2>4. ASSUME NEW t \in Tasks, RescheduleSession(t) \/ ScheduleMakeup(t)
        PROVE  debts' = debts
    BY <2>4 DEF RescheduleSession, ScheduleMakeup
  <2> QED
    BY <2>1, <2>2, <2>3, <2>4 DEF Resumed
<1> QED
  BY <1>1, <1>2, <1>3

LEMMA TimetableKeeps ==
  ASSUME TimetableInv, [TimetableNext]_timetableVars
  PROVE  TimetableInv'
<1>1. CASE Called \/ Resumed
  BY <1>1, TimetableStepsKeep
<1>2. CASE UNCHANGED timetableVars
  <2>1. UNCHANGED <<lessons, course, marked>> /\ task' = task /\ debts' = debts
    BY <1>2 DEF timetableVars, timetableState
  <2>2. RowsHold'
    BY <2>1, RowsStay DEF TimetableInv
  <2> QED
    BY <2>1, <2>2 DEF TimetableInv, TasksRecall, DebtsHold, DebtsAreTyped, CapIsKept
<1> QED
  BY <1>1, <1>2 DEF TimetableNext

-----------------------------------------------------------------------------
(***************************************************************************)
(* At most one live make-up.  attemptLineageOf walks from the last line of *)
(* a ledger; what the property counts is every session made for the        *)
(* obligation.  The invariant ties them: from that line, or from the       *)
(* session that is booked and not in the ledger yet, a path of links inside *)
(* the family, none visited twice, leads to whatever takes place.  A       *)
(* booking starts a path, a move appends to the one that ends at the moved *)
(* session, and the successor bridges a deleted row as long as it is not   *)
(* gone too.  A path is no longer than its family, so the walk arrives and *)
(* finds that there is a make-up before another is booked; and since the   *)
(* section of an obligation serves one task, no other books in between.    *)
(***************************************************************************)

\* Induction on a set, from the least number outside it.
LEMMA SetInduction ==
  ASSUME NEW S, 0 \in S, \A n \in Nat : n \in S => n + 1 \in S
  PROVE  Nat \subseteq S
<1> SUFFICES ASSUME Nat \ S # {} PROVE FALSE
  OBVIOUS
<1> DEFINE T == Nat \ S
<1>1. T \subseteq Nat /\ T # {}
  OBVIOUS
<1>2. PICK x \in T : \A y \in T : ~(<<y, x>> \in OpToRel(<, Nat))
  <2> HIDE DEF T
  <2> QED
    BY <1>1, NatLessThanWellFounded, WFMin
<1>3. \A y \in T : ~(y < x)
  BY <1>1, <1>2 DEF OpToRel
<1>4. x # 0 /\ x - 1 \in Nat /\ (x - 1) + 1 = x
  OBVIOUS
<1>5. x - 1 \in T
  BY <1>4
<1> QED
  BY <1>3, <1>4, <1>5

\* What the walk finds with n moves behind it, if g says what it finds with
\* one more.
WalkOn(g, n) ==
  [i \in Lessons |->
    IF Onward(i) = {} THEN (IF Stored(i) THEN lessons[i].status ELSE "missing")
    ELSE IF n = MAX_MOVES THEN "missing"
    ELSE g[n + 1][CHOOSE j \in Onward(i) : TRUE]]

LastMoves(k) == (MAX_MOVES - k)..MAX_MOVES
Walks(k, g) == g = [n \in LastMoves(k) |-> WalkOn(g, n)]

LEMMA WalkOnReads ==
  ASSUME NEW g, NEW h, NEW n, n # MAX_MOVES => g[n + 1] = h[n + 1]
  PROVE  WalkOn(g, n) = WalkOn(h, n)
  BY DEF WalkOn

LEMMA WalkExists == \E g : Walks(MAX_MOVES, g)
<1> DEFINE S == {k \in Nat : k <= MAX_MOVES => \E g : Walks(k, g)}
<1> USE TimetableAssumption DEF TimetableAssumption
<1>1. 0 \in S
  <2> DEFINE g == [n \in LastMoves(0) |-> WalkOn(<<>>, n)]
  <2>1. LastMoves(0) = {MAX_MOVES}
    BY DEF LastMoves
  <2>2. \A n \in LastMoves(0) : WalkOn(<<>>, n) = WalkOn(g, n)
    BY <2>1, WalkOnReads
  <2>3. Walks(0, g)
    BY <2>2 DEF Walks
  <2> QED
    BY <2>3
<1>2. ASSUME NEW k \in Nat, k \in S
      PROVE  k + 1 \in S
  <2> SUFFICES ASSUME k + 1 <= MAX_MOVES PROVE \E h : Walks(k + 1, h)
    OBVIOUS
  <2>1. PICK g : Walks(k, g)
    BY <1>2
  <2> DEFINE first == MAX_MOVES - (k + 1)
             h == [n \in LastMoves(k + 1) |-> IF n = first THEN WalkOn(g, n) ELSE g[n]]
  <2>2. /\ LastMoves(k + 1) = {first} \cup LastMoves(k) /\ first \notin LastMoves(k)
        /\ first + 1 \in LastMoves(k) /\ \A n \in LastMoves(k) : n # MAX_MOVES => n + 1 \in LastMoves(k)
    BY DEF LastMoves
  <2>3. \A n \in LastMoves(k) : h[n] = g[n] /\ g[n] = WalkOn(g, n)
    BY <2>1, <2>2 DEF Walks
  <2>4. h[first] = WalkOn(g, first)
    BY <2>2
  <2>5. h = [n \in LastMoves(k + 1) |-> h[n]]
    OBVIOUS
  <2> HIDE DEF h, first
  <2>6. \A n \in LastMoves(k + 1) : WalkOn(h, n) = WalkOn(g, n)
    BY <2>2, <2>3, WalkOnReads
  <2>7. \A n \in LastMoves(k + 1) : h[n] = WalkOn(h, n)
    BY <2>2, <2>3, <2>4, <2>6
  <2>8. Walks(k + 1, h)
    BY <2>5, <2>7 DEF Walks
  <2> QED
    BY <2>8
<1>3. MAX_MOVES \in S
  <2> HIDE DEF S
  <2> QED
    BY <1>1, <1>2, SetInduction
<1> QED
  BY <1>3

LEMMA LineageWalks ==
  \A n \in 0..MAX_MOVES : attemptLineageOf[n] = WalkOn(attemptLineageOf, n)
<1>1. LastMoves(MAX_MOVES) = 0..MAX_MOVES
  BY TimetableAssumption DEF TimetableAssumption, LastMoves
<1>2. PICK g : g = [n \in 0..MAX_MOVES |-> WalkOn(g, n)]
  BY <1>1, WalkExists DEF Walks
<1>3. attemptLineageOf = CHOOSE f : f = [n \in 0..MAX_MOVES |-> WalkOn(f, n)]
  BY DEF attemptLineageOf, WalkOn
<1>4. attemptLineageOf = [n \in 0..MAX_MOVES |-> WalkOn(attemptLineageOf, n)]
  BY <1>2, <1>3
<1> QED
  BY <1>4

-----------------------------------------------------------------------------
(* The invariant.                                                          *)

\* A method of an obligation waits in its section, and the one that has
\* booked is at the head of it until its line is written.
QueuesAreTyped ==
  /\ section \in [Owed -> Seq(Tasks)] /\ madeFor \in [Lessons -> Owed \cup {NoLesson}] /\ split \subseteq Owed
Waits(t) ==
  /\ task[t].op \in {"rest", "move", "register", "schedule", "append", "complete"}
  /\ task[t].op \in {"schedule", "append", "complete"} =>
       \E n \in DOMAIN section[task[t].id] : section[task[t].id][n] = t
  /\ Did(t, "append") => InSection(t) /\ debts[task[t].id].status # "none"
NoneIsTried == \A o \in Owed : debts[o].status = "none" => debts[o].attempts = <<>>
QueueInv == QueuesAreTyped /\ NoneIsTried /\ \A t \in Tasks : Waits(t)

\* Where the walk starts: the session whose line is not written yet, or else
\* the last line.
LastAttempt(o) == debts[o].attempts[Len(debts[o].attempts)]
Booking(o) == {t \in Tasks : Did(t, "append") /\ task[t].id = o}
Starting(o) == IF Booking(o) # {} THEN {task[t].at : t \in Booking(o)}
               ELSE IF debts[o].attempts = <<>> THEN {} ELSE {LastAttempt(o)}

\* The walk from a to l: k moves through sessions of the family, each once.
Path(o, k, f) ==
  /\ f \in [0..k -> Family(o)]
  /\ \A m, n \in 0..k : f[m] = f[n] => m = n
  /\ \A n \in 0..(k - 1) : Onward(f[n]) = {f[n + 1]}
Leads(o, a, l) == \E k \in Nat : \E f : Path(o, k, f) /\ f[0] = a /\ f[k] = l

BookedFamily(o) == IsFiniteSet(Family(o)) /\ \A i \in Family(o) : i \in Drawn /\ lessons[i] # Unborn
\* A forward link is one of a session that was moved, to the session that
\* names it as its origin.
LinkedFamily(o) ==
  o \notin split => \A y \in Family(o) :
    /\ Stored(y) /\ lessons[y].to # NoLesson =>
         /\ lessons[y].to \in Family(o) /\ lessons[y].status = "cancelled"
         /\ Stored(lessons[y].to) => lessons[lessons[y].to].from = y
    /\ \A j \in Lessons : Stored(j) /\ lessons[j].from = y =>
         j \in Family(o) /\ (Stored(y) => lessons[y].to = j)
\* Whatever takes place is where the walk goes.
Known(o) == Traceable(o) => \A l \in Makeups(o) : \E a \in Starting(o) : Leads(o, a, l)
OriginsAreBorn == \A j \in Lessons : Stored(j) /\ lessons[j].from # NoLesson => lessons[lessons[j].from] # Unborn

\* A move is of a session that was there, though it may be deleted by now.
MovesAreBorn == \A t \in Tasks : Did(t, "move") => lessons[task[t].id] # Unborn

FamilyInv == OriginsAreBorn /\ \A o \in Owed : BookedFamily(o) /\ LinkedFamily(o) /\ Known(o)

\* The walk stops at a session that takes place.
LEMMA LiveIsLast ==
  ASSUME NEW o, LinkedFamily(o), o \notin split, NEW l \in Family(o), Takes(l)
  PROVE  Onward(l) = {} /\ Stored(l) /\ lessons[l].to = NoLesson
<1>1. Stored(l)
  BY DEF Takes, Stored
<1>2. lessons[l].to = NoLesson
  BY <1>1 DEF LinkedFamily, Takes
<1> QED
  BY <1>1, <1>2 DEF Onward

\* A path is no longer than the family.
LEMMA PathsAreShort ==
  ASSUME NEW o, IsFiniteSet(Family(o)), NEW k \in Nat, NEW f, Path(o, k, f)
  PROVE  k + 1 <= Cardinality(Family(o))
<1> DEFINE F == Family(o)
           S == 0..k
<1>1. f \in [S -> F] /\ \A m, n \in S : f[m] = f[n] => m = n
  BY DEF Path
<1>2. 0 \in Int /\ k \in Int
  OBVIOUS
<1>3. IsFiniteSet(S) /\ Cardinality(S) = IF 0 > k THEN 0 ELSE k - 0 + 1
  BY <1>2, FS_Interval
<1>4. Cardinality(S) = k + 1
  BY <1>3
<1>5. IsFiniteSet(F) /\ Cardinality(F) \in Nat
  BY FS_CardinalityType
<1> HIDE DEF F, S
<1>6. ~(Cardinality(F) < Cardinality(S))
  BY <1>1, <1>3, <1>5, FS_PigeonHole
<1>7. k + 1 <= Cardinality(F)
  BY <1>4, <1>5, <1>6
<1> QED
  BY <1>7 DEF F

\* What attemptLineageOf finds from the start of a path that ends at a live session.
LEMMA PathIsFound ==
  ASSUME NEW o, LinkedFamily(o), o \notin split, NEW k \in Nat, k <= MAX_MOVES, NEW f, Path(o, k, f), Takes(f[k])
  PROVE  attemptLineageOf[0][f[0]] = "scheduled"
<1> USE TimetableAssumption DEF TimetableAssumption
<1> DEFINE S == {m \in Nat : m <= k => attemptLineageOf[k - m][f[k - m]] = "scheduled"}
<1>1. /\ \A n \in 0..k : f[n] \in Family(o) /\ f[n] \in Lessons
      /\ \A n \in 0..(k - 1) : Onward(f[n]) = {f[n + 1]}
  BY DEF Path, Family
<1>2. ASSUME NEW n \in 0..MAX_MOVES, NEW i \in Lessons
      PROVE  attemptLineageOf[n][i] =
               IF Onward(i) = {} THEN (IF Stored(i) THEN lessons[i].status ELSE "missing")
               ELSE IF n = MAX_MOVES THEN "missing"
               ELSE attemptLineageOf[n + 1][CHOOSE j \in Onward(i) : TRUE]
  BY LineageWalks DEF WalkOn
<1>3. 0 \in S
  <2>1. k \in 0..MAX_MOVES /\ k \in 0..k
    OBVIOUS
  <2>2. f[k] \in Family(o) /\ f[k] \in Lessons
    BY <1>1, <2>1
  <2>3. Onward(f[k]) = {} /\ Stored(f[k])
    BY <2>2, LiveIsLast
  <2>4. attemptLineageOf[k][f[k]] = "scheduled"
    BY <1>2, <2>1, <2>2, <2>3 DEF Takes
  <2> QED
    BY <2>4
<1>4. ASSUME NEW m \in Nat, m \in S PROVE m + 1 \in S
  <2> SUFFICES ASSUME m + 1 <= k PROVE attemptLineageOf[k - (m + 1)][f[k - (m + 1)]] = "scheduled"
    OBVIOUS
  <2>1. PICK n : n = k - (m + 1)
    OBVIOUS
  <2>2. n \in 0..(k - 1) /\ n \in 0..MAX_MOVES /\ n # MAX_MOVES /\ n + 1 = k - m /\ n \in 0..k
    BY <2>1
  <2>3. Onward(f[n]) = {f[n + 1]} /\ f[n] \in Lessons
    BY <1>1, <2>2
  <2>4. (CHOOSE j \in {f[n + 1]} : TRUE) = f[n + 1]
    OBVIOUS
  <2>5. attemptLineageOf[n][f[n]] = attemptLineageOf[n + 1][f[n + 1]]
    BY <1>2, <2>2, <2>3, <2>4
  <2>6. attemptLineageOf[n + 1][f[n + 1]] = "scheduled"
    BY <1>4, <2>2
  <2> QED
    BY <2>1, <2>5, <2>6
<1> HIDE DEF S
<1>5. k \in S
  BY <1>3, <1>4, SetInduction
<1> QED
  BY <1>5 DEF S

\* Paths from one session that end at live ones end together.
LEMMA PathsMeet ==
  ASSUME NEW o, LinkedFamily(o), o \notin split, NEW k \in Nat, NEW f, Path(o, k, f), Takes(f[k]),
         NEW m \in Nat, NEW g, Path(o, m, g), Takes(g[m]), f[0] = g[0], k <= m
  PROVE  f[k] = g[m]
<1> DEFINE S == {n \in Nat : n <= k => f[n] = g[n]}
<1>1. /\ \A n \in 0..(k - 1) : Onward(f[n]) = {f[n + 1]}
      /\ \A n \in 0..(m - 1) : Onward(g[n]) = {g[n + 1]}
      /\ \A n \in 0..k : f[n] \in Family(o)
  BY DEF Path
<1>2. ASSUME NEW n \in Nat, n \in S PROVE n + 1 \in S
  <2> SUFFICES ASSUME n + 1 <= k PROVE f[n + 1] = g[n + 1]
    OBVIOUS
  <2>1. n \in 0..(k - 1) /\ n \in 0..(m - 1) /\ f[n] = g[n]
    BY <1>2
  <2> QED
    BY <1>1, <2>1
<1>3. 0 \in S
  OBVIOUS
<1> HIDE DEF S
<1>4. k \in S
  BY <1>2, <1>3, SetInduction
<1>5. f[k] = g[k]
  BY <1>4 DEF S
<1>6. CASE k < m
  <2>1. Onward(g[k]) = {g[k + 1]} /\ f[k] \in Family(o)
    BY <1>1, <1>6
  <2> QED
    BY <1>5, <2>1, LiveIsLast
<1> QED
  BY <1>5, <1>6

\* One task of an obligation is at the head of its section.
LEMMA StartIsOne ==
  ASSUME QueueInv, NEW o \in Owed, NEW a \in Starting(o), NEW b \in Starting(o)
  PROVE  a = b
<1>1. \A t, u \in Booking(o) : t = u
  BY DEF Booking, QueueInv, Waits, InSection
<1> QED
  BY <1>1 DEF Starting

\* The one at the head has not booked: a live make-up is found.
LEMMA KnownIsFound ==
  ASSUME FamilyInv, NEW o \in Owed, Booking(o) = {}, Traceable(o), Makeups(o) # {}
  PROVE  attemptIsLive(o)
<1>0. LinkedFamily(o) /\ BookedFamily(o) /\ Known(o) /\ o \notin split
  BY DEF FamilyInv, Traceable
<1>1. PICK l \in Makeups(o) : TRUE
  OBVIOUS
<1>2. debts[o].attempts # <<>> /\ Leads(o, LastAttempt(o), l) /\ Takes(l)
  BY <1>0, <1>1 DEF Known, Makeups, Starting
<1>3. PICK k \in Nat : \E f : Path(o, k, f) /\ f[0] = LastAttempt(o) /\ f[k] = l
  BY <1>2 DEF Leads
<1>4. PICK f : Path(o, k, f) /\ f[0] = LastAttempt(o) /\ f[k] = l
  BY <1>3
<1>5. IsFiniteSet(Family(o)) /\ Cardinality(Family(o)) <= MAX_MOVES + 1
  BY <1>0 DEF BookedFamily, Traceable
<1>6. k <= MAX_MOVES
  <2>1. k + 1 <= Cardinality(Family(o)) /\ Cardinality(Family(o)) \in Nat
    BY <1>4, <1>5, PathsAreShort, FS_CardinalityType
  <2> QED
    BY <1>5, <2>1, TimetableAssumption DEF TimetableAssumption
<1>7. attemptLineageOf[0][LastAttempt(o)] = "scheduled"
  BY <1>0, <1>2, <1>4, <1>6, PathIsFound
<1> QED
  BY <1>2, <1>7 DEF attemptIsLive, LastAttempt

\* Two that take place would end two paths from one start.
LEMMA KnownIsOne ==
  ASSUME QueueInv, FamilyInv
  PROVE  LiveMakeupIsOne
<1> SUFFICES ASSUME NEW o \in Owed, Traceable(o) PROVE Cardinality(Makeups(o)) <= 1
  BY DEF LiveMakeupIsOne
<1>0. LinkedFamily(o) /\ Known(o) /\ o \notin split
  BY DEF FamilyInv, Traceable
<1>1. ASSUME NEW l \in Makeups(o), NEW x \in Makeups(o) PROVE l = x
  <2>0. PICK a \in Starting(o) : Leads(o, a, l)
    BY <1>0 DEF Known
  <2>1. Leads(o, a, l) /\ Leads(o, a, x) /\ Takes(l) /\ Takes(x)
    <3>1. PICK b \in Starting(o) : Leads(o, b, x)
      BY <1>0 DEF Known
    <3>2. a = b
      BY StartIsOne
    <3> QED
      BY <2>0, <3>1, <3>2 DEF Makeups
  <2>2. PICK k \in Nat : \E f : Path(o, k, f) /\ f[0] = a /\ f[k] = l
    BY <2>1 DEF Leads
  <2>3. PICK f : Path(o, k, f) /\ f[0] = a /\ f[k] = l
    BY <2>2
  <2>4. PICK m \in Nat : \E g : Path(o, m, g) /\ g[0] = a /\ g[m] = x
    BY <2>1 DEF Leads
  <2>5. PICK g : Path(o, m, g) /\ g[0] = a /\ g[m] = x
    BY <2>4
  <2>6. CASE k <= m
    <3>1. f[k] = g[m]
      BY <1>0, <2>1, <2>3, <2>5, <2>6, PathsMeet
    <3> QED
      BY <2>3, <2>5, <3>1
  <2>7. CASE m <= k
    <3>1. g[m] = f[k]
      BY <1>0, <2>1, <2>3, <2>5, <2>7, PathsMeet
    <3> QED
      BY <2>3, <2>5, <3>1
  <2> QED
    BY <2>6, <2>7
<1>2. CASE Makeups(o) = {}
  <2>1. Cardinality(Makeups(o)) = 0
    BY <1>2, FS_EmptySet
  <2> QED
    BY <2>1
<1>3. CASE Makeups(o) # {}
  <2>1. PICK l \in Makeups(o) : TRUE
    BY <1>3
  <2>2. Makeups(o) = {l}
    BY <1>1, <2>1
  <2>3. Cardinality(Makeups(o)) = 1
    BY <2>2, FS_Singleton
  <2> QED
    BY <2>3
<1> QED
  BY <1>2, <1>3
-----------------------------------------------------------------------------
(* The sections.                                                           *)

\* What the methods that serve an obligation leave to the others.
OthersGoOn(t) == \A u \in Tasks \ {t} : task'[u] = task[u]
OwedStay == \A o \in Owed : debts[o].status # "none" => debts'[o].status # "none"

LEMMA TaskIsSet ==
  ASSUME TasksRecall, NEW t \in Tasks, NEW m, Then(t, m)
  PROVE  OthersGoOn(t) /\ task'[t] = m
  BY DEF TasksRecall, Then, OthersGoOn

\* No section changes, and nobody comes to wait.
LEMMA QueueStands ==
  ASSUME QueueInv, TasksRecall, UNCHANGED <<section, madeFor>>, split' \subseteq Owed, OwedStay, NoneIsTried',
         \A t \in Tasks : \/ task'[t] = task[t] \/ task'[t].op \in {"rest", "move", "register"}
  PROVE  QueueInv'
<1>1. QueuesAreTyped'
  BY DEF QueueInv, QueuesAreTyped
<1>2. ASSUME NEW t \in Tasks PROVE Waits(t)'
  <2>0. Waits(t)
    BY DEF QueueInv
  <2>1. CASE task'[t].op \in {"rest", "move", "register"}
    BY <2>1 DEF Waits, Did
  <2>2. CASE task'[t] = task[t]
    <3>1. Did(t, "append") => task[t].id \in Owed
      BY DEF TasksRecall, Sound, Did
    <3> QED
      BY <2>0, <2>2, <3>1 DEF Waits, Did, InSection, OwedStay
  <2> QED
    BY <2>1, <2>2
<1> QED
  BY <1>1, <1>2 DEF QueueInv

\* A method comes to wait at the end.
LEMMA QueueGrows ==
  ASSUME QueueInv, TasksRecall, NEW t \in Tasks, NEW op, NEW s, serializeBooking(t, op, s),
         op \in {"schedule", "complete"}
  PROVE  QueueInv'
<1>1. PICK o \in Owed : /\ Then(t, Remembers(op, o, s, <<>>)) /\ Resting(t)
                        /\ section' = [section EXCEPT ![o] = Append(@, t)]
  BY DEF serializeBooking, Starts
<1>2. OthersGoOn(t) /\ task'[t].op = op /\ task'[t].id = o
  BY <1>1, TaskIsSet DEF Remembers
<1>3. PICK q \in Seq(Tasks) : q = section[o]
  BY DEF QueueInv, QueuesAreTyped
<1>4. section'[o] = Append(q, t) /\ \A x \in Owed \ {o} : section'[x] = section[x]
  BY <1>1, <1>3 DEF QueueInv, QueuesAreTyped
<1>5. /\ Append(q, t) \in Seq(Tasks) /\ Len(Append(q, t)) = Len(q) + 1 /\ Append(q, t)[Len(q) + 1] = t
      /\ \A n \in 1..Len(q) : Append(q, t)[n] = q[n]
      /\ Len(q) \in Nat /\ DOMAIN q = 1..Len(q)
  BY AppendProperties, LenProperties
<1>6. DOMAIN Append(q, t) = 1..(Len(q) + 1)
  BY <1>5, LenProperties
<1>7. section' \in [Owed -> Seq(Tasks)]
  BY <1>1, <1>3, <1>5 DEF QueueInv, QueuesAreTyped
<1>8. QueuesAreTyped' /\ NoneIsTried'
  BY <1>7 DEF QueueInv, QueuesAreTyped, NoneIsTried, serializeBooking
<1>9. ASSUME NEW u \in Tasks, u # t PROVE Waits(u)'
  <2>0. Waits(u) /\ task'[u] = task[u] /\ debts' = debts
    BY <1>2, <1>9 DEF QueueInv, OthersGoOn, serializeBooking
  <2>1. PICK x : x = task[u].id
    OBVIOUS
  <2>2. task[u].op \in {"schedule", "append", "complete"} => x \in Owed
    BY <2>1 DEF TasksRecall, Sound
  <2>3. CASE x # o \/ task[u].op \notin {"schedule", "append", "complete"}
    BY <1>4, <2>0, <2>1, <2>2, <2>3 DEF Waits, Did, InSection
  <2>4. CASE x = o /\ task[u].op \in {"schedule", "append", "complete"}
    <3>1. PICK n \in DOMAIN q : q[n] = u
      BY <1>3, <2>0, <2>1, <2>4 DEF Waits
    <3>2. n \in DOMAIN Append(q, t) /\ Append(q, t)[n] = u
      BY <1>5, <1>6, <3>1
    <3>3. Did(u, "append") => Head(Append(q, t)) = u
      <4>1. Did(u, "append") => Head(q) = u
        BY <1>3, <2>0, <2>1, <2>4 DEF Waits, InSection
      <4>2. 1 \in 1..Len(q) /\ Append(q, t)[1] = q[1]
        BY <1>5, <3>1
      <4>3. Head(Append(q, t)) = Append(q, t)[1] /\ Head(q) = q[1]
        OBVIOUS
      <4> QED
        BY <4>1, <4>2, <4>3
    <3> QED
      BY <1>4, <2>0, <2>1, <2>4, <3>2, <3>3 DEF Waits, Did, InSection
  <2> QED
    BY <2>3, <2>4
<1>10. Waits(t)'
  <2>1. Len(q) + 1 \in DOMAIN Append(q, t)
    BY <1>5, <1>6
  <2> QED
    BY <1>2, <1>4, <1>5, <2>1 DEF Waits, Did
<1> QED
  BY <1>8, <1>9, <1>10 DEF QueueInv

\* The first of a section leaves it.
LEMMA QueueShrinks ==
  ASSUME QueueInv, TasksRecall, NEW t \in Tasks, task[t].op \in {"schedule", "append", "complete"},
         InSection(t), Ends(t), Leave(t), OwedStay, NoneIsTried', UNCHANGED <<madeFor, split>>
  PROVE  QueueInv' /\ \A u \in Tasks : Did(u, "append") /\ task[u].id = task[t].id => u = t
<1>1. PICK o \in Owed : o = task[t].id
  BY DEF TasksRecall, Sound
<1>2. OthersGoOn(t) /\ task'[t].op = "rest"
  BY TaskIsSet DEF Ends, Rest
<1>3. PICK q \in Seq(Tasks) : q = section[o]
  BY DEF QueueInv, QueuesAreTyped
<1>4. section'[o] = Tail(q) /\ \A x \in Owed \ {o} : section'[x] = section[x]
  BY <1>1, <1>3 DEF Leave, QueueInv, QueuesAreTyped
<1>5. Head(q) = t /\ q[1] = t
  BY <1>1, <1>3 DEF InSection
<1>6. q # <<>> /\ Len(q) \in Nat /\ DOMAIN q = 1..Len(q)
  <2>1. PICK n \in DOMAIN q : q[n] = t
    BY <1>1, <1>3 DEF QueueInv, Waits
  <2> QED
    BY <2>1, LenProperties
<1>7. Tail(q) \in Seq(Tasks) /\ Len(Tail(q)) = Len(q) - 1 /\ \A n \in 1..Len(Tail(q)) : Tail(q)[n] = q[n + 1]
  BY <1>6, HeadTailProperties
<1>8. section' \in [Owed -> Seq(Tasks)]
  BY <1>1, <1>3, <1>7 DEF Leave, QueueInv, QueuesAreTyped
<1>9. QueuesAreTyped' /\ NoneIsTried'
  BY <1>8 DEF QueueInv, QueuesAreTyped
<1>10. ASSUME NEW u \in Tasks, Did(u, "append"), task[u].id = o PROVE u = t
  BY <1>3, <1>5, <1>10 DEF QueueInv, Waits, InSection
<1>11. ASSUME NEW u \in Tasks, u # t PROVE Waits(u)'
  <2>0. Waits(u) /\ task'[u] = task[u]
    BY <1>2, <1>11 DEF QueueInv, OthersGoOn
  <2>1. PICK x : x = task[u].id
    OBVIOUS
  <2>2. task[u].op \in {"schedule", "append", "complete"} => x \in Owed
    BY <2>1 DEF TasksRecall, Sound
  <2>3. CASE x # o \/ task[u].op \notin {"schedule", "append", "complete"}
    BY <1>4, <2>0, <2>1, <2>2, <2>3 DEF Waits, Did, InSection, OwedStay
  <2>4. CASE x = o /\ task[u].op \in {"schedule", "append", "complete"}
    <3>1. PICK n \in DOMAIN q : q[n] = u
      BY <1>3, <2>0, <2>1, <2>4 DEF Waits
    <3>2. n # 1 /\ n - 1 \in 1..Len(Tail(q)) /\ Tail(q)[n - 1] = u
      <4>1. n # 1
        BY <1>5, <1>11, <3>1
      <4>2. n \in 1..Len(q) /\ n - 1 \in 1..(Len(q) - 1) /\ (n - 1) + 1 = n
        BY <1>6, <3>1, <4>1
      <4> QED
        BY <1>7, <3>1, <4>1, <4>2
    <3>3. n - 1 \in DOMAIN Tail(q)
      BY <1>7, <3>2, LenProperties
    <3>4. ~Did(u, "append")
      BY <1>10, <1>11, <2>1, <2>4
    <3> QED
      BY <1>4, <2>0, <2>1, <2>4, <3>2, <3>3, <3>4 DEF Waits, Did
  <2> QED
    BY <2>3, <2>4
<1>12. Waits(t)'
  BY <1>2 DEF Waits, Did
<1> QED
  BY <1>1, <1>9, <1>10, <1>11, <1>12 DEF QueueInv

\* The first of a section has booked.
LEMMA QueueBooks ==
  ASSUME QueueInv, TasksRecall, NEW t \in Tasks, Did(t, "schedule"), InSection(t),
         NEW m, m.op = "append", m.id = task[t].id, Then(t, m), debts' = debts, section' = section,
         debts[task[t].id].status # "none",
         madeFor' \in [Lessons -> Owed \cup {NoLesson}], split' = split
  PROVE  QueueInv' /\ \A u \in Tasks : Did(u, "append") => task[u].id # task[t].id
<1>1. OthersGoOn(t) /\ task'[t] = m
  BY TaskIsSet
<1>2. QueuesAreTyped' /\ NoneIsTried'
  BY DEF QueueInv, QueuesAreTyped, NoneIsTried
<1>3. \A u \in Tasks \ {t} : Waits(u)'
  BY <1>1 DEF QueueInv, Waits, OthersGoOn, Did, InSection
<1>4. Waits(t) /\ task[t].op = "schedule"
  BY DEF QueueInv, Did
<1>5. Waits(t)'
  BY <1>1, <1>4 DEF Waits, Did, InSection
<1>6. ASSUME NEW u \in Tasks, Did(u, "append"), task[u].id = task[t].id PROVE FALSE
  <2>1. InSection(u)
    BY <1>6 DEF QueueInv, Waits
  <2>2. u = t
    BY <1>6, <2>1 DEF InSection
  <2> QED
    BY <1>6, <2>2 DEF Did
<1> QED
  BY <1>2, <1>3, <1>5, <1>6 DEF QueueInv
-----------------------------------------------------------------------------
(* What a step does to a family.                                           *)

\* No row of the family gets or loses a link, and no other comes to name one.
KeepsFamily(o) ==
  /\ Family(o)' = Family(o)
  /\ \A k \in Lessons : lessons[k] # Unborn => lessons'[k] # Unborn
  /\ \A k \in Lessons : Stored(k)' =>
       \/ /\ Stored(k) /\ lessons'[k].from = lessons[k].from
          /\ k \in Family(o) => /\ lessons'[k].to = lessons[k].to
                                /\ lessons'[k].status \in {lessons[k].status, "cancelled"}
       \/ k \notin Family(o) /\ lessons'[k].from \notin Family(o)

\* i was moved, and j is its one successor, made for the same obligation.
MovedOn(i, j) ==
  /\ i \in Lessons /\ j \in Drawn /\ j \in Lessons /\ i # j
  /\ Takes(i) /\ lessons[j] = Unborn /\ Stored(j)' /\ Stored(i)' /\ lessons'[i].status = "cancelled"
  /\ lessons'[j].from = i /\ lessons'[j].to = NoLesson
  /\ lessons'[i].from = lessons[i].from /\ lessons'[i].to = j
  /\ \A k \in Lessons \ {i, j} : lessons'[k] = lessons[k]
  /\ madeFor'[j] = madeFor[i]
  /\ \A k \in Lessons \ {j} : madeFor'[k] = madeFor[k]

LEMMA RemovedIsNot ==
  ASSUME NEW i, lessons[i] = Removed
  PROVE  ~Stored(i) /\ lessons[i] # Unborn /\ ~Takes(i)
  BY DEF Stored, Removed, Unborn, Takes

LEMMA RemovedAfter ==
  ASSUME RowsAreTyped', NEW i \in Lessons, ~Stored(i)', lessons'[i] # Unborn
  PROVE  lessons'[i] = Removed /\ ~Takes(i)'
<1>1. lessons'[i] \in RowStates
  BY DEF RowsAreTyped
<1> QED
  BY <1>1 DEF RowStates, Row, Stored, Takes

\* A forward link and a bridge name the same session.
LEMMA OnwardIsLinked ==
  ASSUME NEW o, LinkedFamily(o), o \notin split, NEW y \in Family(o), NEW z \in Lessons, Onward(y) = {z},
         TimetableAssumption
  PROVE  /\ Stored(y) => lessons[y].to = z
         /\ ~Takes(y)
         /\ Stored(z) => lessons[z].from = y
         /\ \A j \in Lessons : Stored(j) /\ lessons[j].from = y => j = z
<1>0. ~Takes(y) /\ z # NoLesson
  BY LiveIsLast, NothingIsNoLesson
<1>1. \A j \in Lessons : Stored(j) /\ lessons[j].from = y => (Stored(y) => lessons[y].to = j)
  BY DEF LinkedFamily
<1>2. CASE Stored(y) /\ lessons[y].to # NoLesson
  <2>1. lessons[y].to = z
    BY <1>2 DEF Onward
  <2>2. Stored(z) => lessons[z].from = y
    BY <1>2, <2>1 DEF LinkedFamily
  <2> QED
    BY <1>0, <1>1, <1>2, <2>1, <2>2
<1>3. CASE ~(Stored(y) /\ lessons[y].to # NoLesson)
  <2>1. {j \in Lessons : Stored(j) /\ lessons[j].from = y} = {z}
    BY <1>0, <1>3 DEF Onward
  <2>2. Stored(z) /\ lessons[z].from = y
    BY <2>1
  <2>3. ~Stored(y)
    BY <1>0, <1>1, <1>3, <2>2
  <2> QED
    BY <1>0, <2>1, <2>2, <2>3
<1> QED
  BY <1>2, <1>3

\* So the family keeps a link as long as one of its two ends is there.
LEMMA LinkStays ==
  ASSUME NEW o, LinkedFamily(o), BookedFamily(o), o \notin split, KeepsFamily(o), RowsAreTyped',
         NEW y \in Family(o), NEW z \in Family(o), Onward(y) = {z},
         ~(lessons'[y] = Removed /\ lessons'[z] = Removed)
  PROVE  Onward(y)' = {z}
<1>0. /\ y \in Lessons /\ z \in Lessons /\ z # NoLesson
      /\ lessons'[y] # Unborn /\ lessons'[z] # Unborn
  BY NothingIsNoLesson, TimetableAssumption DEF BookedFamily, KeepsFamily, Family
<1>1. /\ Stored(y) => lessons[y].to = z
      /\ ~Takes(y)
      /\ Stored(z) => lessons[z].from = y
      /\ \A j \in Lessons : Stored(j) /\ lessons[j].from = y => j = z
  BY <1>0, OnwardIsLinked, TimetableAssumption
<1>2. CASE Stored(y)'
  <2>1. Stored(y) /\ lessons'[y].to = lessons[y].to
    BY <1>0, <1>2 DEF KeepsFamily
  <2> QED
    BY <1>0, <1>1, <1>2, <2>1 DEF Onward
<1>3. CASE ~Stored(y)'
  <2>1. lessons'[y] = Removed /\ ~Takes(y)'
    BY <1>0, <1>3, RemovedAfter
  <2>2. Stored(z)'
    BY <1>0, <2>1, RemovedAfter
  <2>3. lessons'[z].from = y
    BY <1>0, <1>1, <2>2 DEF KeepsFamily
  <2>4. \A j \in Lessons : Stored(j)' /\ lessons'[j].from = y => j = z
    BY <1>1 DEF KeepsFamily
  <2>5. Onward(y)' = {j \in Lessons : Stored(j)' /\ lessons'[j].from = y}
    BY <1>3, <2>1 DEF Onward
  <2> QED
    BY <1>0, <2>2, <2>3, <2>4, <2>5
<1> QED
  BY <1>2, <1>3

\* Two of a traceable family are not both deleted.
LEMMA OneRemoved ==
  ASSUME NEW o, IsFiniteSet(Family(o)'), Traceable(o)', NEW y \in Family(o)', NEW z \in Family(o)',
         lessons'[y] = Removed, lessons'[z] = Removed
  PROVE  y = z
<1> DEFINE D == {i \in Family(o)' : lessons'[i] = Removed}
<1>1. y \in D /\ z \in D
  OBVIOUS
<1>2. IsFiniteSet(D) /\ Cardinality(D) < 2
  <2>1. D \subseteq Family(o)'
    OBVIOUS
  <2>2. IsFiniteSet(D)
    BY <2>1, FS_Subset
  <2> QED
    BY <2>2 DEF Traceable
<1> HIDE DEF D
<1>3. Cardinality({y, z}) <= Cardinality(D) /\ Cardinality(D) \in Nat /\ Cardinality({y, z}) \in Nat
  <2>1. {y, z} \subseteq D
    BY <1>1
  <2>2. IsFiniteSet({y, z}) /\ Cardinality({y, z}) <= Cardinality(D)
    BY <1>2, <2>1, FS_Subset
  <2> QED
    BY <1>2, <2>2, FS_CardinalityType
<1>4. y # z => Cardinality({y, z}) = 2
  <2> SUFFICES ASSUME y # z PROVE Cardinality({y, z}) = 2
    OBVIOUS
  <2>1. IsFiniteSet({y}) /\ Cardinality({y}) = 1
    BY FS_Singleton
  <2>2. Cardinality({y} \cup {z}) = Cardinality({y}) + 1
    BY <2>1, FS_AddElement
  <2>3. {y, z} = {y} \cup {z}
    OBVIOUS
  <2> QED
    BY <2>1, <2>2, <2>3
<1> QED
  BY <1>2, <1>3, <1>4

\* A smaller family is as traceable.
LEMMA TraceableBefore ==
  ASSUME NEW o, IsFiniteSet(Family(o)'), Traceable(o)', Family(o) \subseteq Family(o)', split \subseteq split',
         \A i \in Family(o) : lessons[i] = Removed => lessons'[i] = Removed
  PROVE  Traceable(o)
<1> DEFINE D == {i \in Family(o) : lessons[i] = Removed}
           E == {i \in Family(o)' : lessons'[i] = Removed}
<1>1. Cardinality(E) < 2 /\ Cardinality(Family(o)') <= MAX_MOVES + 1 /\ o \notin split
  BY DEF Traceable
<1>2. D \subseteq E /\ E \subseteq Family(o)'
  OBVIOUS
<1>3. IsFiniteSet(E)
  BY <1>2, FS_Subset
<1> HIDE DEF D, E
<1>4. IsFiniteSet(D) /\ Cardinality(D) <= Cardinality(E)
  BY <1>2, <1>3, FS_Subset
<1>5. IsFiniteSet(Family(o)) /\ Cardinality(Family(o)) <= Cardinality(Family(o)')
  BY FS_Subset
<1>6. /\ Cardinality(D) \in Nat /\ Cardinality(E) \in Nat
      /\ Cardinality(Family(o)) \in Nat /\ Cardinality(Family(o)') \in Nat
  BY <1>3, <1>4, <1>5, FS_CardinalityType
<1>7. Cardinality(D) < 2 /\ Cardinality(Family(o)) <= MAX_MOVES + 1
  BY <1>1, <1>4, <1>5, <1>6, TimetableAssumption DEF TimetableAssumption
<1> QED
  BY <1>1, <1>7 DEF D, Traceable

\* A path stays one when its links do and its family only grows.
LEMMA PathStays ==
  ASSUME NEW o, NEW k \in Nat, NEW f, Path(o, k, f), Family(o) \subseteq Family(o)',
         \A y, z \in Family(o) : y # z /\ Onward(y) = {z} => Onward(y)' = {z}
  PROVE  Path(o, k, f)'
<1>1. /\ f \in [0..k -> Family(o)]
      /\ \A m, n \in 0..k : f[m] = f[n] => m = n
      /\ \A n \in 0..(k - 1) : Onward(f[n]) = {f[n + 1]}
  BY DEF Path
<1>2. f \in [0..k -> Family(o)']
  BY <1>1
<1>3. ASSUME NEW n \in 0..(k - 1) PROVE Onward(f[n])' = {f[n + 1]}
  <2>1. n \in 0..k /\ n + 1 \in 0..k /\ n # n + 1
    OBVIOUS
  <2>2. f[n] \in Family(o) /\ f[n + 1] \in Family(o) /\ f[n] # f[n + 1]
    BY <1>1, <2>1
  <2>3. Onward(f[n]) = {f[n + 1]}
    BY <1>1
  <2> QED
    BY <2>2, <2>3
<1> QED
  BY <1>1, <1>2, <1>3 DEF Path

LEMMA LeadsStay ==
  ASSUME NEW o, NEW a, NEW l, Leads(o, a, l), Family(o) \subseteq Family(o)',
         \A y, z \in Family(o) : y # z /\ Onward(y) = {z} => Onward(y)' = {z}
  PROVE  Leads(o, a, l)'
<1>1. PICK k \in Nat : \E f : Path(o, k, f) /\ f[0] = a /\ f[k] = l
  BY DEF Leads
<1>2. PICK f : Path(o, k, f) /\ f[0] = a /\ f[k] = l
  BY <1>1
<1>3. Path(o, k, f)'
  BY <1>2, PathStays
<1> QED
  BY <1>2, <1>3 DEF Leads

\* A step that moves nothing of a family leaves its make-ups known.
LEMMA FamilyStays ==
  ASSUME RowsAreTyped', NEW o \in Owed, BookedFamily(o), LinkedFamily(o), Known(o),
         KeepsFamily(o), split \subseteq split', Starting(o)' = Starting(o)
  PROVE  BookedFamily(o)' /\ LinkedFamily(o)' /\ Known(o)'
<1>1. \A i \in Family(o) : i \in Lessons /\ i \in Drawn /\ lessons[i] # Unborn /\ lessons'[i] # Unborn
  BY DEF BookedFamily, Family, KeepsFamily
<1>2. BookedFamily(o)'
  BY <1>1 DEF BookedFamily, KeepsFamily
<1>f. \A k \in Family(o) : Stored(k)' =>
        /\ Stored(k) /\ lessons'[k].from = lessons[k].from /\ lessons'[k].to = lessons[k].to
        /\ lessons'[k].status \in {lessons[k].status, "cancelled"}
  BY <1>1 DEF KeepsFamily
<1>l. ASSUME o \notin split', NEW y \in Family(o)
      PROVE  /\ \A z : Stored(y)' /\ lessons'[y].to = z /\ z # NoLesson =>
                  /\ z \in Family(o) /\ lessons'[y].status = "cancelled"
                  /\ Stored(z)' => lessons'[z].from = y
             /\ \A j \in Lessons : Stored(j)' /\ lessons'[j].from = y =>
                  j \in Family(o) /\ (Stored(y)' => lessons'[y].to = j)
  <2>0. /\ Stored(y) /\ lessons[y].to # NoLesson =>
             /\ lessons[y].to \in Family(o) /\ lessons[y].status = "cancelled"
             /\ Stored(lessons[y].to) => lessons[lessons[y].to].from = y
        /\ \A j \in Lessons : Stored(j) /\ lessons[j].from = y =>
             j \in Family(o) /\ (Stored(y) => lessons[y].to = j)
    BY <1>l DEF LinkedFamily
  <2>1. ASSUME NEW z, Stored(y)', lessons'[y].to = z, z # NoLesson
        PROVE  /\ z \in Family(o) /\ lessons'[y].status = "cancelled"
               /\ Stored(z)' => lessons'[z].from = y
    <3>1. Stored(y) /\ lessons[y].to = z /\ z \in Family(o) /\ lessons'[y].status = "cancelled"
      BY <1>f, <2>0, <2>1
    <3>2. Stored(z)' => lessons'[z].from = y
      BY <1>f, <2>0, <2>1, <3>1
    <3> QED
      BY <3>1, <3>2
  <2>2. ASSUME NEW j \in Lessons, Stored(j)', lessons'[j].from = y
        PROVE  j \in Family(o) /\ (Stored(y)' => lessons'[y].to = j)
    <3>1. Stored(j) /\ lessons[j].from = y
      BY <2>2 DEF KeepsFamily
    <3> QED
      BY <1>f, <2>0, <3>1
  <2> QED
    BY <2>1, <2>2
<1>3. LinkedFamily(o)'
  BY <1>l DEF LinkedFamily, KeepsFamily, Stored
<1>4. \A i \in Family(o) : lessons[i] = Removed => lessons'[i] = Removed
  BY <1>1, <1>f, RemovedIsNot, RemovedAfter
<1>5. Traceable(o)' => Traceable(o)
  BY <1>2, <1>4, TraceableBefore DEF BookedFamily, KeepsFamily
<1>6. Makeups(o)' \subseteq Makeups(o)
  <2> SUFFICES ASSUME NEW l \in Makeups(o)' PROVE l \in Makeups(o)
    OBVIOUS
  <2>1. l \in Family(o) /\ Takes(l)' /\ Stored(l)'
    BY DEF Makeups, Takes, Stored, KeepsFamily
  <2>2. Takes(l)
    BY <1>f, <2>1 DEF Takes
  <2> QED
    BY <2>1, <2>2 DEF Makeups
<1>7. Known(o)'
  <2> SUFFICES ASSUME Traceable(o)', NEW l \in Makeups(o)'
               PROVE  \E a \in Starting(o)' : Leads(o, a, l)'
    BY DEF Known
  <2>1. PICK a \in Starting(o) : Leads(o, a, l)
    BY <1>5, <1>6 DEF Known
  <2>2. ASSUME NEW y \in Family(o), NEW z \in Family(o), y # z, Onward(y) = {z}
        PROVE  Onward(y)' = {z}
    <3>1. ~(lessons'[y] = Removed /\ lessons'[z] = Removed)
      BY <1>2, <2>2, OneRemoved DEF BookedFamily, KeepsFamily
    <3>2. o \notin split
      BY <1>5 DEF Traceable
    <3> QED
      BY <2>2, <3>1, <3>2, LinkStays
  <2>3. Leads(o, a, l)'
    BY <2>1, <2>2, LeadsStay DEF KeepsFamily
  <2> QED
    BY <2>1, <2>3
<1> QED
  BY <1>2, <1>3, <1>7
-----------------------------------------------------------------------------
(* A move.                                                                 *)

LEMMA MoveJoinsFamily ==
  ASSUME NEW i, NEW j, MovedOn(i, j), NEW o \in Owed, BookedFamily(o), madeFor[i] = o, split' = split
  PROVE  /\ j \notin Family(o) /\ Family(o)' = Family(o) \cup {j} /\ i \in Family(o)
         /\ BookedFamily(o)'
         /\ Traceable(o)' => Traceable(o)
<1>1. j \notin Family(o)
  BY DEF BookedFamily, MovedOn
<1>2. Family(o)' = Family(o) \cup {j} /\ i \in Family(o)
  BY <1>1 DEF Family, MovedOn
<1>3. IsFiniteSet(Family(o)')
  <2>1. IsFiniteSet(Family(o)) /\ IsFiniteSet(Family(o) \cup {j})
    BY FS_AddElement DEF BookedFamily
  <2> QED
    BY <1>2, <2>1
<1>4. ASSUME NEW k \in Family(o)' PROVE k \in Drawn /\ lessons'[k] # Unborn
  <2>1. CASE k \in {i, j}
    BY <1>2, <2>1 DEF BookedFamily, MovedOn, Stored, Unborn
  <2>2. CASE k \notin {i, j}
    <3>1. k \in Family(o) /\ k \in Lessons /\ lessons'[k] = lessons[k]
      BY <1>2, <1>4, <2>2 DEF MovedOn, Family
    <3> QED
      BY <3>1 DEF BookedFamily
  <2> QED
    BY <2>1, <2>2
<1>5. \A k \in Family(o) : lessons[k] = Removed => lessons'[k] = Removed
  BY <1>1 DEF MovedOn, Takes, Removed, Family
<1>6. Traceable(o)' => Traceable(o)
  BY <1>2, <1>3, <1>5, TraceableBefore
<1> QED
  BY <1>1, <1>2, <1>3, <1>4, <1>6 DEF BookedFamily

\* The moved session had no successor, and the new one is nobody's origin.
LEMMA MoveKeepsLinks ==
  ASSUME NEW i, NEW j, MovedOn(i, j), NEW o \in Owed, BookedFamily(o), LinkedFamily(o), madeFor[i] = o,
         split' = split, OriginsAreBorn
  PROVE  /\ LinkedFamily(o)'
         /\ o \notin split =>
              /\ Onward(i)' = {j}
              /\ \A y, z \in Family(o) : y # z /\ Onward(y) = {z} => Onward(y)' = {z}
<1> SUFFICES ASSUME o \notin split
             PROVE  /\ LinkedFamily(o)'
                    /\ Onward(i)' = {j}
                    /\ \A y, z \in Family(o) : y # z /\ Onward(y) = {z} => Onward(y)' = {z}
  BY DEF LinkedFamily
<1>0. /\ j \notin Family(o) /\ Family(o)' = Family(o) \cup {j} /\ i \in Family(o)
      /\ \A y \in Family(o) : y \in Lessons
      /\ i \in Lessons /\ j \in Lessons /\ i # j /\ NoLesson \notin Lessons
  BY MoveJoinsFamily, NothingIsNoLesson, TimetableAssumption DEF MovedOn, Family
<1>i. Stored(i) /\ lessons[i].to = NoLesson /\ \A k \in Lessons : ~(Stored(k) /\ lessons[k].from = i)
  <2>1. Stored(i) /\ lessons[i].to = NoLesson
    BY <1>0, LiveIsLast DEF MovedOn
  <2> QED
    BY <1>0, <2>1 DEF LinkedFamily
<1>j. ~Stored(j) /\ \A k \in Lessons : ~(Stored(k) /\ lessons[k].from = j)
  BY <1>0 DEF OriginsAreBorn, MovedOn, Stored, Unborn
<1>n. /\ Stored(i)' /\ lessons'[i].from = lessons[i].from /\ lessons'[i].to = j /\ lessons'[i].status = "cancelled"
      /\ Stored(j)' /\ lessons'[j].from = i /\ lessons'[j].to = NoLesson
      /\ \A k \in Lessons \ {i, j} : lessons'[k] = lessons[k] /\ (Stored(k)' <=> Stored(k)) /\ (Takes(k)' <=> Takes(k))
  BY DEF MovedOn, Stored, Takes
<1>b. \A y : \A k \in Lessons : k # j => ((Stored(k)' /\ lessons'[k].from = y) <=> (Stored(k) /\ lessons[k].from = y))
  BY <1>i, <1>n
<1>1. Onward(i)' = {j}
  BY <1>0, <1>n DEF Onward
<1>2. ASSUME NEW y \in Family(o), NEW z \in Family(o), y # z, Onward(y) = {z}
      PROVE  Onward(y)' = {z}
  <2>1. y \in Lessons /\ z \in Lessons /\ y # j /\ z # NoLesson
    BY <1>0
  <2>2. y # i
    BY <1>2, LiveIsLast DEF MovedOn
  <2>3. (Stored(y) => lessons[y].to = z) /\ ~Takes(y)
    BY <1>2, <2>1, OnwardIsLinked, TimetableAssumption
  <2>4. lessons'[y] = lessons[y] /\ (Stored(y)' <=> Stored(y)) /\ ~Takes(y)'
    BY <1>n, <2>1, <2>2, <2>3
  <2>5. CASE Stored(y)
    BY <2>1, <2>3, <2>4, <2>5 DEF Onward
  <2>6. CASE ~Stored(y)
    <3>1. {k \in Lessons : Stored(k) /\ lessons[k].from = y} = {z}
      BY <1>2, <2>3, <2>6 DEF Onward
    <3>2. \A k \in Lessons : (Stored(k)' /\ lessons'[k].from = y) <=> (Stored(k) /\ lessons[k].from = y)
      BY <1>b, <1>j, <1>n, <2>2
    <3>3. Onward(y)' = {k \in Lessons : Stored(k)' /\ lessons'[k].from = y}
      BY <2>4, <2>6 DEF Onward
    <3> QED
      BY <3>1, <3>2, <3>3
  <2> QED
    BY <2>5, <2>6
<1>3. ASSUME NEW y \in Family(o)'
      PROVE  /\ \A z : Stored(y)' /\ lessons'[y].to = z /\ z # NoLesson =>
                  /\ z \in Family(o)' /\ lessons'[y].status = "cancelled"
                  /\ Stored(z)' => lessons'[z].from = y
             /\ \A k \in Lessons : Stored(k)' /\ lessons'[k].from = y =>
                  k \in Family(o)' /\ (Stored(y)' => lessons'[y].to = k)
  <2>1. CASE y = i
    <3>1. \A k \in Lessons : Stored(k)' /\ lessons'[k].from = i => k = j
      BY <1>b, <1>i
    <3> QED
      BY <1>0, <1>n, <2>1, <3>1
  <2>2. CASE y = j
    <3>1. \A k \in Lessons : ~(Stored(k)' /\ lessons'[k].from = j)
      BY <1>0, <1>b, <1>j, <1>n
    <3> QED
      BY <1>n, <2>2, <3>1
  <2>3. CASE y \notin {i, j}
    <3>0. y \in Family(o) /\ y \in Lessons /\ lessons'[y] = lessons[y] /\ (Stored(y)' <=> Stored(y))
      BY <1>0, <1>3, <1>n, <2>3
    <3>1. /\ Stored(y) /\ lessons[y].to # NoLesson =>
               /\ lessons[y].to \in Family(o) /\ lessons[y].status = "cancelled"
               /\ Stored(lessons[y].to) => lessons[lessons[y].to].from = y
          /\ \A k \in Lessons : Stored(k) /\ lessons[k].from = y =>
               k \in Family(o) /\ (Stored(y) => lessons[y].to = k)
      BY <3>0 DEF LinkedFamily
    <3>2. ASSUME NEW z, Stored(y)', lessons'[y].to = z, z # NoLesson
          PROVE  /\ z \in Family(o)' /\ lessons'[y].status = "cancelled"
                 /\ Stored(z)' => lessons'[z].from = y
      <4>1. Stored(y) /\ lessons[y].to = z /\ z \in Family(o) /\ z \in Lessons /\ z # j
        BY <1>0, <3>0, <3>1, <3>2
      <4>2. Stored(z)' => Stored(z) /\ lessons'[z].from = lessons[z].from
        BY <1>b, <4>1
      <4> QED
        BY <1>0, <3>0, <3>1, <4>1, <4>2
    <3>3. ASSUME NEW k \in Lessons, Stored(k)', lessons'[k].from = y
          PROVE  k \in Family(o)' /\ (Stored(y)' => lessons'[y].to = k)
      <4>1. k # j
        BY <1>n, <2>3, <3>3
      <4>2. Stored(k) /\ lessons[k].from = y
        BY <1>b, <3>3, <4>1
      <4> QED
        BY <1>0, <3>0, <3>1, <4>2
    <3> QED
      BY <3>2, <3>3
  <2> QED
    BY <2>1, <2>2, <2>3
<1>4. LinkedFamily(o)'
  BY <1>3 DEF LinkedFamily, Stored
<1> QED
  BY <1>1, <1>2, <1>4

\* The path to the moved session goes on to its successor.
LEMMA MoveIsKnown ==
  ASSUME NEW i, NEW j, MovedOn(i, j), NEW o \in Owed, BookedFamily(o), LinkedFamily(o), Known(o),
         madeFor[i] = o, split' = split, OriginsAreBorn, Starting(o)' = Starting(o)
  PROVE  BookedFamily(o)' /\ LinkedFamily(o)' /\ Known(o)'
<1>0. BookedFamily(o)' /\ LinkedFamily(o)'
  BY MoveJoinsFamily, MoveKeepsLinks
<1> SUFFICES ASSUME Traceable(o)', NEW l \in Makeups(o)'
             PROVE  \E a \in Starting(o)' : Leads(o, a, l)'
  BY <1>0 DEF Known
<1>2. j \notin Family(o) /\ Family(o)' = Family(o) \cup {j} /\ i \in Family(o) /\ Traceable(o)
  BY MoveJoinsFamily
<1>1. /\ Onward(i)' = {j}
      /\ \A y, z \in Family(o) : y # z /\ Onward(y) = {z} => Onward(y)' = {z}
  BY <1>2, MoveKeepsLinks DEF Traceable
<1>5. l \in Family(o)' /\ l \in Lessons /\ Takes(l)'
  BY DEF Makeups, Family
<1>6. CASE l = j
  <2>1. i \in Makeups(o)
    BY <1>2 DEF Makeups, MovedOn
  <2>2. PICK a \in Starting(o) : Leads(o, a, i)
    BY <1>2, <2>1 DEF Known
  <2>3. PICK k \in Nat : \E f : Path(o, k, f) /\ f[0] = a /\ f[k] = i
    BY <2>2 DEF Leads
  <2>4. PICK f : Path(o, k, f) /\ f[0] = a /\ f[k] = i
    BY <2>3
  <2>5. Path(o, k, f)'
    BY <1>1, <1>2, <2>4, PathStays
  <2>6. /\ f \in [0..k -> Family(o)'] /\ f \in [0..k -> Family(o)]
        /\ \A m, n \in 0..k : f[m] = f[n] => m = n
        /\ \A n \in 0..(k - 1) : Onward(f[n])' = {f[n + 1]}
    BY <2>4, <2>5 DEF Path
  <2> DEFINE g == [n \in 0..(k + 1) |-> IF n = k + 1 THEN j ELSE f[n]]
  <2>7. g[k + 1] = j /\ \A n \in 0..k : g[n] = f[n]
    OBVIOUS
  <2>8. g \in [0..(k + 1) -> Family(o)']
    <3>1. j \in Family(o)' /\ \A n \in 0..(k + 1) : n # k + 1 => n \in 0..k
      BY <1>2
    <3> QED
      BY <2>6, <3>1
  <2> HIDE DEF g
  <2>9. ASSUME NEW m \in 0..(k + 1), NEW n \in 0..(k + 1), g[m] = g[n] PROVE m = n
    <3>1. \A x \in 0..(k + 1) : x = k + 1 \/ x \in 0..k
      OBVIOUS
    <3>2. \A x \in 0..k : g[x] \in Family(o)
      BY <2>6, <2>7
    <3> QED
      BY <1>2, <2>6, <2>7, <2>9, <3>1, <3>2
  <2>10. ASSUME NEW n \in 0..((k + 1) - 1) PROVE Onward(g[n])' = {g[n + 1]}
    <3>1. CASE n = k
      <4>1. g[n] = i /\ g[n + 1] = j
        BY <2>4, <2>7, <3>1
      <4> QED
        BY <1>1, <4>1
    <3>2. CASE n # k
      <4>1. n \in 0..(k - 1) /\ n \in 0..k /\ n + 1 \in 0..k
        BY <3>2
      <4>2. g[n] = f[n] /\ g[n + 1] = f[n + 1]
        BY <2>7, <4>1
      <4> QED
        BY <2>6, <4>1, <4>2
    <3> QED
      BY <3>1, <3>2
  <2>11. Path(o, k + 1, g)'
    <3>1. \A m, n \in 0..(k + 1) : g[m] = g[n] => m = n
      BY <2>9
    <3>2. \A n \in 0..((k + 1) - 1) : Onward(g[n])' = {g[n + 1]}
      BY <2>10
    <3> QED
      BY <2>8, <3>1, <3>2 DEF Path
  <2>12. g[0] = a /\ g[k + 1] = l /\ k + 1 \in Nat
    BY <1>6, <2>4, <2>7
  <2>13. Leads(o, a, l)'
    BY <2>11, <2>12 DEF Leads
  <2> QED
    BY <2>2, <2>13
<1>7. CASE l # j
  <2>1. l \in Family(o) /\ l # i
    BY <1>2, <1>5, <1>7 DEF MovedOn, Takes
  <2>2. l \in Makeups(o)
    BY <1>5, <1>7, <2>1 DEF Makeups, Takes, MovedOn
  <2>3. PICK a \in Starting(o) : Leads(o, a, l)
    BY <1>2, <2>2 DEF Known
  <2>4. Leads(o, a, l)'
    BY <1>1, <1>2, <2>3, LeadsStay
  <2> QED
    BY <2>3, <2>4
<1> QED
  BY <1>6, <1>7

-----------------------------------------------------------------------------
(* A booking.                                                              *)

\* i is the one session of the family that takes place, and where the walk starts.
LEMMA BookingIsKnown ==
  ASSUME NEW o \in Owed, BookedFamily(o), LinkedFamily(o), OriginsAreBorn, split' = split,
         NEW i \in Lessons, i \in Drawn, lessons[i] = Unborn, Stored(i)',
         lessons'[i].from = NoLesson, lessons'[i].to = NoLesson,
         \A k \in Lessons \ {i} : lessons'[k] = lessons[k],
         madeFor'[i] = o, \A k \in Lessons \ {i} : madeFor'[k] = madeFor[k],
         Traceable(o) => Makeups(o) = {}, Starting(o)' = {i}
  PROVE  BookedFamily(o)' /\ LinkedFamily(o)' /\ Known(o)'
<1>0. /\ i \notin Family(o) /\ Family(o)' = Family(o) \cup {i}
      /\ \A y \in Family(o) : y \in Lessons /\ y # i
      /\ NoLesson \notin Lessons
  <2>1. i \notin Family(o)
    BY DEF BookedFamily
  <2> QED
    BY <2>1, NothingIsNoLesson, TimetableAssumption DEF Family
<1>1. IsFiniteSet(Family(o)')
  <2>1. IsFiniteSet(Family(o)) /\ IsFiniteSet(Family(o) \cup {i})
    BY FS_AddElement DEF BookedFamily
  <2> QED
    BY <1>0, <2>1
<1>2. BookedFamily(o)'
  <2>1. lessons'[i] # Unborn
    BY DEF Stored, Unborn
  <2> QED
    BY <1>0, <1>1, <2>1 DEF BookedFamily
<1>j. ~Stored(i) /\ \A k \in Lessons : ~(Stored(k) /\ lessons[k].from = i)
  BY <1>0 DEF OriginsAreBorn, Stored, Unborn
<1>n. \A k \in Lessons \ {i} : lessons'[k] = lessons[k] /\ (Stored(k)' <=> Stored(k)) /\ (Takes(k)' <=> Takes(k))
  BY DEF Stored, Takes
<1>l. ASSUME o \notin split, NEW y \in Family(o)'
      PROVE  /\ \A z : Stored(y)' /\ lessons'[y].to = z /\ z # NoLesson =>
                  /\ z \in Family(o)' /\ lessons'[y].status = "cancelled"
                  /\ Stored(z)' => lessons'[z].from = y
             /\ \A k \in Lessons : Stored(k)' /\ lessons'[k].from = y =>
                  k \in Family(o)' /\ (Stored(y)' => lessons'[y].to = k)
  <2>1. CASE y = i
    BY <1>j, <1>n, <1>0, <2>1
  <2>2. CASE y # i
    <3>0. y \in Family(o) /\ y \in Lessons /\ lessons'[y] = lessons[y] /\ (Stored(y)' <=> Stored(y))
      BY <1>0, <1>l, <1>n, <2>2
    <3>1. /\ Stored(y) /\ lessons[y].to # NoLesson =>
               /\ lessons[y].to \in Family(o) /\ lessons[y].status = "cancelled"
               /\ Stored(lessons[y].to) => lessons[lessons[y].to].from = y
          /\ \A k \in Lessons : Stored(k) /\ lessons[k].from = y =>
               k \in Family(o) /\ (Stored(y) => lessons[y].to = k)
      BY <1>l, <3>0 DEF LinkedFamily
    <3>2. ASSUME NEW z, Stored(y)', lessons'[y].to = z, z # NoLesson
          PROVE  /\ z \in Family(o)' /\ lessons'[y].status = "cancelled"
                 /\ Stored(z)' => lessons'[z].from = y
      <4>1. Stored(y) /\ lessons[y].to = z /\ z \in Family(o) /\ z \in Lessons /\ z # i
        BY <1>0, <3>0, <3>1, <3>2
      <4> QED
        BY <1>0, <1>n, <3>0, <3>1, <4>1
    <3>3. ASSUME NEW k \in Lessons, Stored(k)', lessons'[k].from = y
          PROVE  k \in Family(o)' /\ (Stored(y)' => lessons'[y].to = k)
      <4>1. k # i
        BY <1>0, <3>0, <3>3
      <4> QED
        BY <1>0, <1>n, <3>0, <3>1, <3>3, <4>1
    <3> QED
      BY <3>2, <3>3
  <2> QED
    BY <2>1, <2>2
<1>3. LinkedFamily(o)'
  BY <1>l DEF LinkedFamily, Stored
<1>4. Known(o)'
  <2> SUFFICES ASSUME Traceable(o)', NEW l \in Makeups(o)'
               PROVE  \E a \in Starting(o)' : Leads(o, a, l)'
    BY DEF Known
  <2>1. Traceable(o)
    <3>1. \A k \in Family(o) : lessons[k] = Removed => lessons'[k] = Removed
      BY <1>0, <1>n
    <3> QED
      BY <1>0, <1>1, <3>1, TraceableBefore
  <2>2. l = i
    BY <1>0, <1>n, <2>1 DEF Makeups
  <2> DEFINE f == [n \in 0..0 |-> i]
  <2>5. Path(o, 0, f)'
    BY <1>0 DEF Path
  <2>6. f[0] = i
    OBVIOUS
  <2> HIDE DEF f
  <2>7. Leads(o, i, l)'
    BY <2>2, <2>5, <2>6 DEF Leads
  <2> QED
    BY <2>7
<1> QED
  BY <1>2, <1>3, <1>4
-----------------------------------------------------------------------------
(* The steps.                                                              *)

\* No row gets or loses a link, and a new one has no origin.
KeepsLinks ==
  \A k \in Lessons :
    /\ lessons[k] # Unborn => lessons'[k] # Unborn
    /\ Stored(k)' =>
         \/ /\ Stored(k) /\ lessons'[k].from = lessons[k].from /\ lessons'[k].to = lessons[k].to
            /\ lessons'[k].status \in {lessons[k].status, "cancelled"}
         \/ lessons'[k].from = NoLesson /\ (k \in Drawn => lessons[k] = Unborn)

LEMMA LinksKeepFamily ==
  ASSUME KeepsLinks, NEW o, BookedFamily(o), Family(o)' = Family(o)
  PROVE  KeepsFamily(o)
<1>1. NoLesson \notin Family(o)
  BY NothingIsNoLesson, TimetableAssumption DEF Family
<1>2. \A k \in Family(o) : k \in Drawn /\ lessons[k] # Unborn
  BY DEF BookedFamily
<1> QED
  BY <1>1, <1>2 DEF KeepsLinks, KeepsFamily

LEMMA OriginsStay ==
  ASSUME RowsAreTyped, OriginsAreBorn,
         \A k \in Lessons : lessons[k] # Unborn => lessons'[k] # Unborn,
         \A k \in Lessons : Stored(k)' =>
           \/ Stored(k) /\ lessons'[k].from = lessons[k].from
           \/ lessons'[k].from = NoLesson
           \/ lessons'[k].from \in Lessons /\ lessons[lessons'[k].from] # Unborn
  PROVE  OriginsAreBorn'
<1> SUFFICES ASSUME NEW j \in Lessons, Stored(j)', NEW y, y = lessons'[j].from, y # NoLesson
             PROVE  lessons'[y] # Unborn
  BY DEF OriginsAreBorn, Stored
<1>1. CASE Stored(j) /\ lessons'[j].from = lessons[j].from
  <2>1. lessons[j] \in Row
    BY <1>1, StoredIsRow
  <2>2. y \in Lessons /\ lessons[y] # Unborn
    BY <1>1, <2>1 DEF Row, OriginsAreBorn
  <2> QED
    BY <2>2
<1>2. CASE lessons'[j].from \in Lessons /\ lessons[lessons'[j].from] # Unborn
  BY <1>2
<1> QED
  BY <1>1, <1>2

\* The walk starts where it did, unless a method books or writes its line.
LEMMA StartStays ==
  ASSUME NEW o, debts'[o].attempts = debts[o].attempts,
         \A t \in Tasks : \/ task'[t] = task[t]
                          \/ ~(Did(t, "append") /\ task[t].id = o) /\ ~(Did(t, "append")' /\ task'[t].id = o)
  PROVE  Starting(o)' = Starting(o)
<1>1. Booking(o)' = Booking(o) /\ \A t \in Booking(o) : task'[t] = task[t]
  BY DEF Booking, Did
<1>2. {task'[t].at : t \in Booking(o)'} = {task[t].at : t \in Booking(o)}
  BY <1>1
<1> QED
  BY <1>1, <1>2 DEF Starting, LastAttempt

\* A step that moves nothing and books nothing for an obligation.
LEMMA QuietStep ==
  ASSUME FamilyInv, RowsAreTyped, RowsAreTyped', KeepsLinks, madeFor' = madeFor, split' = split,
         \A o \in Owed : Starting(o)' = Starting(o)
  PROVE  FamilyInv'
<1>1. OriginsAreBorn'
  BY OriginsStay DEF KeepsLinks, FamilyInv
<1>2. ASSUME NEW o \in Owed PROVE BookedFamily(o)' /\ LinkedFamily(o)' /\ Known(o)'
  <2>1. Family(o)' = Family(o)
    BY DEF Family
  <2>2. KeepsFamily(o)
    BY <2>1, LinksKeepFamily DEF FamilyInv
  <2> QED
    BY <2>2, FamilyStays DEF FamilyInv
<1> QED
  BY <1>1, <1>2 DEF FamilyInv

\* The methods that change rows one at a time keep links.
LEMMA RowKeepsLinks ==
  ASSUME RowsAreTyped, NEW i \in Lessons, NEW r, lessons' = [lessons EXCEPT ![i] = r],
         \/ r = Removed
         \/ Stored(i) /\ r.from = lessons[i].from /\ r.to = lessons[i].to /\ r.status \in {lessons[i].status, "cancelled"}
         \/ lessons[i] = Unborn /\ r \in Row /\ r.from = NoLesson
  PROVE  KeepsLinks
<1>1. lessons'[i] = r /\ \A k \in Lessons \ {i} : lessons'[k] = lessons[k]
  BY DEF RowsAreTyped
<1>2. \A k \in Lessons \ {i} : Stored(k)' <=> Stored(k)
  BY <1>1 DEF Stored
<1>3. CASE r = Removed
  BY <1>1, <1>2, <1>3 DEF KeepsLinks, Stored, Removed, Unborn
<1>4. CASE Stored(i) /\ r.from = lessons[i].from /\ r.to = lessons[i].to /\ r.status \in {lessons[i].status, "cancelled"}
  <2>1. r # Unborn
    BY <1>4 DEF Stored, Unborn
  <2> QED
    BY <1>1, <1>2, <1>4, <2>1 DEF KeepsLinks
<1>5. CASE lessons[i] = Unborn /\ r \in Row /\ r.from = NoLesson
  BY <1>1, <1>2, <1>5 DEF KeepsLinks
<1> QED
  BY <1>3, <1>4, <1>5

LEMMA BookingKeepsLinks ==
  ASSUME RowsAreTyped, CanDraw, NEW c \in Courses, NEW s \in Times, NEW status \in {"scheduled", "cancelled"},
         Books(Fresh, c, s, status)
  PROVE  KeepsLinks
<1>1. Fresh \in Lessons /\ lessons[Fresh] = Unborn
  BY FreshIsDrawn
<1>2. Manual(c, s, status, NoLesson) \in Row /\ Manual(c, s, status, NoLesson).from = NoLesson
  BY ManualIsRow DEF Manual
<1>3. lessons' = [lessons EXCEPT ![Fresh] = Manual(c, s, status, NoLesson)]
  BY DEF Books
<1> QED
  BY <1>1, <1>2, <1>3, RowKeepsLinks

LEMMA CallsKeepLinks ==
  ASSUME RowsHold, NEW i \in Lessons, UpdateSession(i) \/ CancelSession(i) \/ DeleteSession(i)
  PROVE  KeepsLinks
<1>1. RowsAreTyped /\ lessons \in [Lessons -> RowStates]
  BY DEF RowsHold, RowsAreTyped
<1>2. CASE UpdateSession(i)
  <2>1. PICK s \in Asked : lessons' = [lessons EXCEPT ![i].at = s, ![i].origin = "manual"]
    BY <1>2 DEF UpdateSession
  <2>2. Stored(i) /\ lessons[i] \in Row
    BY <1>1, <1>2, StoredIsRow DEF UpdateSession
  <2> DEFINE r == [lessons[i] EXCEPT !.at = s, !.origin = "manual"]
  <2>3. lessons' = [lessons EXCEPT ![i] = r]
    BY <1>1, <2>1, <2>2
  <2>4. r.from = lessons[i].from /\ r.to = lessons[i].to /\ r.status = lessons[i].status
    BY <2>2 DEF Row
  <2> HIDE DEF r
  <2> QED
    BY <1>1, <2>2, <2>3, <2>4, RowKeepsLinks
<1>3. CASE CancelSession(i)
  <2> DEFINE r == [lessons[i] EXCEPT !.status = "cancelled"]
  <2>1. lessons' = [lessons EXCEPT ![i] = r] /\ Stored(i)
    BY <1>3 DEF CancelSession, Takes, Stored
  <2>2. lessons[i] \in Row
    BY <1>1, <2>1, StoredIsRow
  <2>3. r.from = lessons[i].from /\ r.to = lessons[i].to /\ r.status = "cancelled"
    BY <2>2 DEF Row
  <2> HIDE DEF r
  <2> QED
    BY <1>1, <2>1, <2>3, RowKeepsLinks
<1>4. CASE DeleteSession(i)
  BY <1>1, <1>4, RowKeepsLinks DEF DeleteSession
<1> QED
  BY <1>2, <1>3, <1>4

\* What is generated anew has no origin, and an id that no person's session has.
LEMMA GenerationKeepsLinks ==
  ASSUME RowsHold, GenerateSessions
  PROVE  KeepsLinks
<1>2. PICK c \in Courses, days \in SUBSET Days, confirmUpdates \in BOOLEAN :
         LET creates == Creates(c, days)
             updates == IF confirmUpdates THEN Updates(c, days) ELSE {}
             Id(s) == deterministicSessionId(c, s)
         IN /\ ~evaluatePlanConflicts(c, creates \cup Updates(c, days))
            /\ creates \cup updates # {}
            /\ lessons' = [i \in Lessons |->
                  IF \E s \in creates : i = Id(s)
                  THEN [Manual(c, CHOOSE s \in creates : i = Id(s), "scheduled", NoLesson)
                          EXCEPT !.origin = "generated"]
                  ELSE IF \E s \in updates : i = Id(s)
                  THEN [lessons[i] EXCEPT !.at = CHOOSE s \in updates : i = Id(s)]
                  ELSE lessons[i]]
  BY Zenon DEF GenerateSessions
<1> DEFINE creates == Creates(c, days)
           updates == IF confirmUpdates THEN Updates(c, days) ELSE {}
           Id(s) == deterministicSessionId(c, s)
           New(i) == CHOOSE s \in creates : i = Id(s)
           Moved(i) == CHOOSE s \in updates : i = Id(s)
           born(i) == [Manual(c, New(i), "scheduled", NoLesson) EXCEPT !.origin = "generated"]
           moved(i) == [lessons[i] EXCEPT !.at = Moved(i)]
<1>3. course[c].plan \in Plans
  BY DEF RowsHold, RowsAreTyped, Curricula
<1>4. creates \subseteq Times
  BY <1>3 DEF Creates, Slots, Times
<1>5. \A s \in creates : Id(s) \notin Drawn
  BY <1>4, TimetableAssumption DEF TimetableAssumption
<1>6. \A s \in updates : Takes(Id(s))
  BY DEF Updates
<1>7. lessons' = [i \in Lessons |-> IF \E s \in creates : i = Id(s) THEN born(i)
                                    ELSE IF \E s \in updates : i = Id(s) THEN moved(i)
                                    ELSE lessons[i]]
  BY <1>2
<1>8. \A i \in Lessons : born(i).from = NoLesson /\ born(i) # Unborn
  BY DEF Manual, Unborn
<1>9. \A i \in Lessons : Takes(i) => /\ moved(i).from = lessons[i].from /\ moved(i).to = lessons[i].to
                                     /\ moved(i).status = lessons[i].status /\ moved(i) # Unborn
  <2> SUFFICES ASSUME NEW i \in Lessons, Takes(i)
               PROVE  /\ moved(i).from = lessons[i].from /\ moved(i).to = lessons[i].to
                      /\ moved(i).status = lessons[i].status /\ moved(i) # Unborn
    OBVIOUS
  <2>1. lessons[i] \in Row
    BY StoredIsRow DEF RowsHold, Takes, Stored
  <2> QED
    BY <2>1 DEF Row, Unborn
<1> HIDE DEF creates, updates, Id, born, moved, New, Moved
<1> SUFFICES ASSUME NEW k \in Lessons
             PROVE  /\ lessons[k] # Unborn => lessons'[k] # Unborn
                    /\ Stored(k)' =>
                         \/ /\ Stored(k) /\ lessons'[k].from = lessons[k].from /\ lessons'[k].to = lessons[k].to
                            /\ lessons'[k].status \in {lessons[k].status, "cancelled"}
                         \/ lessons'[k].from = NoLesson /\ (k \in Drawn => lessons[k] = Unborn)
  BY DEF KeepsLinks
<1>10. CASE \E s \in creates : k = Id(s)
  <2>1. lessons'[k] = born(k) /\ k \notin Drawn
    BY <1>5, <1>7, <1>10
  <2> QED
    BY <1>8, <2>1
<1>11. CASE (~\E s \in creates : k = Id(s)) /\ (\E s \in updates : k = Id(s))
  <2>1. lessons'[k] = moved(k) /\ Takes(k) /\ Stored(k)
    BY <1>6, <1>7, <1>11 DEF Takes, Stored
  <2> QED
    BY <1>9, <2>1
<1>12. CASE (~\E s \in creates : k = Id(s)) /\ (~\E s \in updates : k = Id(s))
  <2>1. lessons'[k] = lessons[k]
    BY <1>7, <1>12
  <2> QED
    BY <2>1 DEF Stored
<1> QED
  BY <1>10, <1>11, <1>12
-----------------------------------------------------------------------------
\* A move of a session that still takes place is a link of its family; of one
\* that does not, its family has been split.
LEMMA RescheduleKeepsFamilies ==
  ASSUME FamilyInv, QueueInv, MovesAreBorn, RowsHold, RowsAreTyped', TasksRecall, NEW t \in Tasks, RescheduleSession(t)
  PROVE  FamilyInv' /\ QueueInv'
<1>1. /\ debts' = debts /\ section' = section /\ Ends(t) /\ CanDraw /\ Did(t, "move")
      /\ RowsAreTyped /\ lessons \in [Lessons -> RowStates]
      /\ madeFor \in [Lessons -> Owed \cup {NoLesson}]
  BY DEF RescheduleSession, RowsHold, RowsAreTyped, QueueInv, QueuesAreTyped
<1>2. OthersGoOn(t) /\ task'[t].op = "rest"
  BY <1>1, TaskIsSet DEF Ends, Rest
<1>3. \A o \in Owed : Starting(o)' = Starting(o)
  BY <1>1, <1>2, StartStays DEF OthersGoOn, Did
<1>4. OwedStay /\ NoneIsTried' /\ \A u \in Tasks : task'[u] = task[u] \/ task'[u].op = "rest"
  BY <1>1, <1>2 DEF OwedStay, OthersGoOn, QueueInv, NoneIsTried
<1>5. CASE lessons' = lessons /\ madeFor' = madeFor /\ split' = split
  <2>1. KeepsLinks
    BY <1>5 DEF KeepsLinks, Stored
  <2>2. FamilyInv'
    BY <1>1, <1>3, <1>5, <2>1, QuietStep
  <2>3. split' \subseteq Owed
    BY <1>5 DEF QueueInv, QueuesAreTyped
  <2>4. QueueInv'
    BY <1>1, <1>4, <1>5, <2>3, QueueStands
  <2> QED
    BY <2>2, <2>4
<1>6. ASSUME NEW i, i = task[t].id, NEW j, j = Fresh,
             Replaces(i, j, Manual(task[t].seen, task[t].at, "scheduled", i)),
             madeFor' = [madeFor EXCEPT ![j] = madeFor[i]],
             split' = IF Takes(i) THEN split ELSE split \cup ({madeFor[i]} \ {NoLesson})
      PROVE  FamilyInv' /\ QueueInv'
  <2>1. i \in Lessons /\ lessons[i] # Unborn
    BY <1>1, <1>6 DEF TasksRecall, Sound, Did, MovesAreBorn
  <2>2. Stored(i) => lessons[i] \in Row
    BY <1>1, <2>1, StoredIsRow
  <2>3. j \in Lessons /\ j \in Drawn /\ lessons[j] = Unborn /\ i # j
    BY <1>1, <1>6, <2>1, FreshIsDrawn DEF CanDraw, Fresh
  <2>4. /\ lessons'[j] = Manual(task[t].seen, task[t].at, "scheduled", i)
        /\ lessons'[i] = IF Stored(i) THEN [lessons[i] EXCEPT !.status = "cancelled", !.to = j] ELSE lessons[i]
        /\ \A k \in Lessons \ {i, j} : lessons'[k] = lessons[k]
    BY <1>1, <1>6, <2>1, <2>2, <2>3 DEF Replaces
  <2>5. /\ Stored(j)' /\ lessons'[j].from = i /\ lessons'[j].to = NoLesson
        /\ Stored(i) => /\ Stored(i)' /\ lessons'[i].status = "cancelled"
                        /\ lessons'[i].from = lessons[i].from /\ lessons'[i].to = j
        /\ ~Stored(i) => lessons'[i] = lessons[i] /\ ~Stored(i)' /\ ~Takes(i)
    BY <2>2, <2>4 DEF Manual, Row, Stored, Takes
  <2>6. /\ madeFor'[j] = madeFor[i] /\ \A k \in Lessons \ {j} : madeFor'[k] = madeFor[k]
        /\ madeFor' \in [Lessons -> Owed \cup {NoLesson}]
        /\ split \subseteq split' /\ split' \subseteq Owed
    BY <1>1, <1>6, <2>1, <2>3 DEF QueueInv, QueuesAreTyped
  <2>7. \A k \in Lessons \ {i, j} : Stored(k)' <=> Stored(k)
    BY <2>4 DEF Stored
  <2>8. \A k \in Lessons : lessons[k] # Unborn => lessons'[k] # Unborn
    <3>1. lessons'[i] # Unborn /\ lessons'[j] # Unborn
      BY <2>1, <2>5 DEF Stored, Unborn
    <3> QED
      BY <2>4, <3>1
  <2>9. OriginsAreBorn'
    <3>2. \A k \in Lessons : Stored(k)' =>
            \/ Stored(k) /\ lessons'[k].from = lessons[k].from
            \/ lessons'[k].from = NoLesson
            \/ lessons'[k].from \in Lessons /\ lessons[lessons'[k].from] # Unborn
      BY <2>1, <2>4, <2>5, <2>7
    <3> QED
      BY <1>1, <2>8, <3>2, OriginsStay DEF FamilyInv
  <2>10. ASSUME NEW o \in Owed, madeFor[i] # o
         PROVE  BookedFamily(o)' /\ LinkedFamily(o)' /\ Known(o)'
    <3>0. BookedFamily(o) /\ LinkedFamily(o) /\ Known(o)
      BY DEF FamilyInv
    <3>1. i \notin Family(o) /\ j \notin Family(o) /\ Family(o)' = Family(o)
      BY <2>3, <2>6, <2>10, <3>0 DEF Family, BookedFamily
    <3>2. ASSUME NEW k \in Lessons, Stored(k)'
          PROVE  \/ /\ Stored(k) /\ lessons'[k].from = lessons[k].from
                    /\ k \in Family(o) => /\ lessons'[k].to = lessons[k].to
                                          /\ lessons'[k].status \in {lessons[k].status, "cancelled"}
                 \/ k \notin Family(o) /\ lessons'[k].from \notin Family(o)
      BY <2>4, <2>5, <2>7, <3>1, <3>2
    <3>3. KeepsFamily(o)
      BY <2>8, <3>1, <3>2 DEF KeepsFamily
    <3> QED
      BY <1>3, <2>6, <3>0, <3>3, FamilyStays
  <2>11. ASSUME NEW o \in Owed, madeFor[i] = o, Takes(i)
         PROVE  BookedFamily(o)' /\ LinkedFamily(o)' /\ Known(o)'
    <3>0. BookedFamily(o) /\ LinkedFamily(o) /\ Known(o) /\ OriginsAreBorn /\ split' = split
      BY <1>6, <2>11 DEF FamilyInv
    <3>1. MovedOn(i, j)
      BY <2>1, <2>3, <2>4, <2>5, <2>6, <2>11 DEF MovedOn, Takes, Stored
    <3> QED
      BY <1>3, <2>11, <3>0, <3>1, MoveIsKnown
  <2>12. ASSUME NEW o \in Owed, madeFor[i] = o, ~Takes(i)
         PROVE  BookedFamily(o)' /\ LinkedFamily(o)' /\ Known(o)'
    <3>0. BookedFamily(o) /\ o \in split'
      BY <1>6, <2>12, NothingIsNoLesson, TimetableAssumption DEF FamilyInv, TimetableAssumption
    <3>1. Family(o)' = Family(o) \cup {j}
      BY <2>3, <2>6, <2>12 DEF Family
    <3>2. IsFiniteSet(Family(o) \cup {j})
      BY <3>0, FS_AddElement DEF BookedFamily
    <3>3. \A k \in Family(o) : k \in Lessons /\ k \in Drawn /\ lessons[k] # Unborn
      BY <3>0 DEF BookedFamily, Family
    <3>4. lessons'[j] # Unborn
      BY <2>5 DEF Stored, Unborn
    <3>5. BookedFamily(o)'
      BY <2>3, <2>8, <3>1, <3>2, <3>3, <3>4 DEF BookedFamily
    <3> QED
      BY <3>0, <3>5 DEF LinkedFamily, Known, Traceable
  <2>13. FamilyInv'
    BY <2>9, <2>10, <2>11, <2>12 DEF FamilyInv
  <2>14. QueueInv'
    <3>1. QueuesAreTyped'
      BY <1>1, <2>6 DEF QueueInv, QueuesAreTyped
    <3>2. \A u \in Tasks : Waits(u)'
      BY <1>1, <1>2 DEF QueueInv, Waits, OthersGoOn, Did, InSection
    <3> QED
      BY <1>4, <3>1, <3>2 DEF QueueInv
  <2> QED
    BY <2>13, <2>14
<1> QED
  BY <1>5, <1>6 DEF RescheduleSession

\* A booking finds nothing that takes place, and nobody else books meanwhile.
LEMMA ScheduleKeepsFamilies ==
  ASSUME FamilyInv, QueueInv, RowsHold, RowsAreTyped', DebtsAreTyped, TasksRecall, NEW t \in Tasks, ScheduleMakeup(t)
  PROVE  FamilyInv' /\ QueueInv'
<1>0. PICK o \in Owed : o = task[t].id
  BY DEF TasksRecall, Sound, ScheduleMakeup, Did
<1>1. /\ debts' = debts /\ split' = split /\ CanDraw /\ Did(t, "schedule") /\ InSection(t)
      /\ RowsAreTyped /\ lessons \in [Lessons -> RowStates]
      /\ madeFor \in [Lessons -> Owed \cup {NoLesson}] /\ NoneIsTried'
      /\ o \in Lessons
  BY <1>0, TimetableAssumption DEF ScheduleMakeup, RowsHold, RowsAreTyped, QueueInv, QueuesAreTyped, NoneIsTried,
     TimetableAssumption, Lessons
<1>2. CASE Ends(t) /\ Leave(t) /\ lessons' = lessons /\ madeFor' = madeFor
  <2>1. KeepsLinks
    BY <1>2 DEF KeepsLinks, Stored
  <2>2. OthersGoOn(t) /\ task'[t].op = "rest"
    BY <1>2, TaskIsSet DEF Ends, Rest
  <2>3. \A x \in Owed : Starting(x)' = Starting(x)
    BY <1>1, <2>2, StartStays DEF OthersGoOn, Did
  <2>4. FamilyInv'
    BY <1>1, <1>2, <2>1, <2>3, QuietStep
  <2>5. task[t].op = "schedule" /\ OwedStay
    BY <1>1 DEF Did, OwedStay
  <2>6. QueueInv'
    BY <1>1, <1>2, <2>5, QueueShrinks
  <2> QED
    BY <2>4, <2>6
<1>3. ASSUME NEW i, i = Fresh, debts[o].status = "open", ~attemptIsLive(o),
             Books(i, debts[o].class, task[t].at, "scheduled"),
             madeFor' = [madeFor EXCEPT ![i] = o],
             NEW m, m = Remembers("append", o, i, debts[o].attempts), Then(t, m), section' = section
      PROVE  FamilyInv' /\ QueueInv'
  <2>1. i \in Lessons /\ i \in Drawn /\ lessons[i] = Unborn
    BY <1>1, <1>3, FreshIsDrawn DEF CanDraw, Fresh
  <2>2. debts[o].class \in Courses /\ task[t].at \in Times
    BY <1>1, <1>3 DEF DebtsAreTyped, Debts, TasksRecall, Sound, Did, Times
  <2>3. KeepsLinks
    BY <1>1, <1>3, <2>2, BookingKeepsLinks
  <2>4. /\ lessons'[i] = Manual(debts[o].class, task[t].at, "scheduled", NoLesson)
        /\ \A k \in Lessons \ {i} : lessons'[k] = lessons[k]
    BY <1>1, <1>3, <2>1 DEF Books
  <2>5. Stored(i)' /\ lessons'[i].from = NoLesson /\ lessons'[i].to = NoLesson
    BY <2>4 DEF Manual, Stored
  <2>6. /\ madeFor'[i] = o /\ \A k \in Lessons \ {i} : madeFor'[k] = madeFor[k]
        /\ madeFor' \in [Lessons -> Owed \cup {NoLesson}]
    BY <1>1, <1>3, <2>1
  <2>7. m.op = "append" /\ m.id = o /\ m.at = i
    BY <1>3 DEF Remembers
  <2>8. OthersGoOn(t) /\ task'[t] = m
    BY <1>3, TaskIsSet
  <2>9. QueueInv' /\ \A u \in Tasks : Did(u, "append") => task[u].id # o
    BY <1>0, <1>1, <1>3, <2>6, <2>7, QueueBooks
  <2>10. OriginsAreBorn'
    BY <1>1, <2>3, OriginsStay DEF KeepsLinks, FamilyInv
  <2>11. ASSUME NEW x \in Owed, x # o PROVE BookedFamily(x)' /\ LinkedFamily(x)' /\ Known(x)'
    <3>0. BookedFamily(x) /\ LinkedFamily(x) /\ Known(x)
      BY DEF FamilyInv
    <3>1. Family(x)' = Family(x)
      BY <2>1, <2>6, <2>11, <3>0 DEF Family, BookedFamily
    <3>2. KeepsFamily(x)
      BY <2>3, <3>0, <3>1, LinksKeepFamily
    <3>3. Starting(x)' = Starting(x)
      BY <1>0, <1>1, <2>7, <2>8, <2>11, StartStays DEF OthersGoOn, Did
    <3> QED
      BY <1>1, <3>0, <3>2, <3>3, FamilyStays
  <2>12. BookedFamily(o)' /\ LinkedFamily(o)' /\ Known(o)'
    <3>0. BookedFamily(o) /\ LinkedFamily(o) /\ OriginsAreBorn
      BY DEF FamilyInv
    <3>1. Booking(o) = {}
      BY <2>9 DEF Booking
    <3>2. Traceable(o) => Makeups(o) = {}
      BY <1>3, <3>1, KnownIsFound
    <3>3. Booking(o)' = {t} /\ task'[t].at = i
      BY <2>7, <2>8, <2>9 DEF Booking, OthersGoOn, Did
    <3>4. {task'[u].at : u \in {t}} = {i}
      BY <3>3
    <3>5. Starting(o)' = {i}
      BY <3>3, <3>4 DEF Starting
    <3> QED
      BY <1>1, <2>1, <2>4, <2>5, <2>6, <3>0, <3>2, <3>5, BookingIsKnown
  <2> QED
    BY <2>9, <2>10, <2>11, <2>12 DEF FamilyInv
<1> QED
  BY <1>0, <1>2, <1>3 DEF ScheduleMakeup

\* The line that is written is the session that was booked.
LEMMA AppendKeepsFamilies ==
  ASSUME FamilyInv, QueueInv, RowsHold, RowsAreTyped', DebtsAreTyped, TasksRecall, NEW t \in Tasks, AppendAttempt(t)
  PROVE  FamilyInv' /\ QueueInv'
<1>0. PICK o \in Owed : o = task[t].id
  BY DEF TasksRecall, Sound, AppendAttempt, Did
<1>1. /\ lessons' = lessons /\ madeFor' = madeFor /\ split' = split /\ Did(t, "append") /\ Ends(t) /\ Leave(t)
      /\ InSection(t) /\ RowsAreTyped /\ task[t].op = "append" /\ debts[o].status # "none"
  BY <1>0 DEF AppendAttempt, RowsHold, QueueInv, Waits, Did
<1>2. task[t].seen \in Seq(Lessons) /\ task[t].at \in Lessons
  BY <1>1 DEF TasksRecall, Sound
<1>3. PICK line : line = Append(task[t].seen, task[t].at)
  OBVIOUS
<1>4. line # <<>> /\ line[Len(line)] = task[t].at
  BY <1>2, <1>3, AppendProperties, LenProperties
<1>5. /\ debts'[o].attempts = line /\ debts'[o].status = debts[o].status
      /\ \A x \in Owed \ {o} : debts'[x] = debts[x]
  BY <1>0, <1>3 DEF AppendAttempt, DebtsAreTyped, Debts
<1>6. OthersGoOn(t) /\ task'[t].op = "rest"
  BY <1>1, TaskIsSet DEF Ends, Rest
<1>7. OwedStay /\ NoneIsTried'
  BY <1>1, <1>5 DEF OwedStay, QueueInv, NoneIsTried
<1>8. QueueInv' /\ \A u \in Tasks : Did(u, "append") /\ task[u].id = o => u = t
  BY <1>0, <1>1, <1>7, QueueShrinks
<1>9. Starting(o)' = Starting(o)
  <2>1. Booking(o) = {t}
    BY <1>0, <1>1, <1>8 DEF Booking
  <2>2. Starting(o) = {task[t].at}
    <3>1. {task[u].at : u \in {t}} = {task[t].at}
      OBVIOUS
    <3> QED
      BY <2>1, <3>1 DEF Starting
  <2>3. Booking(o)' = {}
    BY <1>6, <1>8 DEF Booking, OthersGoOn, Did
  <2>4. Starting(o)' = {task[t].at}
    BY <1>4, <1>5, <2>3 DEF Starting, LastAttempt
  <2> QED
    BY <2>2, <2>4
<1>10. ASSUME NEW x \in Owed, x # o PROVE Starting(x)' = Starting(x)
  BY <1>0, <1>5, <1>6, <1>10, StartStays DEF OthersGoOn, Did
<1>11. KeepsLinks
  BY <1>1 DEF KeepsLinks, Stored
<1>12. FamilyInv'
  BY <1>1, <1>9, <1>10, <1>11, QuietStep
<1> QED
  BY <1>8, <1>12

\* The other steps of a method that goes on.
LEMMA OthersKeepFamilies ==
  ASSUME FamilyInv, QueueInv, RowsHold, RowsAreTyped', DebtsAreTyped, TasksRecall, NEW t \in Tasks,
         Registered(t) \/ CompleteDebt(t)
  PROVE  FamilyInv' /\ QueueInv'
<1>0. PICK o \in Owed : o = task[t].id
  BY DEF TasksRecall, Sound, Registered, CompleteDebt, Did
<1>1. /\ lessons' = lessons /\ madeFor' = madeFor /\ split' = split /\ Ends(t) /\ RowsAreTyped
      /\ task[t].op \in {"register", "complete"}
  BY DEF Registered, CompleteDebt, RowsHold, Did
<1>2. OthersGoOn(t) /\ task'[t].op = "rest"
  BY <1>1, TaskIsSet DEF Ends, Rest
<1>3. /\ \A x \in Owed : debts'[x].attempts = debts[x].attempts
      /\ \A x \in Owed : debts[x].status # "none" => debts'[x].status # "none"
  <2>1. \A x \in Owed \ {o} : debts'[x] = debts[x]
    BY <1>0 DEF Registered, CompleteDebt, DebtsAreTyped, Debts
  <2>2. CASE Registered(t)
    <3>1. CASE debts' = debts
      BY <3>1
    <3>2. CASE debts[o].status = "none" /\ debts' = [debts EXCEPT ![o] = [status |-> "open", class |-> task[t].seen, attempts |-> <<>>]]
      <4>1. debts[o].attempts = <<>>
        BY <3>2 DEF QueueInv, NoneIsTried
      <4>2. debts'[o].attempts = <<>>
        BY <3>2 DEF DebtsAreTyped
      <4> QED
        BY <2>1, <3>2, <4>1, <4>2
    <3> QED
      BY <1>0, <2>2, <3>1, <3>2 DEF Registered, assertPairFree
  <2>3. CASE CompleteDebt(t)
    <3>1. CASE debts' = debts
      BY <3>1
    <3>2. CASE debts' = [debts EXCEPT ![o].status = "completed"]
      <4>1. debts'[o].status = "completed" /\ debts'[o].attempts = debts[o].attempts
        BY <3>2 DEF DebtsAreTyped, Debts
      <4> QED
        BY <2>1, <4>1
    <3> QED
      BY <1>0, <2>3, <3>1, <3>2 DEF CompleteDebt
  <2> QED
    BY <2>2, <2>3
<1>4. OwedStay
  BY <1>3 DEF OwedStay
<1>5. NoneIsTried'
  BY <1>3 DEF QueueInv, NoneIsTried
<1>6. \A x \in Owed : Starting(x)' = Starting(x)
  BY <1>1, <1>2, <1>3, StartStays DEF OthersGoOn, Did
<1>7. KeepsLinks
  BY <1>1 DEF KeepsLinks, Stored
<1>8. FamilyInv'
  BY <1>1, <1>6, <1>7, QuietStep
<1>9. CASE Registered(t)
  <2>1. section' = section
    BY <1>9 DEF Registered
  <2>2. split' \subseteq Owed
    BY <1>1 DEF QueueInv, QueuesAreTyped
  <2>3. \A u \in Tasks : task'[u] = task[u] \/ task'[u].op \in {"rest", "move", "register"}
    BY <1>2 DEF OthersGoOn
  <2> QED
    BY <1>1, <1>4, <1>5, <1>8, <2>1, <2>2, <2>3, QueueStands
<1>10. CASE CompleteDebt(t)
  <2>1. task[t].op = "complete" /\ InSection(t) /\ Leave(t)
    BY <1>10 DEF CompleteDebt, Did
  <2> QED
    BY <1>1, <1>4, <1>5, <1>8, <2>1, QueueShrinks
<1> QED
  BY <1>9, <1>10

LEMMA CalledKeepsLinks ==
  ASSUME RowsHold, Called
  PROVE  lessons' = lessons \/ KeepsLinks
<1>1. CASE CreateSession
  <2>1. PICK c \in Courses, s \in Asked, status \in {"scheduled", "cancelled"} : Books(Fresh, c, s, status)
    BY <1>1 DEF CreateSession
  <2>2. s \in Times /\ CanDraw
    BY <1>1 DEF CreateSession, Times
  <2> QED
    BY <2>1, <2>2, BookingKeepsLinks DEF RowsHold
<1>2. ASSUME NEW i \in Lessons, UpdateSession(i) \/ CancelSession(i) \/ DeleteSession(i) PROVE KeepsLinks
  BY <1>2, CallsKeepLinks
<1>3. CASE RecordAttendance \/ EditCourse
  BY <1>3 DEF RecordAttendance, EditCourse
<1>4. ASSUME NEW t \in Tasks,
             \/ \E i \in Lessons : GetSession(t, i)
             \/ RegisterDebt(t)
             \/ serializeBooking(t, "complete", NoLesson)
             \/ \E s \in Asked : serializeBooking(t, "schedule", s)
      PROVE  lessons' = lessons
  BY <1>4 DEF GetSession, RegisterDebt, serializeBooking
<1> QED
  BY <1>1, <1>2, <1>3, <1>4, GenerationKeepsLinks DEF Called

LEMMA BornStay ==
  ASSUME RowsHold, DebtsAreTyped, TasksRecall, Called \/ Resumed
  PROVE  \A k \in Lessons : lessons[k] # Unborn => lessons'[k] # Unborn
<1>0. RowsAreTyped /\ lessons \in [Lessons -> RowStates]
  BY DEF RowsHold, RowsAreTyped
<1>1. CASE Called
  BY <1>1, CalledKeepsLinks DEF KeepsLinks
<1>2. ASSUME NEW t \in Tasks, ScheduleMakeup(t)
      PROVE  lessons' = lessons \/ KeepsLinks
  <2>1. CASE lessons' # lessons
    <3>1. PICK o \in Owed : o = task[t].id
      BY <1>2 DEF TasksRecall, Sound, ScheduleMakeup, Did
    <3>2. /\ debts[o].status = "open" /\ CanDraw /\ Books(Fresh, debts[o].class, task[t].at, "scheduled")
          /\ task[t].at \in Times
      BY <1>2, <2>1, <3>1 DEF ScheduleMakeup, TasksRecall, Sound, Did, Times
    <3>3. debts[o].class \in Courses
      BY <3>2 DEF DebtsAreTyped, Debts
    <3> QED
      BY <1>0, <3>2, <3>3, BookingKeepsLinks
  <2> QED
    BY <2>1
<1>3. ASSUME NEW t \in Tasks, RescheduleSession(t), NEW k \in Lessons, lessons[k] # Unborn
      PROVE  lessons'[k] # Unborn
  <2>1. PICK i, j : i = task[t].id /\ j = Fresh
    OBVIOUS
  <2>2. i \in Lessons /\ lessons[j] = Unborn /\ k # j
    BY <1>3, <2>1, FreshIsDrawn DEF RescheduleSession, TasksRecall, Sound, Did
  <2>3. \/ lessons' = lessons
        \/ Replaces(i, j, Manual(task[t].seen, task[t].at, "scheduled", i))
    BY <1>3, <2>1 DEF RescheduleSession
  <2>4. CASE k = i /\ Stored(i) /\ lessons' # lessons
    <3>1. lessons[i] \in Row
      BY <1>0, <2>2, <2>4, StoredIsRow
    <3>2. lessons'[i] = [lessons[i] EXCEPT !.status = "cancelled", !.to = j]
      BY <1>0, <2>2, <2>3, <2>4 DEF Replaces
    <3> QED
      BY <2>4, <3>1, <3>2 DEF Row, Unborn
  <2>5. CASE k # i \/ ~Stored(i) \/ lessons' = lessons
    <3>1. lessons'[k] = lessons[k]
      BY <1>0, <2>2, <2>3, <2>5 DEF Replaces
    <3> QED
      BY <1>3, <3>1
  <2> QED
    BY <2>4, <2>5
<1>4. ASSUME NEW t \in Tasks, Registered(t) \/ AppendAttempt(t) \/ CompleteDebt(t)
      PROVE  lessons' = lessons
  BY <1>4 DEF Registered, AppendAttempt, CompleteDebt
<1> QED
  BY <1>1, <1>2, <1>3, <1>4 DEF Resumed, KeepsLinks

LEMMA MovesStayBorn ==
  ASSUME MovesAreBorn, RowsHold, DebtsAreTyped, TasksRecall, [TimetableNext]_timetableVars
  PROVE  MovesAreBorn'
<1>1. CASE UNCHANGED timetableVars
  BY <1>1 DEF timetableVars, timetableState, MovesAreBorn, Did
<1>2. CASE Called \/ Resumed
  <2>1. \A k \in Lessons : lessons[k] # Unborn => lessons'[k] # Unborn
    BY <1>2, BornStay
  <2>2. ASSUME NEW t \in Tasks, NEW m, Then(t, m), m.op = "move" => m.id \in Lessons /\ lessons[m.id] # Unborn
        PROVE  MovesAreBorn'
    <3>1. OthersGoOn(t) /\ task'[t] = m
      BY <2>2, TaskIsSet
    <3>2. ASSUME NEW u \in Tasks, Did(u, "move")' PROVE lessons'[task'[u].id] # Unborn
      <4>1. CASE u = t
        BY <2>1, <2>2, <3>1, <3>2, <4>1 DEF Did
      <4>2. CASE u # t
        <5>1. task'[u] = task[u] /\ Did(u, "move") /\ task[u].id \in Lessons
          BY <3>1, <3>2, <4>2 DEF OthersGoOn, Did, TasksRecall, Sound
        <5> QED
          BY <2>1, <5>1 DEF MovesAreBorn
      <4> QED
        BY <4>1, <4>2
    <3> QED
      BY <3>2 DEF MovesAreBorn
  <2>3. CASE task' = task
    BY <2>1, <2>3 DEF MovesAreBorn, Did, TasksRecall, Sound
  <2>4. ASSUME NEW t \in Tasks, NEW i \in Lessons, GetSession(t, i) PROVE MovesAreBorn'
    <3>1. PICK s \in Asked : Then(t, Remembers("move", i, s, lessons[i].class))
      BY <2>4 DEF GetSession
    <3>2. Remembers("move", i, s, lessons[i].class).id = i /\ lessons[i] # Unborn
      BY <2>4 DEF Remembers, GetSession, Takes, Unborn
    <3> QED
      BY <2>2, <3>1, <3>2
  <2>5. ASSUME NEW t \in Tasks, NEW op, NEW o, NEW s, NEW seen, Then(t, Remembers(op, o, s, seen)), op # "move"
        PROVE  MovesAreBorn'
    <3>1. Remembers(op, o, s, seen).op # "move"
      BY <2>5 DEF Remembers
    <3> QED
      BY <2>2, <2>5, <3>1
  <2>6. ASSUME NEW t \in Tasks, Ends(t) PROVE MovesAreBorn'
    <3>1. Rest.op # "move"
      BY DEF Rest
    <3> QED
      BY <2>2, <2>6, <3>1 DEF Ends
  <2>7. CASE Called
    <3>1. ASSUME NEW t \in Tasks, RegisterDebt(t) PROVE MovesAreBorn'
      BY <2>5, <3>1 DEF RegisterDebt
    <3>2. ASSUME NEW t \in Tasks, NEW op, NEW s, serializeBooking(t, op, s), op # "move" PROVE MovesAreBorn'
      BY <2>5, <3>2 DEF serializeBooking
    <3> QED
      BY <2>3, <2>4, <2>7, <3>1, <3>2 DEF Called, CreateSession, RecordAttendance, GenerateSessions, EditCourse,
         UpdateSession, CancelSession, DeleteSession
  <2>8. CASE Resumed
    <3>1. ASSUME NEW t \in Tasks, ScheduleMakeup(t) PROVE MovesAreBorn'
      <4>1. Ends(t) \/ Then(t, Remembers("append", task[t].id, Fresh, debts[task[t].id].attempts))
        BY <3>1 DEF ScheduleMakeup
      <4> QED
        BY <2>5, <2>6, <4>1
    <3>2. ASSUME NEW t \in Tasks, RescheduleSession(t) \/ Registered(t) \/ AppendAttempt(t) \/ CompleteDebt(t)
          PROVE  Ends(t)
      BY <3>2 DEF RescheduleSession, Registered, AppendAttempt, CompleteDebt
    <3> QED
      BY <2>6, <2>8, <3>1, <3>2 DEF Resumed
  <2> QED
    BY <1>2, <2>7, <2>8
<1> QED
  BY <1>1, <1>2 DEF TimetableNext

LEMMA CallsKeepFamilies ==
  ASSUME FamilyInv, QueueInv, RowsHold, RowsAreTyped', DebtsAreTyped, TasksRecall, Called
  PROVE  FamilyInv' /\ QueueInv'
<1>1. madeFor' = madeFor /\ split' = split /\ debts' = debts /\ RowsAreTyped
  BY DEF Called, CreateSession, RecordAttendance, GenerateSessions, EditCourse, UpdateSession,
         CancelSession, DeleteSession, GetSession, RegisterDebt, serializeBooking, RowsHold
<1>2. OwedStay /\ NoneIsTried' /\ split' \subseteq Owed
  BY <1>1 DEF OwedStay, QueueInv, NoneIsTried, QueuesAreTyped
<1>3. CASE lessons' = lessons \/ KeepsLinks
  <2>1. KeepsLinks
    BY <1>3 DEF KeepsLinks, Stored
  <2>2. CASE task' = task /\ section' = section
    <3>1. \A o \in Owed : Starting(o)' = Starting(o)
      BY <1>1, <2>2 DEF Starting, Booking, Did, LastAttempt
    <3> QED
      BY <1>1, <1>2, <2>1, <2>2, <3>1, QuietStep, QueueStands
  <2>3. ASSUME NEW t \in Tasks, NEW m, Resting(t), Then(t, m), m.op # "append"
        PROVE  FamilyInv'
    <3>1. OthersGoOn(t) /\ task'[t] = m /\ task[t].op = "rest"
      BY <2>3, TaskIsSet DEF Resting, Rest
    <3>2. \A o \in Owed : Starting(o)' = Starting(o)
      BY <1>1, <2>3, <3>1, StartStays DEF OthersGoOn, Did
    <3> QED
      BY <1>1, <2>1, <3>2, QuietStep
  <2>4. ASSUME NEW t \in Tasks, NEW m, Resting(t), Then(t, m), m.op \in {"move", "register"}, section' = section
        PROVE  FamilyInv' /\ QueueInv'
    <3>1. OthersGoOn(t) /\ task'[t] = m
      BY <2>4, TaskIsSet
    <3>2. \A u \in Tasks : task'[u] = task[u] \/ task'[u].op \in {"rest", "move", "register"}
      BY <2>4, <3>1 DEF OthersGoOn
    <3> QED
      BY <1>1, <1>2, <2>3, <2>4, <3>2, QueueStands
  <2>5. ASSUME NEW t \in Tasks, NEW op, NEW s, serializeBooking(t, op, s), op \in {"schedule", "complete"}
        PROVE  FamilyInv' /\ QueueInv'
    <3>1. PICK o \in Owed : Resting(t) /\ Then(t, Remembers(op, o, s, <<>>))
      BY <2>5 DEF serializeBooking, Starts
    <3>2. Remembers(op, o, s, <<>>).op = op
      BY DEF Remembers
    <3> QED
      BY <2>3, <2>5, <3>1, <3>2, QueueGrows
  <2>6. ASSUME NEW t \in Tasks, NEW i \in Lessons, GetSession(t, i) PROVE FamilyInv' /\ QueueInv'
    <3>1. PICK s \in Asked : Resting(t) /\ Then(t, Remembers("move", i, s, lessons[i].class)) /\ section' = section
      BY <2>6 DEF GetSession, Starts
    <3>2. Remembers("move", i, s, lessons[i].class).op = "move"
      BY DEF Remembers
    <3> QED
      BY <2>4, <3>1, <3>2
  <2>7. ASSUME NEW t \in Tasks, RegisterDebt(t) PROVE FamilyInv' /\ QueueInv'
    <3>1. PICK o \in Owed : Resting(t) /\ Then(t, Remembers("register", o, NoLesson, lessons[o].class)) /\ section' = section
      BY <2>7 DEF RegisterDebt, Starts
    <3>2. Remembers("register", o, NoLesson, lessons[o].class).op = "register"
      BY DEF Remembers
    <3> QED
      BY <2>4, <3>1, <3>2
  <2>8. CASE ~(task' = task /\ section' = section)
    <3>1. \E t \in Tasks : \/ \E i \in Lessons : GetSession(t, i)
                           \/ RegisterDebt(t)
                           \/ serializeBooking(t, "complete", NoLesson)
                           \/ \E s \in Asked : serializeBooking(t, "schedule", s)
      BY <2>8 DEF Called, CreateSession, RecordAttendance, GenerateSessions, EditCourse, UpdateSession,
                  CancelSession, DeleteSession
    <3> QED
      BY <2>5, <2>6, <2>7, <3>1
  <2> QED
    BY <2>2, <2>8
<1>4. lessons' = lessons \/ KeepsLinks
  BY CalledKeepsLinks
<1> QED
  BY <1>3, <1>4

-----------------------------------------------------------------------------
LEMMA FamiliesStart ==
  ASSUME TimetableInit
  PROVE  FamilyInv /\ QueueInv /\ MovesAreBorn
<1>1. PICK c \in Courses, s \in Asked :
         lessons = [i \in Lessons |-> IF i \in Owed THEN Manual(c, s, "cancelled", NoLesson) ELSE Unborn]
  BY DEF TimetableInit
<1>2. OriginsAreBorn
  BY <1>1 DEF OriginsAreBorn, Manual, Unborn, Stored
<1>3. \A o \in Owed : Family(o) = {} /\ Makeups(o) = {}
  BY TimetableAssumption DEF TimetableAssumption, TimetableInit, Family, Makeups
<1>4. \A o \in Owed : BookedFamily(o) /\ LinkedFamily(o) /\ Known(o)
  BY <1>3, FS_EmptySet DEF BookedFamily, LinkedFamily, Known
<1>5. QueuesAreTyped
  <2>1. <<>> \in Seq(Tasks)
    OBVIOUS
  <2> QED
    BY <2>1 DEF TimetableInit, QueuesAreTyped
<1>6. \A t \in Tasks : task[t].op = "rest"
  BY DEF TimetableInit, Rest
<1>7. \A t \in Tasks : Waits(t)
  BY <1>6 DEF Waits, Did
<1>8. NoneIsTried
  BY DEF TimetableInit, NoneIsTried
<1>9. MovesAreBorn
  BY <1>6 DEF MovesAreBorn, Did
<1> QED
  BY <1>2, <1>4, <1>5, <1>7, <1>8, <1>9 DEF FamilyInv, QueueInv

LEMMA FamiliesKeep ==
  ASSUME TimetableInv, TimetableInv', FamilyInv, QueueInv, MovesAreBorn, [TimetableNext]_timetableVars
  PROVE  FamilyInv' /\ QueueInv' /\ MovesAreBorn'
<1>0. RowsHold /\ RowsAreTyped /\ RowsAreTyped' /\ DebtsAreTyped /\ TasksRecall
  BY DEF TimetableInv, RowsHold, DebtsHold
<1>4. MovesAreBorn'
  BY <1>0, MovesStayBorn
<1>1. CASE Called
  BY <1>0, <1>1, <1>4, CallsKeepFamilies
<1>2. CASE Resumed
  BY <1>0, <1>2, <1>4, RescheduleKeepsFamilies, ScheduleKeepsFamilies, AppendKeepsFamilies, OthersKeepFamilies DEF Resumed
<1>3. CASE UNCHANGED timetableVars
  <2>1. /\ lessons' = lessons /\ madeFor' = madeFor /\ split' = split /\ debts' = debts
        /\ section' = section /\ task' = task
    BY <1>3 DEF timetableVars, timetableState
  <2>2. KeepsLinks
    BY <2>1 DEF KeepsLinks, Stored
  <2>3. \A o \in Owed : Starting(o)' = Starting(o)
    BY <2>1 DEF Starting, Booking, Did, LastAttempt
  <2>4. FamilyInv'
    BY <1>0, <2>1, <2>2, <2>3, QuietStep
  <2>5. QueueInv'
    BY <2>1 DEF QueueInv, QueuesAreTyped, NoneIsTried, Waits, Did, InSection
  <2> QED
    BY <1>4, <2>4, <2>5
<1> QED
  BY <1>1, <1>2, <1>3 DEF TimetableNext

\* The rules of the timetable that a person relies on hold in the demonstration
\* (scheduling, attendance and compensation localRepository.ts), whichever of
\* its methods wait for each other at an await: a room and a teacher of two
\* classes are in one place at a time, a session that attendance was taken of
\* is not deleted, registrations do not exceed the make-up cap, and "at most
\* one live make-up" of an obligation stands, unless a move went on from one of
\* its sessions after that was moved, cancelled or deleted, two sessions of its
\* lineage were deleted, or it was moved more often than attemptLineageOf follows.
THEOREM TimetableCorrect == TimetableSpec => []TimetableHolds
<1> DEFINE Inv == TimetableInv /\ FamilyInv /\ QueueInv /\ MovesAreBorn
<1>1. TimetableInit => Inv
  BY TimetableStarts, FamiliesStart
<1>2. Inv /\ [TimetableNext]_timetableVars => Inv'
  <2> SUFFICES ASSUME TimetableInv, FamilyInv, QueueInv, MovesAreBorn, [TimetableNext]_timetableVars
               PROVE  TimetableInv' /\ FamilyInv' /\ QueueInv' /\ MovesAreBorn'
    OBVIOUS
  <2>1. TimetableInv'
    BY TimetableKeeps
  <2> QED
    BY <2>1, FamiliesKeep
<1>3. Inv => TimetableHolds
  BY KnownIsOne DEF TimetableInv, RowsHold, DebtsHold, TimetableHolds
<1> HIDE DEF Inv
<1> QED
  BY <1>1, <1>2, <1>3, PTL DEF TimetableSpec

\* What the invariants say of each variable.
LEMMA TimetableIsTyped ==
  ASSUME TimetableInv, QueueInv, begun \in 0..MaxMethods
  PROVE  TimetableTypeOK
<1>0. RowsAreTyped /\ DebtsAreTyped /\ QueuesAreTyped
  BY DEF TimetableInv, RowsHold, DebtsHold, QueueInv
<1>1. \A i \in Lessons : lessons[i] \in Row \/ lessons[i] \in {Unborn, Removed}
  BY <1>0 DEF RowsAreTyped, RowStates
<1>2. \A o \in Owed : /\ debts[o].status \in {"none", "open", "completed"}
                      /\ debts[o].class \in IF assertPairFree(o) THEN {NoLesson} ELSE Courses
                      /\ \A n \in DOMAIN debts[o].attempts : debts[o].attempts[n] \in Lessons
  <2> SUFFICES ASSUME NEW o \in Owed
               PROVE  /\ debts[o].status \in {"none", "open", "completed"}
                      /\ debts[o].class \in IF assertPairFree(o) THEN {NoLesson} ELSE Courses
                      /\ \A n \in DOMAIN debts[o].attempts : debts[o].attempts[n] \in Lessons
    OBVIOUS
  <2>1. /\ debts[o].status \in {"none", "open", "completed"} /\ debts[o].attempts \in Seq(Lessons)
        /\ debts[o].class \in IF assertPairFree(o) THEN {NoLesson} ELSE Courses
    BY <1>0 DEF DebtsAreTyped, Debts, assertPairFree
  <2> QED
    BY <2>1, ElementOfSeq
<1>3. \A t \in Tasks : task[t].op \in {"rest", "move", "register", "schedule", "append", "complete"}
  BY DEF QueueInv, Waits
<1>4. \A o \in Owed : \A n \in DOMAIN section[o] : section[o][n] \in Tasks
  <2> SUFFICES ASSUME NEW o \in Owed, NEW n \in DOMAIN section[o] PROVE section[o][n] \in Tasks
    OBVIOUS
  <2>1. section[o] \in Seq(Tasks)
    BY <1>0 DEF QueuesAreTyped
  <2> QED
    BY <2>1, ElementOfSeq
<1> QED
  BY <1>0, <1>1, <1>2, <1>3, <1>4 DEF TimetableTypeOK, RowsAreTyped, Curricula, QueuesAreTyped

\* Type correctness of the demonstration's timetable.
THEOREM TimetableTypeCorrect == TimetableSpec => []TimetableTypeOK
<1> DEFINE Inv == TimetableInv /\ FamilyInv /\ QueueInv /\ MovesAreBorn /\ begun \in 0..MaxMethods
<1>1. TimetableInit => Inv
  BY TimetableStarts, FamiliesStart, TimetableAssumption DEF TimetableInit, TimetableAssumption
<1>2. Inv /\ [TimetableNext]_timetableVars => Inv'
  <2> SUFFICES ASSUME Inv, [TimetableNext]_timetableVars
               PROVE  TimetableInv' /\ FamilyInv' /\ QueueInv' /\ MovesAreBorn' /\ begun' \in 0..MaxMethods
    OBVIOUS
  <2>1. TimetableInv'
    BY TimetableKeeps
  <2>2. FamilyInv' /\ QueueInv' /\ MovesAreBorn'
    BY <2>1, FamiliesKeep
  <2>3. begun' \in 0..MaxMethods
    BY TimetableAssumption DEF TimetableAssumption, TimetableNext, timetableVars
  <2> QED
    BY <2>1, <2>2, <2>3
<1>3. Inv => TimetableTypeOK
  BY TimetableIsTyped
<1> HIDE DEF Inv
<1> QED
  BY <1>1, <1>2, <1>3, PTL DEF TimetableSpec
=============================================================================
