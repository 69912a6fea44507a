---------------------------- MODULE ResourceList ----------------------------
(***************************************************************************)
(* A list, a record or a file on the screen of the client, and the         *)
(* requests it sends while its query changes, the data change and answers  *)
(* come late, in another order, torn or not at all.  All read hooks of the *)
(* client have one shape and differ in what Profile says of each.          *)
(***************************************************************************)
EXTENDS Naturals

CONSTANTS Keys,        \* queries: list parameters, record ids
          NoKey,       \* no record selected
          Hooks,       \* the read hooks to consider
          MaxTickets,  \* bound on the loads of one hook
          MaxStored    \* bound on the changes of the data

VARIABLES hook,     \* the read hook on the screen
          wanted,   \* the query of the last committed frame
          due,      \* the frame is committed, its effect has not run yet
          ticket,   \* latest.current: how many loads were started
          calls,    \* the loads: query, version of the data read, phase
          shown,    \* the hook's state: key, rows, loading, error
          stored,   \* version of the data behind the repository
          bumped    \* the version that dataVersion last announced

listVars == <<hook, wanted, due, ticket, calls, shown, stored, bumped>>

-----------------------------------------------------------------------------
(* The hooks.  keyed: state carries its query, and what does not answer    *)
(* the query of this render is not exposed, marks: and is reported as      *)
(* loading.  onError: what a failure does to the rows in hand.  optional:  *)
(* nothing may be asked for.  drops: late answers are told apart by a      *)
(* ticket or by a flag that the effect's cleanup sets.  aborts: the        *)
(* cleanup aborts the request.  follows: dataVersion reloads.              *)
useResourceList == [keyed |-> TRUE, marks |-> TRUE, onError |-> "keep", optional |-> FALSE,
                    drops |-> "ticket", aborts |-> TRUE, follows |-> TRUE]
useDerivedRead == [useResourceList EXCEPT !.optional = TRUE]
useDerived == useResourceList
useDomainSearch == [useDerivedRead EXCEPT !.onError = "empty", !.drops = "flag"]
useStudentList == [useResourceList EXCEPT !.keyed = FALSE]
useStudent == [useStudentList EXCEPT !.optional = TRUE, !.onError = "clear"]
useTeacher == useStudent
useClass == useStudent
useSessionAttendance == [useStudent EXCEPT !.onError = "keep"]
useStudentProgress == useSessionAttendance
useMediaObjectUrl == [useDomainSearch EXCEPT !.aborts = FALSE, !.follows = FALSE]
useLibraryFile == [useMediaObjectUrl EXCEPT !.marks = FALSE]

Profile == [useResourceList |-> useResourceList, useDerivedRead |-> useDerivedRead,
            useDerived |-> useDerived, useDomainSearch |-> useDomainSearch,
            useStudentList |-> useStudentList, useStudent |-> useStudent,
            useTeacher |-> useTeacher, useClass |-> useClass,
            useSessionAttendance |-> useSessionAttendance,
            useStudentProgress |-> useStudentProgress,
            useMediaObjectUrl |-> useMediaObjectUrl, useLibraryFile |-> useLibraryFile]

ASSUME ListAssumption == /\ NoKey \notin Keys /\ Hooks \subseteq DOMAIN Profile
                         /\ MaxTickets \in Nat /\ MaxStored \in Nat

Nothing == [of |-> NoKey, at |-> 0, torn |-> FALSE]
Torn(k) == [of |-> k, at |-> 0, torn |-> TRUE]   \* read as an empty page
Page(k, v) == [of |-> k, at |-> v, torn |-> FALSE]
Rows == {Nothing} \cup [of : Keys, at : 0..MaxStored, torn : BOOLEAN]
Call == [key : Keys, at : 0..MaxStored, phase : {"sent", "body", "settled"}, aborted : BOOLEAN]

Is(field) == Profile[hook][field]
MayWant == Keys \cup (IF Is("optional") THEN {NoKey} ELSE {})

(* What the hook returns, derived at render.                               *)
Answering == Is("keyed") => shown.key = wanted
ShownRows == IF Answering THEN shown.rows ELSE Nothing
ShownLoading == IF Answering \/ ~Is("marks") THEN shown.loading ELSE wanted # NoKey
ShownError == Answering /\ shown.error

-----------------------------------------------------------------------------
ListTypeOK ==
    /\ hook \in Hooks /\ wanted \in MayWant /\ due \in BOOLEAN
    /\ ticket \in 0..MaxTickets /\ calls \in [1..ticket -> Call]
    /\ shown \in [key : Keys \cup {NoKey}, rows : Rows, loading : BOOLEAN, error : BOOLEAN]
    /\ stored \in 0..MaxStored /\ bumped \in 0..stored

ListInit ==
    /\ hook \in Hooks /\ wanted \in MayWant /\ due = TRUE
    /\ ticket = 0 /\ calls = <<>>
    /\ shown = [key |-> wanted, rows |-> Nothing, loading |-> wanted # NoKey, error |-> FALSE]
    /\ stored = 0 /\ bumped = 0

(* A frame with another query.  React runs the effects of a frame before   *)
(* it renders the next one.                                                *)
CanLoad == due \/ ticket < MaxTickets
Turn == /\ ~due /\ CanLoad
        /\ wanted' \in MayWant \ {wanted}
        /\ due' = TRUE
        /\ UNCHANGED <<hook, ticket, calls, shown, stored, bumped>>

Reload == /\ ~due /\ CanLoad /\ Is("follows")
          /\ due' = TRUE
          /\ UNCHANGED <<hook, wanted, ticket, calls, shown, stored, bumped>>

(* Somebody writes; if it was this client, dataVersion says so once the    *)
(* write was answered.                                                     *)
StoreChanges == /\ stored < MaxStored
                /\ stored' = stored + 1
                /\ UNCHANGED <<hook, wanted, due, ticket, calls, shown, bumped>>

BumpDataVersionMutant == /\ bumped < stored /\ CanLoad
                         /\ bumped' = stored
                         /\ UNCHANGED <<hook, wanted, due, ticket, calls, shown, stored>>
BumpDataVersion == /\ bumped < stored /\ CanLoad
                   /\ bumped' = stored
                   /\ due' = (due \/ Is("follows"))
                   /\ UNCHANGED <<hook, wanted, ticket, calls, shown, stored>>

(* The cleanup of the last effect and the new one.                         *)
Idle == [key |-> NoKey, rows |-> Nothing, loading |-> FALSE, error |-> FALSE]
BeginMutant == [shown EXCEPT !.key = wanted, !.loading = TRUE]
Begin == IF Is("keyed") /\ shown.key # wanted
         THEN [key |-> wanted, rows |-> Nothing, loading |-> TRUE, error |-> FALSE]
         ELSE [shown EXCEPT !.key = wanted, !.loading = TRUE]

AskNothing == /\ due /\ wanted = NoKey
              /\ due' = FALSE
              /\ calls' = [t \in 1..ticket |-> [calls[t] EXCEPT !.aborted = TRUE]]
              /\ shown' = [Idle EXCEPT !.error = (hook = "useStudentProgress" /\ shown.error)]
              /\ UNCHANGED <<hook, wanted, ticket, stored, bumped>>

Load == /\ due /\ wanted # NoKey /\ ticket < MaxTickets
        /\ due' = FALSE
        /\ ticket' = ticket + 1
        /\ calls' = [t \in 1..ticket + 1 |->
                        IF t <= ticket THEN [calls[t] EXCEPT !.aborted = TRUE]
                        ELSE [key |-> wanted, at |-> 0, phase |-> "sent", aborted |-> FALSE]]
        /\ shown' = Begin
        /\ UNCHANGED <<hook, wanted, stored, bumped>>

(* The server answers: the data are read, the headers are back.            *)
Gone(t) == Is("aborts") /\ calls[t].aborted
Respond(t) == /\ calls[t].phase = "sent" /\ ~Gone(t)
              /\ calls' = [calls EXCEPT ![t].phase = "body", ![t].at = stored]
              /\ UNCHANGED <<hook, wanted, due, ticket, shown, stored, bumped>>

Settle(t) == calls' = [calls EXCEPT ![t].phase = "settled"]

(* .then: only the latest ticket counts, or a load that was not cleaned up. *)
Latest(t) == IF Is("drops") = "ticket" THEN t = ticket ELSE ~calls[t].aborted
Accept(t, rows) ==
    /\ shown' = IF Latest(t)
                THEN [key |-> calls[t].key, rows |-> rows, loading |-> FALSE, error |-> FALSE]
                ELSE shown
    /\ UNCHANGED <<hook, wanted, due, ticket, stored, bumped>>

Deliver(t) == /\ calls[t].phase = "body" /\ ~Gone(t)
              /\ Settle(t)
              /\ Accept(t, Page(calls[t].key, calls[t].at))

(* readBody: a body that breaks off, or whose request is aborted, is an    *)
(* empty one, and an empty body is an empty page or no record.             *)
IsPage == hook \in {"useResourceList", "useStudentList", "useDomainSearch"}
BodyLost(t) == /\ Is("aborts") /\ calls[t].phase = "body"
               /\ Settle(t)
               /\ Accept(t, IF IsPage THEN Torn(calls[t].key) ELSE Nothing)

(* .catch of a cancelled request: nothing.                                 *)
Cancelled(t) == /\ calls[t].phase = "sent" /\ Gone(t)
                /\ Settle(t)
                /\ UNCHANGED <<hook, wanted, due, ticket, shown, stored, bumped>>

FailureMutant(v) == [v EXCEPT !.error = TRUE]
Failure(v) == CASE Is("onError") = "keep" -> [v EXCEPT !.loading = FALSE, !.error = TRUE]
                [] Is("onError") = "clear" -> [v EXCEPT !.rows = Nothing, !.loading = FALSE, !.error = TRUE]
                [] OTHER -> [v EXCEPT !.rows = Nothing, !.loading = FALSE]

(* .catch of a request that failed or timed out.                           *)
Refuse(t) == /\ calls[t].phase = "sent" /\ ~Gone(t)
             /\ Settle(t)
             /\ shown' = IF Latest(t) THEN Failure(shown) ELSE shown
             /\ UNCHANGED <<hook, wanted, due, ticket, stored, bumped>>

Finish == \E t \in 1..ticket : Deliver(t) \/ BodyLost(t) \/ Cancelled(t) \/ Refuse(t)
ListNext == \/ Turn \/ Reload \/ StoreChanges \/ BumpDataVersion
            \/ AskNothing \/ Load \/ (\E t \in 1..ticket : Respond(t)) \/ Finish

ListSpec == ListInit /\ [][ListNext]_listVars

(* React runs effects, and every request ends: answered, failed, aborted   *)
(* or timed out after timeoutMs.                                           *)
ListFairness == WF_listVars(AskNothing) /\ WF_listVars(Load) /\ WF_listVars(Finish)
                /\ WF_listVars(\E t \in 1..ticket : Respond(t))

-----------------------------------------------------------------------------
(* What is on the screen answers the query on the screen.  The hooks       *)
(* without a key promise it only once they are done and well.              *)
ListsAnswerTheirQuery ==
    \/ ShownRows.of \in {NoKey, wanted}
    \/ ~Is("keyed") /\ (due \/ ShownLoading \/ ShownError)

(* A list that has settled shows the data as they were when this client    *)
(* last announced a change, or later.                                      *)
SettledListsAreFresh ==
    (Is("follows") /\ ~due /\ ~ShownLoading /\ ~ShownError /\ ShownRows \notin {Nothing, Torn(wanted)})
        => ShownRows.at >= bumped

(* What a list shows is an answer to its query, and not an outdated one.   *)
ListsShowTheirAnswers == ListsAnswerTheirQuery /\ SettledListsAreFresh

(* No list says forever that it is loading.                                *)
ListsSettle == ShownLoading ~> ~ShownLoading

(* useResourceList keeps the promise of OneQuery; a screen with another    *)
(* hook is mapped to a list that waits.                                    *)
Pages(k) == {Torn(k)} \cup {Page(k, v) : v \in 0..MaxStored}
IsList == hook = "useResourceList"
ListPromise == INSTANCE OneQuery WITH
    Queries <- Keys \cup {NoKey}, Answers <- Pages,
    query <- IF IsList THEN wanted ELSE NoKey,
    rows <- IF IsList THEN ShownRows ELSE Nothing,
    busy <- IsList => ShownLoading
ListKeepsPromise == ListPromise!OneQuerySpec
=============================================================================
