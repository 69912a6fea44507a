-------------------------- MODULE ResourceListProofs --------------------------
(* Proofs about ResourceList: typing, that every read hook shows only      *)
(* fresh answers to its own query, and that useResourceList implements     *)
(* OneQuery; about StudentImport: what was confirmed is what is written;   *)
(* and about Showcase: what the gallery and the library show is there.      *)
EXTENDS ResourceList, StudentImport, Showcase, FiniteSetTheorems, SequenceTheorems, WellFoundedInduction, TLAPS

\* What the twelve hooks have in common, as far as the proofs need it.
HookFacts ==
  /\ hook \in DOMAIN Profile
  /\ ~Is("keyed") => Is("aborts") /\ Is("drops") = "ticket" /\ Is("marks") /\ Is("onError") # "empty"
  /\ Is("optional") /\ IsPage => Is("drops") = "flag"
  /\ Is("follows") => Is("aborts")
  /\ IsList => /\ Is("keyed") /\ Is("marks") /\ Is("onError") = "keep" /\ ~Is("optional")
               /\ Is("drops") = "ticket"

LEMMA Hooked == ASSUME hook \in Hooks PROVE HookFacts
<1> USE DEF HookFacts, Is, IsPage, IsList
<1>0. DOMAIN Profile = {"useResourceList", "useDerivedRead", "useDerived", "useDomainSearch",
        "useStudentList", "useStudent", "useTeacher", "useClass", "useSessionAttendance",
        "useStudentProgress", "useMediaObjectUrl", "useLibraryFile"}
  BY DEF Profile
<1>1. hook \in DOMAIN Profile
  BY ListAssumption
<1>2. CASE hook \in {"useResourceList", "useDerived"}
  BY <1>1, <1>2 DEF Profile, useResourceList, useDerived
<1>3. CASE hook = "useDerivedRead"
  BY <1>1, <1>3 DEF Profile, useResourceList, useDerivedRead
<1>4. CASE hook = "useDomainSearch"
  BY <1>1, <1>4 DEF Profile, useResourceList, useDerivedRead, useDomainSearch
<1>5. CASE hook = "useMediaObjectUrl"
  BY <1>1, <1>5 DEF Profile, useResourceList, useDerivedRead, useDomainSearch, useMediaObjectUrl
<1>6. CASE hook = "useLibraryFile"
  BY <1>1, <1>6 DEF Profile, useResourceList, useDerivedRead, useDomainSearch, useMediaObjectUrl,
                    useLibraryFile
<1>7. CASE hook = "useStudentList"
  BY <1>1, <1>7 DEF Profile, useResourceList, useStudentList
<1>8. CASE hook \in {"useStudent", "useTeacher", "useClass", "useSessionAttendance",
                     "useStudentProgress"}
  <2>1. /\ useStudentList.aborts /\ useStudentList.drops = "ticket" /\ useStudentList.marks
        /\ ~useStudentList.keyed
        /\ DOMAIN useStudentList = {"keyed", "marks", "onError", "optional", "drops", "aborts",
                                    "follows"}
    BY DEF useStudentList, useResourceList
  <2>2. /\ useStudent.aborts /\ useStudent.drops = "ticket" /\ useStudent.marks
        /\ ~useStudent.keyed /\ useStudent.onError = "clear"
        /\ DOMAIN useStudent = {"keyed", "marks", "onError", "optional", "drops", "aborts",
                                "follows"}
    BY <2>1 DEF useStudent
  <2>3. /\ useSessionAttendance.aborts /\ useSessionAttendance.drops = "ticket"
        /\ useSessionAttendance.marks
        /\ ~useSessionAttendance.keyed /\ useSessionAttendance.onError = "keep"
    BY <2>2 DEF useSessionAttendance
  <2>4. Profile[hook] \in {useStudent, useSessionAttendance}
    BY <1>1, <1>8 DEF Profile, useTeacher, useClass, useStudentProgress
  <2> QED
    BY <1>1, <1>8, <2>2, <2>3, <2>4
<1> QED
  BY <1>0, <1>1, <1>2, <1>3, <1>4, <1>5, <1>6, <1>7, <1>8

-----------------------------------------------------------------------------
(* Typing                                                                  *)

LEMMA InitTyped == ListInit => ListTypeOK
<1> SUFFICES ASSUME ListInit PROVE ListTypeOK
  OBVIOUS
<1>1. calls \in [1..ticket -> Call]
  <2>1. 1..ticket = {}
    BY DEF ListInit
  <2> QED
    BY <2>1 DEF ListInit
<1>2. wanted \in Keys \cup {NoKey}
  BY DEF ListInit, MayWant
<1> QED
  BY <1>1, <1>2, ListAssumption DEF ListInit, ListTypeOK, Rows

\* A page, a torn page and no page, by their fields.
LEMMA RowFields ==
  /\ Nothing.of = NoKey /\ Nothing.at = 0
  /\ \A k, v : Page(k, v).of = k /\ Page(k, v).at = v
  /\ \A k : Torn(k).of = k /\ Torn(k).at = 0
BY DEF Nothing, Page, Torn

LEMMA RowTypes ==
  /\ Nothing \in Rows
  /\ \A k \in Keys : Torn(k) \in Rows
  /\ \A k \in Keys, v \in 0..MaxStored : Page(k, v) \in Rows
<1>1. 0 \in 0..MaxStored
  BY ListAssumption
<1> QED
  BY <1>1 DEF Rows, Nothing, Page, Torn

\* How an answer, its loss or a failure changes the hook's state.
Outcome(t, rows) ==
  \/ rows = Page(calls[t].key, calls[t].at) /\ ~Gone(t)
  \/ rows = Torn(calls[t].key) /\ IsPage
  \/ rows = Nothing /\ ~IsPage

LEMMA FinishShape ==
  ASSUME ListTypeOK, NEW t \in 1..ticket, Deliver(t) \/ BodyLost(t) \/ Cancelled(t) \/ Refuse(t)
  PROVE  /\ UNCHANGED <<hook, wanted, due, ticket, stored, bumped>>
         /\ calls' = [calls EXCEPT ![t].phase = "settled"]
         /\ calls[t].phase # "settled"
         /\ \/ shown' = shown /\ (Latest(t) => Gone(t))
            \/ /\ Latest(t) /\ calls[t].phase = "body"
               /\ \E rows : /\ Outcome(t, rows)
                            /\ shown' = [key |-> calls[t].key, rows |-> rows,
                                         loading |-> FALSE, error |-> FALSE]
            \/ Latest(t) /\ shown' = Failure(shown)
<1>1. CASE Deliver(t)
  BY <1>1 DEF Deliver, Accept, Settle, Outcome
<1>2. CASE BodyLost(t)
  BY <1>2 DEF BodyLost, Accept, Settle, Outcome
<1>3. CASE Cancelled(t)
  BY <1>3 DEF Cancelled, Settle
<1>4. CASE Refuse(t)
  BY <1>4 DEF Refuse, Settle
<1> QED
  BY <1>1, <1>2, <1>3, <1>4

LEMMA NextTyped == ListTypeOK /\ [ListNext]_listVars => ListTypeOK'
<1> SUFFICES ASSUME ListTypeOK, [ListNext]_listVars PROVE ListTypeOK'
  OBVIOUS
<1> USE ListAssumption
<1>0. MayWant \subseteq Keys \cup {NoKey} /\ (hook' = hook => MayWant' = MayWant)
  BY DEF MayWant, Is
<1>1. CASE Turn \/ Reload \/ StoreChanges \/ BumpDataVersion
  <2>1. CASE Turn \/ Reload
    BY <1>0, <2>1 DEF Turn, Reload, ListTypeOK
  <2>2. CASE StoreChanges
    BY <1>0, <2>2 DEF StoreChanges, ListTypeOK
  <2>3. CASE BumpDataVersion
    <3>1. due' \in BOOLEAN
      BY <2>3, Zenon DEF BumpDataVersion
    <3>2. bumped' \in 0..stored' /\ UNCHANGED <<hook, wanted, ticket, calls, shown, stored>>
      BY <2>3 DEF BumpDataVersion, ListTypeOK
    <3> QED
      BY <1>0, <3>1, <3>2 DEF ListTypeOK
  <2> QED
    BY <1>1, <2>1, <2>2, <2>3
<1>2. CASE AskNothing
  <2>1. calls' \in [1..ticket -> Call]
    BY <1>2 DEF AskNothing, ListTypeOK, Call
  <2>2. shown' \in [key : Keys \cup {NoKey}, rows : Rows, loading : BOOLEAN, error : BOOLEAN]
    BY <1>2, RowTypes DEF AskNothing, ListTypeOK, Idle
  <2> QED
    BY <1>0, <1>2, <2>1, <2>2 DEF AskNothing, ListTypeOK
<1>3. CASE Load
  <2>1. wanted \in Keys
    BY <1>0, <1>3 DEF Load, ListTypeOK
  <2>2. calls' \in [1..ticket' -> Call]
    <3>1. calls' = [t \in 1..ticket' |->
                      IF t <= ticket THEN [calls[t] EXCEPT !.aborted = TRUE]
                      ELSE [key |-> wanted, at |-> 0, phase |-> "sent", aborted |-> FALSE]]
      BY <1>3 DEF Load
    <3>2. ASSUME NEW t \in 1..ticket', t <= ticket PROVE calls'[t] \in Call
      <4>1. calls[t] \in Call
        BY <3>2 DEF ListTypeOK
      <4> QED
        BY <3>1, <3>2, <4>1 DEF Call
    <3>3. ASSUME NEW t \in 1..ticket', ~(t <= ticket) PROVE calls'[t] \in Call
      BY <2>1, <3>1, <3>3 DEF Call
    <3> QED
      BY <3>1, <3>2, <3>3
  <2>3. shown' \in [key : Keys \cup {NoKey}, rows : Rows, loading : BOOLEAN, error : BOOLEAN]
    BY <1>3, <2>1, RowTypes DEF Load, Begin, ListTypeOK
  <2>4. ticket' \in 0..MaxTickets
    BY <1>3 DEF Load, ListTypeOK
  <2> QED
    BY <1>0, <1>3, <2>2, <2>3, <2>4 DEF Load, ListTypeOK
<1>4. ASSUME NEW t \in 1..ticket, Respond(t) PROVE ListTypeOK'
  <2>1. calls' \in [1..ticket -> Call]
    <3>1. calls[t] \in Call /\ stored \in 0..MaxStored
      BY DEF ListTypeOK
    <3> DEFINE c == [[calls[t] EXCEPT !.phase = "body"] EXCEPT !.at = stored]
    <3>2. c \in Call
      BY <3>1 DEF Call
    <3>3. calls' = [calls EXCEPT ![t] = c]
      BY <1>4, Zenon DEF Respond, ListTypeOK
    <3> HIDE DEF c
    <3> QED
      BY <3>2, <3>3 DEF ListTypeOK
  <2> QED
    BY <1>0, <1>4, <2>1 DEF Respond, ListTypeOK
<1>5. CASE Finish
  <2>1. PICK t \in 1..ticket : Deliver(t) \/ BodyLost(t) \/ Cancelled(t) \/ Refuse(t)
    BY <1>5 DEF Finish
  <2>2. /\ UNCHANGED <<hook, wanted, due, ticket, stored, bumped>>
        /\ calls' = [calls EXCEPT ![t].phase = "settled"]
        /\ \/ shown' = shown
           \/ \E rows : /\ Outcome(t, rows)
                        /\ shown' = [key |-> calls[t].key, rows |-> rows,
                                     loading |-> FALSE, error |-> FALSE]
           \/ shown' = Failure(shown)
    BY <2>1, FinishShape
  <2>3. calls' \in [1..ticket -> Call]
    BY <2>2 DEF ListTypeOK, Call
  <2>4. calls[t].key \in Keys /\ calls[t].at \in 0..MaxStored
    BY DEF ListTypeOK, Call
  <2>5. \A rows : Outcome(t, rows) => rows \in Rows
    BY <2>4, RowTypes DEF Outcome
  <2>6. shown' \in [key : Keys \cup {NoKey}, rows : Rows, loading : BOOLEAN, error : BOOLEAN]
    <3> DEFINE Shown == [key : Keys \cup {NoKey}, rows : Rows, loading : BOOLEAN, error : BOOLEAN]
    <3>1. \A rows \in Rows : [key |-> calls[t].key, rows |-> rows,
                              loading |-> FALSE, error |-> FALSE] \in Shown
      BY <2>4
    <3>2. Failure(shown) \in Shown
      BY RowTypes DEF ListTypeOK, Failure
    <3>3. shown \in Shown
      BY DEF ListTypeOK
    <3> QED
      BY <2>2, <2>5, <3>1, <3>2, <3>3
  <2> QED
    BY <1>0, <2>2, <2>3, <2>6 DEF ListTypeOK
<1>6. CASE UNCHANGED listVars
  BY <1>0, <1>6 DEF listVars, ListTypeOK
<1> QED
  BY <1>1, <1>2, <1>3, <1>4, <1>5, <1>6 DEF ListNext

\* Whatever order queries, loads, answers and changes of the data come in, the
\* state of every read hook is well typed.
THEOREM ResourceListTypeOK == ListSpec => []ListTypeOK
  BY InitTyped, NextTyped, PTL DEF ListSpec

-----------------------------------------------------------------------------
(***************************************************************************)
(* What is shown answers the query on the screen and is fresh.  Once the   *)
(* effect of a frame has run, only the load of that frame can still change *)
(* the hook's state; it asks for the wanted query, and it reads the data   *)
(* after the last announced change, which would have made it due again.    *)
(***************************************************************************)

RowShape ==
  \/ shown.rows = Nothing
  \/ \E k \in Keys : shown.rows = Torn(k)
  \/ \E k \in Keys, v \in 0..MaxStored : shown.rows = Page(k, v)

RowsOfKey == Is("keyed") => shown.rows.of \in {NoKey, shown.key}

LatestWanted ==
  ~due => \A t \in 1..ticket :
    Latest(t) => calls[t].key = wanted \/ (calls[t].aborted /\ wanted = NoKey)

UnkeyedHonest ==
  ~Is("keyed") /\ ~due => shown.loading \/ shown.error \/ shown.rows.of \in {NoKey, wanted}

LatestFresh ==
  Is("follows") /\ ~due =>
    \A t \in 1..ticket :
      Latest(t) /\ ~Gone(t) /\ calls[t].phase = "body" => calls[t].at >= bumped

RowsFresh ==
  Is("follows") /\ ~due =>
    \/ shown.loading \/ shown.error \/ shown.rows.at >= bumped
    \/ shown.rows = Nothing \/ \E k \in Keys : shown.rows = Torn(k)

ListInv ==
  /\ ListTypeOK
  /\ RowShape /\ RowsOfKey
  /\ LatestWanted /\ UnkeyedHonest
  /\ LatestFresh /\ RowsFresh

LEMMA InitListInv == ListInit => ListInv
<1> SUFFICES ASSUME ListInit PROVE ListInv
  OBVIOUS
<1> QED
  BY InitTyped, RowFields DEF ListInit, ListInv, RowShape, RowsOfKey, LatestWanted, UnkeyedHonest,
     LatestFresh, RowsFresh

\* Another frame, another change of the data: nothing is shown that was not.
LEMMA FrameListInv ==
  ASSUME ListInv, ListTypeOK', Turn \/ Reload \/ StoreChanges \/ BumpDataVersion
  PROVE  ListInv'
<1> USE DEF ListInv
<1>1. UNCHANGED <<hook, ticket, calls, shown>>
  BY DEF Turn, Reload, StoreChanges, BumpDataVersion
<1>2. RowShape' /\ RowsOfKey'
  BY <1>1 DEF RowShape, RowsOfKey, Is
<1>3. CASE due'
  BY <1>2, <1>3 DEF LatestWanted, UnkeyedHonest, LatestFresh, RowsFresh
<1>4. CASE ~due'
  <2>1. due' = due /\ wanted' = wanted /\ (Is("follows") => bumped' = bumped)
    BY <1>4 DEF Turn, Reload, StoreChanges, BumpDataVersion, ListTypeOK
  <2> QED
    BY <1>1, <1>2, <1>4, <2>1
    DEF LatestWanted, UnkeyedHonest, LatestFresh, RowsFresh, Latest, Gone, Is
<1> QED
  BY <1>3, <1>4

LEMMA AskNothingListInv ==
  ASSUME ListInv, ListTypeOK', AskNothing
  PROVE  ListInv'
<1> USE DEF ListInv
<1>1. /\ UNCHANGED <<hook, wanted, ticket>> /\ wanted = NoKey /\ ~due'
      /\ \A t \in 1..ticket : calls'[t].aborted
      /\ shown'.rows = Nothing /\ shown'.key = NoKey
  BY DEF AskNothing, Idle, ListTypeOK, Call
<1>2. Is("follows") => Is("aborts")
  BY Hooked DEF ListTypeOK, HookFacts
<1> QED
  BY <1>1, <1>2, RowFields
  DEF RowShape, RowsOfKey, LatestWanted, UnkeyedHonest, LatestFresh, RowsFresh, Gone, Is

LEMMA LoadListInv ==
  ASSUME ListInv, ListTypeOK', Load
  PROVE  ListInv'
<1> USE DEF ListInv
<1>1. /\ UNCHANGED <<hook, wanted>> /\ ticket' = ticket + 1 /\ ticket \in Nat
      /\ shown'.loading /\ shown'.key = wanted
      /\ shown'.rows = shown.rows \/ shown'.rows = Nothing
      /\ shown'.rows # Nothing => (Is("keyed") => shown.key = wanted)
  BY ListAssumption DEF Load, Begin, ListTypeOK
<1>2. /\ calls'[ticket + 1].key = wanted /\ calls'[ticket + 1].phase = "sent"
      /\ \A t \in 1..ticket : calls'[t].aborted
  <2> DEFINE new == [key |-> wanted, at |-> 0, phase |-> "sent", aborted |-> FALSE]
             old(t) == [calls[t] EXCEPT !.aborted = TRUE]
  <2>1. calls' = [t \in 1..ticket + 1 |-> IF t <= ticket THEN old(t) ELSE new]
    BY DEF Load
  <2>2. calls'[ticket + 1] = new
    <3> HIDE DEF new, old
    <3> QED  BY <1>1, <2>1
  <2>3. ASSUME NEW t \in 1..ticket PROVE calls'[t].aborted
    <3>1. calls'[t] = old(t)
      <4> HIDE DEF new, old
      <4> QED  BY <1>1, <2>1
    <3>2. calls[t] \in Call
      BY DEF ListTypeOK
    <3> QED
      BY <3>1, <3>2 DEF Call
  <2> QED
    BY <2>2, <2>3
<1>3. \A t \in 1..ticket' : Latest(t)' => t = ticket + 1
  BY <1>1, <1>2 DEF Latest, Is
<1>4. LatestWanted' /\ LatestFresh'
  BY <1>1, <1>2, <1>3 DEF LatestWanted, LatestFresh
<1>5. RowShape'
  BY <1>1 DEF RowShape
<1>6. RowsOfKey'
  BY <1>1, RowFields DEF RowsOfKey, Is
<1> QED
  BY <1>1, <1>4, <1>5, <1>6 DEF UnkeyedHonest, RowsFresh

LEMMA RespondListInv ==
  ASSUME ListInv, ListTypeOK', NEW t \in 1..ticket, Respond(t)
  PROVE  ListInv'
<1> USE DEF ListInv
<1>1. /\ UNCHANGED <<hook, wanted, due, ticket, shown, stored, bumped>>
      /\ calls'[t].at = stored
      /\ \A u \in 1..ticket : /\ calls'[u].key = calls[u].key
                              /\ calls'[u].aborted = calls[u].aborted
                              /\ u # t => calls'[u] = calls[u]
  BY DEF Respond, ListTypeOK, Call
<1>2. stored >= bumped
  BY DEF ListTypeOK
<1>3. \A u \in 1..ticket : (Latest(u)' <=> Latest(u)) /\ (Gone(u)' <=> Gone(u))
  BY <1>1 DEF Latest, Gone, Is
<1>4. LatestWanted' /\ LatestFresh'
  BY <1>1, <1>2, <1>3 DEF LatestWanted, LatestFresh, Is
<1> QED
  BY <1>1, <1>4 DEF RowShape, RowsOfKey, UnkeyedHonest, RowsFresh, Is

LEMMA FinishListInv ==
  ASSUME ListInv, ListTypeOK', Finish
  PROVE  ListInv'
<1> USE DEF ListInv
<1>1. PICK t \in 1..ticket : Deliver(t) \/ BodyLost(t) \/ Cancelled(t) \/ Refuse(t)
  BY DEF Finish
<1>2. /\ UNCHANGED <<hook, wanted, due, ticket, stored, bumped>>
      /\ calls' = [calls EXCEPT ![t].phase = "settled"]
      /\ \/ shown' = shown
         \/ /\ Latest(t) /\ calls[t].phase = "body"
            /\ \E rows : /\ Outcome(t, rows)
                         /\ shown' = [key |-> calls[t].key, rows |-> rows,
                                      loading |-> FALSE, error |-> FALSE]
         \/ Latest(t) /\ shown' = Failure(shown)
  BY <1>1, FinishShape
<1>3. \A u \in 1..ticket : /\ calls'[u].key = calls[u].key
                           /\ calls'[u].aborted = calls[u].aborted
                           /\ u # t => calls'[u] = calls[u]
                           /\ calls'[t].phase = "settled"
  BY <1>2 DEF ListTypeOK, Call
<1>4. \A u \in 1..ticket : (Latest(u)' <=> Latest(u)) /\ (Gone(u)' <=> Gone(u))
  BY <1>2, <1>3 DEF Latest, Gone, Is
<1>5. LatestWanted' /\ LatestFresh'
  BY <1>2, <1>3, <1>4 DEF LatestWanted, LatestFresh, Is
<1>6. HookFacts
  BY Hooked DEF ListTypeOK
<1>7. CASE shown' = shown
  BY <1>2, <1>5, <1>7 DEF RowShape, RowsOfKey, UnkeyedHonest, RowsFresh, Is
<1>8. ASSUME Latest(t), calls[t].phase = "body", NEW rows, Outcome(t, rows),
             shown' = [key |-> calls[t].key, rows |-> rows, loading |-> FALSE, error |-> FALSE]
      PROVE  ListInv'
  <2>1. /\ calls[t].key \in Keys /\ calls[t].at \in 0..MaxStored
        /\ shown'.key = calls[t].key /\ shown'.rows = rows
    BY <1>8 DEF ListTypeOK, Call
  <2>2. RowShape' /\ RowsOfKey'
    BY <1>2, <1>8, <2>1, RowFields DEF RowShape, RowsOfKey, Outcome, Is
  <2>3. UnkeyedHonest'
    <3> SUFFICES ASSUME ~Is("keyed"), ~due PROVE rows.of \in {NoKey, wanted}
      BY <1>2, <2>1 DEF UnkeyedHonest, Is
    <3>1. CASE calls[t].key = wanted
      BY <1>8, <3>1, RowFields DEF Outcome
    <3>2. CASE calls[t].aborted /\ wanted = NoKey
      <4>1. Gone(t)
        BY <1>6, <3>2 DEF Gone, HookFacts
      <4>2. ~IsPage
        <5>1. Is("optional")
          BY <3>2, ListAssumption DEF ListTypeOK, MayWant
        <5> QED
          BY <1>6, <5>1 DEF HookFacts
      <4> QED
        BY <1>8, <4>1, <4>2, RowFields DEF Outcome
    <3> QED
      BY <1>8, <3>1, <3>2 DEF LatestWanted
  <2>4. RowsFresh'
    BY <1>2, <1>8, <2>1, RowFields DEF RowsFresh, LatestFresh, Outcome, Is
  <2> QED
    BY <1>5, <2>2, <2>3, <2>4
<1>9. CASE Latest(t) /\ shown' = Failure(shown)
  <2>1. /\ shown'.key = shown.key
        /\ \/ shown'.rows = shown.rows
           \/ shown'.rows = Nothing
        /\ \/ shown'.rows = Nothing
           \/ shown'.error
    BY <1>9 DEF Failure, ListTypeOK
  <2> QED
    BY <1>2, <1>5, <2>1, RowFields DEF RowShape, RowsOfKey, UnkeyedHonest, RowsFresh, Is
<1> QED
  BY <1>2, <1>7, <1>8, <1>9

LEMMA NextListInv == ListInv /\ [ListNext]_listVars => ListInv'
<1> SUFFICES ASSUME ListInv, [ListNext]_listVars PROVE ListInv'
  OBVIOUS
<1>1. ListTypeOK'
  BY NextTyped DEF ListInv
<1>2. CASE ListNext
  BY <1>1, <1>2, FrameListInv, AskNothingListInv, LoadListInv, RespondListInv, FinishListInv
  DEF ListNext
<1>3. CASE UNCHANGED listVars
  BY <1>1, <1>3
  DEF listVars, ListInv, RowShape, RowsOfKey, LatestWanted, UnkeyedHonest, LatestFresh, RowsFresh,
      Latest, Gone, Is
<1> QED
  BY <1>2, <1>3

\* In each of the twelve read hooks, for any queries, loads and changes of the
\* data, in any order of answers: what is shown answers the query on the
\* screen, and is no older than the change this client announced last.
THEOREM ResourceListShowsItsAnswers == ListSpec => []ListsShowTheirAnswers
<1>1. ListInv => ListsShowTheirAnswers
  <2> SUFFICES ASSUME ListInv PROVE ListsShowTheirAnswers
    OBVIOUS
  <2> USE DEF ListInv
  <2>1. HookFacts
    BY Hooked DEF ListTypeOK
  <2>2. ListsAnswerTheirQuery
    BY <2>1, RowFields
    DEF ListsAnswerTheirQuery, ShownRows, ShownLoading, ShownError, Answering, RowsOfKey,
        UnkeyedHonest, HookFacts
  <2>3. SettledListsAreFresh
    <3> SUFFICES ASSUME Is("follows"), ~due, ~ShownLoading, ~ShownError,
                        ShownRows # Nothing, ShownRows # Torn(wanted)
                 PROVE  ShownRows.at >= bumped
      BY DEF SettledListsAreFresh
    <3>1. Answering /\ ShownRows = shown.rows /\ ~shown.loading /\ ~shown.error
      BY DEF ShownRows, ShownLoading, ShownError, Answering
    <3>2. shown.rows.of \in {NoKey, wanted}
      BY <2>2, <3>1 DEF ListsAnswerTheirQuery
    <3>3. \A k \in Keys : shown.rows # Torn(k)
      BY <3>1, <3>2, RowFields, ListAssumption
    <3> QED
      BY <3>1, <3>3 DEF RowsFresh
  <2> QED
    BY <2>2, <2>3 DEF ListsShowTheirAnswers
<1> QED
  BY <1>1, InitListInv, NextListInv, PTL DEF ListSpec

-----------------------------------------------------------------------------
(***************************************************************************)
(* useResourceList implements OneQuery.  Its state always belongs to the   *)
(* query of its latest load, which is pending exactly while the state says *)
(* that it is loading; so only a pending load changes what is shown, and a *)
(* frame with another query shows nothing at once.                         *)
(***************************************************************************)

LoadedKey ==
  IsList =>
    /\ wanted \in Keys
    /\ ~due => shown.key = wanted
    /\ ticket > 0 => /\ calls[ticket].key = shown.key
                     /\ calls[ticket].phase # "settled" => shown.loading

PromiseInv == ListInv /\ LoadedKey

LEMMA ListProfile ==
  IsList => /\ Is("keyed") /\ Is("marks") /\ Is("onError") = "keep" /\ ~Is("optional")
            /\ Is("drops") = "ticket"
BY DEF IsList, Is, Profile, useResourceList

LEMMA InitPromiseInv == ListInit => PromiseInv
<1> SUFFICES ASSUME ListInit PROVE PromiseInv
  OBVIOUS
<1> QED
  BY InitListInv, ListProfile DEF ListInit, PromiseInv, LoadedKey, MayWant

LEMMA NextPromiseInv == PromiseInv /\ [ListNext]_listVars => PromiseInv'
<1> SUFFICES ASSUME PromiseInv, [ListNext]_listVars PROVE PromiseInv'
  OBVIOUS
<1>1. ListInv'
  BY NextListInv DEF PromiseInv
<1> USE DEF PromiseInv
<1>2. ListTypeOK /\ ListTypeOK' /\ ticket \in Nat
  BY <1>1, ListAssumption DEF ListInv, ListTypeOK
<1>3. hook' = hook
  BY DEF ListNext, Turn, Reload, StoreChanges, BumpDataVersion, AskNothing, Load, Respond, Finish,
         Deliver, BodyLost, Cancelled, Refuse, Accept, listVars
<1> SUFFICES ASSUME IsList PROVE LoadedKey'
  BY <1>1, <1>3 DEF LoadedKey, IsList
<1>4. Is("keyed") /\ Is("onError") = "keep" /\ MayWant = Keys /\ Is("drops") = "ticket"
  BY ListProfile DEF MayWant
<1>5. CASE Turn \/ Reload \/ StoreChanges \/ BumpDataVersion
  BY <1>4, <1>5 DEF Turn, Reload, StoreChanges, BumpDataVersion, LoadedKey
<1>6. CASE AskNothing
  BY <1>6, ListAssumption DEF AskNothing, LoadedKey
<1>7. CASE Load
  <2>1. calls'[ticket + 1].key = wanted
    BY <1>2, <1>7 DEF Load
  <2>2. ticket' = ticket + 1 /\ wanted' = wanted /\ shown'.key = wanted /\ shown'.loading
    BY <1>2, <1>7 DEF Load, Begin, ListTypeOK
  <2> QED
    BY <1>2, <2>1, <2>2 DEF LoadedKey
<1>8. ASSUME NEW t \in 1..ticket, Respond(t) PROVE LoadedKey'
  <2>1. calls'[ticket].key = calls[ticket].key
        /\ (calls[ticket].phase = "settled" => calls'[ticket].phase = "settled")
    BY <1>2, <1>8 DEF Respond, ListTypeOK, Call
  <2> QED
    BY <1>8, <2>1 DEF Respond, LoadedKey
<1>9. CASE Finish
  <2>1. PICK t \in 1..ticket : Deliver(t) \/ BodyLost(t) \/ Cancelled(t) \/ Refuse(t)
    BY <1>9 DEF Finish
  <2>2. /\ UNCHANGED <<hook, wanted, due, ticket, stored, bumped>>
        /\ calls' = [calls EXCEPT ![t].phase = "settled"]
        /\ \/ shown' = shown
           \/ /\ Latest(t) /\ calls[t].phase = "body"
              /\ \E rows : /\ Outcome(t, rows)
                           /\ shown' = [key |-> calls[t].key, rows |-> rows,
                                        loading |-> FALSE, error |-> FALSE]
           \/ Latest(t) /\ shown' = Failure(shown)
    BY <1>2, <2>1, FinishShape
  <2>3. Latest(t) <=> t = ticket
    BY <1>4 DEF Latest
  <2>4. /\ calls'[ticket].key = calls[ticket].key
        /\ t = ticket => calls'[ticket].phase = "settled"
        /\ t # ticket => calls'[ticket] = calls[ticket]
    BY <1>2, <2>2 DEF ListTypeOK, Call
  <2>5. shown'.key = shown.key /\ (shown' = shown \/ t = ticket)
    <3>1. CASE t = ticket /\ shown'.key = calls[t].key
      BY <1>2, <3>1 DEF LoadedKey
    <3>2. CASE t = ticket /\ shown' = Failure(shown)
      <4>1. Failure(shown) = [[shown EXCEPT !.loading = FALSE] EXCEPT !.error = TRUE]
        BY <1>4 DEF Failure
      <4> QED
        BY <1>2, <3>2, <4>1 DEF ListTypeOK
    <3> QED
      BY <2>2, <2>3, <3>1, <3>2
  <2> QED
    BY <1>2, <2>2, <2>4, <2>5 DEF LoadedKey
<1>10. CASE UNCHANGED listVars
  BY <1>10 DEF listVars, LoadedKey
<1> QED
  BY <1>5, <1>6, <1>7, <1>8, <1>9, <1>10 DEF ListNext

LEMMA InitIsPromised == ListInit => ListPromise!OneQueryInit
<1> SUFFICES ASSUME ListInit PROVE ListPromise!OneQueryInit
  OBVIOUS
<1>1. IsList => wanted \in Keys /\ ShownRows = Nothing /\ ShownLoading
  <2> SUFFICES ASSUME IsList PROVE wanted \in Keys /\ ShownRows = Nothing /\ ShownLoading
    OBVIOUS
  <2>1. wanted \in Keys /\ wanted # NoKey
    BY ListProfile, ListAssumption DEF ListInit, MayWant
  <2>2. shown.key = wanted /\ shown.rows = Nothing /\ shown.loading
    BY <2>1 DEF ListInit
  <2> QED
    BY <2>1, <2>2 DEF ShownRows, ShownLoading, Answering
<1> QED
  BY <1>1 DEF ListPromise!OneQueryInit

\* What one step of the list is to OneQuery.
PromisedStep ==
  \/ ListPromise!OneQueryNext
  \/ UNCHANGED <<IF IsList THEN wanted ELSE NoKey,
                 IF IsList THEN ShownRows ELSE Nothing,
                 IsList => ShownLoading>>

LEMMA StepIsPromised == PromiseInv /\ PromiseInv' /\ [ListNext]_listVars => PromisedStep
<1> SUFFICES ASSUME PromiseInv, PromiseInv', [ListNext]_listVars PROVE PromisedStep
  OBVIOUS
<1> USE DEF PromiseInv
<1>2. ListTypeOK /\ ListTypeOK' /\ ticket \in Nat
  BY ListAssumption DEF ListInv, ListTypeOK
<1>3. hook' = hook
  BY DEF ListNext, Turn, Reload, StoreChanges, BumpDataVersion, AskNothing, Load, Respond, Finish,
         Deliver, BodyLost, Cancelled, Refuse, Accept, listVars
<1>4. CASE ~IsList
  BY <1>3, <1>4 DEF PromisedStep, IsList
<1>5. CASE IsList
  <2>1. IsList' /\ Is("keyed") /\ Is("marks") /\ Is("drops") = "ticket" /\ wanted \in Keys
        /\ Is("onError") = "keep" /\ MayWant = Keys
    BY <1>3, <1>5, ListProfile DEF IsList, LoadedKey, MayWant
  <2>2. /\ ShownRows = IF shown.key = wanted THEN shown.rows ELSE Nothing
        /\ ShownRows' = IF shown'.key = wanted' THEN shown'.rows ELSE Nothing
        /\ ShownLoading <=> (shown.key = wanted => shown.loading)
        /\ ShownLoading' <=> (shown'.key = wanted' => shown'.loading)
    BY <1>3, <2>1, ListAssumption, ListProfile
    DEF ShownRows, ShownLoading, Answering, LoadedKey, Is
  <2>3. CASE Turn
    <3>1. /\ wanted' \in (Keys \cup {NoKey}) \ {wanted} /\ shown'.key # wanted'
      BY <1>5, <2>1, <2>3 DEF Turn, LoadedKey
    <3>2. ShownRows' = Nothing /\ ShownLoading'
      BY <2>2, <3>1
    <3> QED
      BY <1>5, <2>1, <3>1, <3>2 DEF PromisedStep, ListPromise!OneQueryNext, ListPromise!Ask
  <2>4. ASSUME UNCHANGED <<wanted, shown>> PROVE PromisedStep
    BY <1>5, <2>1, <2>2, <2>4 DEF PromisedStep
  <2>5. CASE Reload \/ StoreChanges \/ BumpDataVersion \/ (\E t \in 1..ticket : Respond(t))
             \/ UNCHANGED listVars
    BY <2>4, <2>5 DEF Reload, StoreChanges, BumpDataVersion, Respond, listVars
  <2>6. CASE AskNothing
    BY <2>1, <2>6, ListAssumption DEF AskNothing
  <2>7. CASE Load
    <3>1. /\ wanted' = wanted /\ shown'.key = wanted /\ shown'.loading
          /\ shown'.rows = IF shown.key = wanted THEN shown.rows ELSE Nothing
      BY <1>2, <2>1, <2>7 DEF Load, Begin, ListTypeOK
    <3>2. wanted' = wanted /\ ShownRows' = ShownRows /\ ShownLoading'
      BY <2>2, <3>1
    <3> QED
      BY <1>5, <2>1, <3>2 DEF PromisedStep, ListPromise!OneQueryNext, ListPromise!Refetch
  <2>8. CASE Finish
    <3>1. PICK t \in 1..ticket : Deliver(t) \/ BodyLost(t) \/ Cancelled(t) \/ Refuse(t)
      BY <2>8 DEF Finish
    <3>2. /\ wanted' = wanted /\ calls[t].phase # "settled"
          /\ \/ shown' = shown
             \/ /\ Latest(t)
                /\ \E rows : /\ Outcome(t, rows)
                             /\ shown' = [key |-> calls[t].key, rows |-> rows,
                                          loading |-> FALSE, error |-> FALSE]
             \/ Latest(t) /\ shown' = Failure(shown)
      BY <1>2, <3>1, FinishShape
    <3>3. CASE shown' = shown
      BY <2>4, <3>2, <3>3
    <3>4. ASSUME Latest(t), shown'.key = shown.key, ~shown'.loading,
                 shown.key = wanted => shown'.rows = shown.rows \/ shown'.rows \in Pages(wanted)
          PROVE  PromisedStep
      <4>1. shown.loading
        BY <1>2, <1>5, <2>1, <3>2, <3>4 DEF Latest, LoadedKey
      <4>2. CASE shown.key = wanted
        <5>1. /\ ShownLoading /\ ~ShownLoading'
              /\ ShownRows' = ShownRows \/ ShownRows' \in Pages(wanted)
          BY <2>2, <3>2, <3>4, <4>1, <4>2
        <5> QED
          BY <1>5, <2>1, <3>2, <5>1
          DEF PromisedStep, ListPromise!OneQueryNext, ListPromise!Answer, ListPromise!Fail
      <4>3. CASE shown.key # wanted
        <5>1. ShownLoading /\ ShownLoading' /\ ShownRows' = ShownRows
          BY <2>2, <3>2, <3>4, <4>3
        <5> QED
          BY <1>5, <2>1, <3>2, <5>1 DEF PromisedStep
      <4> QED
        BY <4>2, <4>3
    <3>5. ASSUME NEW rows, Outcome(t, rows), Latest(t),
                 shown' = [key |-> calls[t].key, rows |-> rows, loading |-> FALSE, error |-> FALSE]
          PROVE  PromisedStep
      <4>1. calls[t].key = shown.key /\ calls[t].at \in 0..MaxStored
        BY <1>2, <1>5, <2>1, <3>5 DEF Latest, LoadedKey, ListTypeOK, Call
      <4>2. rows \in Pages(calls[t].key)
        BY <1>5, <3>5, <4>1 DEF Outcome, Pages, IsPage, IsList
      <4>3. shown'.key = shown.key /\ ~shown'.loading /\ shown'.rows = rows
        BY <3>5, <4>1
      <4> QED
        BY <3>4, <3>5, <4>1, <4>2, <4>3
    <3>6. CASE Latest(t) /\ shown' = Failure(shown)
      <4>1. Failure(shown) = [[shown EXCEPT !.loading = FALSE] EXCEPT !.error = TRUE]
        BY <2>1 DEF Failure
      <4>2. shown'.key = shown.key /\ ~shown'.loading /\ shown'.rows = shown.rows
        BY <1>2, <3>6, <4>1 DEF ListTypeOK
      <4> QED
        BY <3>4, <3>6, <4>2
    <3> QED
      BY <3>2, <3>3, <3>5, <3>6
  <2> QED
    BY <2>3, <2>5, <2>6, <2>7, <2>8 DEF ListNext
<1> QED
  BY <1>4, <1>5

\* useResourceList is a OneQuery, for any queries and any order of answers: a
\* new query empties the list at once, and what appears in it is an answer to
\* the query it then shows (the invariant at the head of useResource.ts).
THEOREM ResourceListImplementsOneQuery == ListSpec => ListKeepsPromise
<1>1. PromiseInv /\ PromiseInv' /\ [ListNext]_listVars =>
        [ListPromise!OneQueryNext]_<<IF IsList THEN wanted ELSE NoKey,
                                     IF IsList THEN ShownRows ELSE Nothing,
                                     IsList => ShownLoading>>
  BY StepIsPromised DEF PromisedStep
<1> QED
  BY <1>1, InitIsPromised, InitPromiseInv, NextPromiseInv, PTL
  DEF ListSpec, ListKeepsPromise, ListPromise!OneQuerySpec

-----------------------------------------------------------------------------
(***************************************************************************)
(* The import of students.  A report is good by the way it was made, and a *)
(* commit carries the report that was confirmed, so what is written stands *)
(* for one row of it; what a visit has under way is told by its busy flag. *)
(***************************************************************************)
Line == [Columns -> NationalIds \union Personal \union Formulas \union {Empty}]

GoodReport(r) ==
  /\ r.rows \in Seq(Line) /\ r.valid \subseteq DOMAIN r.rows /\ r.failed = DOMAIN r.rows \ r.valid
  /\ \A i \in r.valid : FieldsPass(r.rows[i], r.mapping, Staff)
  /\ \A i, j \in r.valid : r.value[i].nationalId = r.value[j].nationalId => i = j

IsRead(op) == op.is = "read" /\ op.file \in Files
IsValidate(op) ==
  /\ op.is = "validate" /\ op.rows \in Seq(Line)
  /\ op = [is |-> "validate", wizard |-> op.wizard, rows |-> op.rows, mapping |-> op.mapping, ids |-> op.ids]
\* A commit knows which rows it wrote, and that none of those left is.
IsCommit(op) ==
  /\ op.is = "commit"
  /\ op = [is |-> "commit", wizard |-> op.wizard, report |-> op.report, atomic |-> op.atomic, nth |-> op.nth,
           left |-> op.left, imported |-> op.imported, lost |-> op.lost]
  /\ op.nth \in DOMAIN committed /\ op.report = committed[op.nth]
  /\ op.left \subseteq op.report.valid /\ op.imported \union op.lost \subseteq op.report.valid \ op.left
  /\ op.imported \intersect op.lost = {} /\ (op.atomic => op.report.failed = {})
  /\ \A i \in op.imported \union op.lost : \E b \in born : b.nth = op.nth /\ b.row = i
  /\ \A b \in born : b.nth = op.nth => b.row \notin op.left
IsOp(op) == IsRead(op) \/ IsValidate(op) \/ IsCommit(op) \/ op.is = "export"

OpsKnown == wizard \in Nat /\ \A op \in ops : op.wizard \in 0..wizard /\ IsOp(op)
CommitsApart == \A o, p \in ops : o.is = "commit" /\ p.is = "commit" /\ o.nth = p.nth => o = p
CommittedKnown == (\E S : committed \in Seq(S)) /\ \A n \in DOMAIN committed : GoodReport(committed[n])
BornKnown ==
  /\ IsFiniteSet(born)
  /\ \A b \in born : /\ b.nth \in DOMAIN committed /\ b.row \in committed[b.nth].valid
                     /\ b.id = committed[b.nth].value[b.row].nationalId
                     /\ b.whole => committed[b.nth].failed = {}
  /\ \A b, c \in born : b.nth = c.nth /\ b.row = c.row => b = c
Books == OpsKnown /\ CommitsApart /\ CommittedKnown /\ BornKnown

BusyTells ==
  /\ busy \in BOOLEAN /\ twice \in BOOLEAN
  /\ ~twice => /\ busy <=> \E op \in ops : Mine(op)
               /\ \A o, p \in ops : Mine(o) /\ Mine(p) => o = p
SheetKnown == sheet = Null \/ (sheet \in Seq(Line) /\ Len(sheet) <= MAX_ROWS + 1)
ReportKnown == report = Null \/ GoodReport(report)
\* A report that is being made is about the file and the columns.
MakingTells ==
  ~turned /\ ~twice => \A op \in ops : Mine(op) /\ op.is = "validate" => op.rows = sheet /\ op.mapping = mapping
ResultTells ==
  /\ step = "done" => /\ result.nth \in DOMAIN committed
                      /\ result.imported \in Nat /\ Cardinality(result.lost) \in Nat
  /\ ResultsTellTheStore
ImportInv ==
  /\ Books /\ BusyTells /\ SheetKnown /\ ReportKnown /\ MakingTells /\ ReviewShowsTheFile /\ ResultTells

\* A file is read up to the limit and one row more.
LEMMA SheetsAreShort ==
  ASSUME NEW f \in Files, parseSpreadsheet(f) # Null
  PROVE  parseSpreadsheet(f) \in Seq(Line) /\ Len(parseSpreadsheet(f)) <= MAX_ROWS + 1
<1>1. /\ f.format \in {"csv", "xlsx", "neither"} /\ f.ends \in BOOLEAN /\ f.rows \in Seq(Line)
      /\ MAX_ROWS \in Nat
  BY ImportAssumption DEF ImportAssumption, Line
<1>2. Len(f.rows) \in Nat
  BY <1>1
<1>3. CASE f.format = "csv"
  <2>1. parseSpreadsheet(f) = parseCsv(f)
    BY <1>3 DEF parseSpreadsheet
  <2>2. parseSpreadsheet(f) = f.rows /\ Len(f.rows) + (IF f.ends THEN 1 ELSE 0) <= MAX_ROWS + 1
    BY <2>1 DEF parseCsv
  <2>3. \A m, n \in Nat : m + (IF f.ends THEN 1 ELSE 0) <= n => m <= n
    BY <1>1
  <2>4. MAX_ROWS + 1 \in Nat
    BY <1>1
  <2> QED
    BY <1>1, <1>2, <2>2, <2>3, <2>4
<1>4. CASE f.format = "xlsx"
  <2>1. parseSpreadsheet(f) = parseXlsx(f)
    BY <1>4 DEF parseSpreadsheet
  <2>2. parseSpreadsheet(f) = f.rows /\ Len(f.rows) + 1 <= MAX_ROWS + 1
    BY <2>1 DEF parseXlsx
  <2> QED
    BY <1>1, <1>2, <2>2
<1>5. CASE f.format = "neither"
  BY <1>5 DEF parseSpreadsheet
<1> QED
  BY <1>1, <1>3, <1>4, <1>5

\* A report that was made of rows is good.
LEMMA ReportsAreGood ==
  ASSUME NEW rows \in Seq(Line), NEW map, NEW ids
  PROVE  LET r == validateStudentRows(rows, map, [ids |-> ids, staff |-> Staff])
         IN  GoodReport(r) /\ r.rows = rows /\ r.mapping = map
<1> DEFINE id(i) == cellAt(rows[i], map, "nationalId")
           valid == {i \in DOMAIN rows : /\ FieldsPass(rows[i], map, Staff)
                                         /\ id(i) \notin ids /\ \A j \in 1..i - 1 : id(j) # id(i)}
           value == [i \in valid |-> [nationalId |-> id(i), name |-> cellAt(rows[i], map, "name")]]
           r == validateStudentRows(rows, map, [ids |-> ids, staff |-> Staff])
<1>1. r = [rows |-> rows, mapping |-> map, valid |-> valid, failed |-> DOMAIN rows \ valid, value |-> value]
  BY DEF validateStudentRows
<1>2. \A i \in valid : value[i].nationalId = id(i)
  OBVIOUS
<1>3. \A i, j \in valid : id(i) = id(j) => i = j
  <2> SUFFICES ASSUME NEW i \in valid, NEW j \in valid, id(i) = id(j), i # j PROVE FALSE
    OBVIOUS
  <2>1. i \in 1..Len(rows) /\ j \in 1..Len(rows) /\ Len(rows) \in Nat
    OBVIOUS
  <2>2. i \in 1..j - 1 \/ j \in 1..i - 1
    BY <2>1
  <2> HIDE DEF id
  <2> QED
    BY <2>2
<1>4. valid \subseteq DOMAIN rows /\ \A i \in valid : FieldsPass(rows[i], map, Staff)
  OBVIOUS
<1> HIDE DEF r, valid, value, id
<1>5. GoodReport(r)
  BY <1>1, <1>2, <1>3, <1>4 DEF GoodReport
<1> QED
  BY <1>1, <1>5 DEF r

-----------------------------------------------------------------------------
(* What an operation does to the busy flag.                                *)

LEMMA Launched ==
  ASSUME BusyTells, NEW op, op.wizard = wizard, Launch(op), wizard' = wizard, twice' \in BOOLEAN,
         ~twice' => ~twice /\ ~busy
  PROVE  BusyTells'
  BY DEF BusyTells, Launch, Mine

LEMMA Landed ==
  ASSUME BusyTells, NEW op \in ops, Returns(op), wizard' = wizard, twice' = twice,
         busy' = IF Mine(op) THEN FALSE ELSE busy
  PROVE  BusyTells'
<1>1. CASE Mine(op)
  BY <1>1 DEF BusyTells, Returns, Mine
<1>2. CASE ~Mine(op)
  BY <1>2 DEF BusyTells, Returns, Mine
<1> QED
  BY <1>1, <1>2

LEMMA WentOn ==
  ASSUME BusyTells, NEW op \in ops, NEW new, new.wizard = op.wizard, ops' = (ops \ {op}) \union {new},
         wizard' = wizard, twice' = twice, busy' = busy
  PROVE  BusyTells'
  BY DEF BusyTells, Mine

LEMMA BusyStays ==
  ASSUME BusyTells, UNCHANGED <<ops, wizard, twice, busy>>
  PROVE  BusyTells'
  BY DEF BusyTells, Mine

\* The books are as they were when nothing is confirmed or written.
LEMMA BooksStay ==
  ASSUME Books, UNCHANGED <<committed, born>>, wizard' \in Nat, wizard <= wizard',
         \A op \in ops' : \/ op \in ops
                          \/ op.wizard \in 0..wizard' /\ op.is # "commit" /\ (IsRead(op) \/ IsValidate(op) \/ op.is = "export")
  PROVE  Books'
<1>1. \A op : IsOp(op) => IsOp(op)'
  BY DEF IsOp, IsRead, IsValidate, IsCommit
<1>2. \A op \in ops' : op.wizard \in 0..wizard' /\ IsOp(op)'
  BY <1>1 DEF Books, OpsKnown, IsOp
<1>3. CommitsApart'
  BY DEF Books, CommitsApart
<1> QED
  BY <1>2, <1>3 DEF Books, OpsKnown, CommittedKnown, GoodReport, BornKnown

\* A result stands, however others go on.
LEMMA ResultStays ==
  ASSUME ResultTells, UNCHANGED <<committed, born>>, step' = "done" => step = "done" /\ result' = result
  PROVE  ResultTells'
  BY DEF ResultTells, ResultsTellTheStore

-----------------------------------------------------------------------------
(* The steps.                                                              *)

LEMMA FileIsChosen == ASSUME ImportInv, onFile PROVE ImportInv'
<1>1. PICK f \in Files : Launch([is |-> "read", wizard |-> wizard, file |-> f])
  BY DEF onFile
<1> DEFINE op == [is |-> "read", wizard |-> wizard, file |-> f]
<1>2. /\ step = "upload" /\ twice' = (twice \/ busy)
      /\ UNCHANGED <<step, sheet, mapping, report, result, wizard, turned, committed, born>>
  BY DEF onFile
<1>3. ops' = ops \union {op} /\ op.is = "read" /\ op.wizard = wizard /\ op.file = f
  BY <1>1 DEF Launch
<1> HIDE DEF op
<1>4. Books'
  BY <1>2, <1>3, BooksStay DEF ImportInv, Books, OpsKnown, IsRead
<1>5. BusyTells'
  <2>1. Launch(op)
    BY <1>1 DEF op
  <2> QED
    BY <1>2, <1>3, <2>1, Launched DEF ImportInv, BusyTells
<1>6. MakingTells'
  <2>1. ~twice' => ~twice
    BY <1>2 DEF ImportInv, BusyTells
  <2> QED
    BY <1>2, <1>3, <2>1 DEF ImportInv, MakingTells, Mine
<1>7. ResultTells'
  BY <1>2, ResultStays DEF ImportInv
<1> QED
  BY <1>2, <1>4, <1>5, <1>6, <1>7 DEF ImportInv, SheetKnown, ReportKnown, ReviewShowsTheFile, GoodReport

LEMMA FileIsRead == ASSUME ImportInv, FileRead PROVE ImportInv'
<1>1. PICK op \in ops :
        /\ op.is = "read" /\ Returns(op)
        /\ LET rows == parseSpreadsheet(op.file)
           IN  Lands(op, /\ IF rows = Null THEN parseError' = TRUE /\ UNCHANGED <<step, sheet, mapping>>
                            ELSE /\ step' = "map" /\ sheet' = rows /\ mapping' = autoMapColumns(Columns)
                                 /\ UNCHANGED parseError
                         /\ UNCHANGED <<report, result, atomic, wizard>>)
        /\ UNCHANGED <<enrolled, turned, twice, committed, born, count>>
  BY DEF FileRead
<1>2. /\ ops' = ops \ {op} /\ UNCHANGED <<report, result, wizard, turned, twice, committed, born>>
      /\ busy' = IF Mine(op) THEN FALSE ELSE busy
  BY <1>1 DEF Returns, Lands, wizardVars
<1>3. \/ UNCHANGED <<step, sheet, mapping>>
      \/ Mine(op) /\ parseSpreadsheet(op.file) # Null /\ step' = "map" /\ sheet' = parseSpreadsheet(op.file)
  BY <1>1 DEF Lands, wizardVars
<1>4. op.file \in Files
  BY <1>1 DEF ImportInv, Books, OpsKnown, IsOp, IsRead, IsValidate, IsCommit
<1>5. Books'
  BY <1>2, BooksStay DEF ImportInv, Books, OpsKnown
<1>6. BusyTells'
  BY <1>1, <1>2, Landed DEF ImportInv
<1>7. SheetKnown'
  BY <1>3, <1>4, SheetsAreShort DEF ImportInv, SheetKnown
<1>8. MakingTells'
  <2>1. CASE UNCHANGED <<step, sheet, mapping>>
    BY <1>2, <2>1 DEF ImportInv, MakingTells, Mine
  <2>2. CASE Mine(op)
    BY <1>1, <1>2, <2>2 DEF ImportInv, MakingTells, BusyTells, Mine
  <2> QED
    BY <1>3, <2>1, <2>2
<1>9. ReviewShowsTheFile'
  BY <1>2, <1>3 DEF ImportInv, ReviewShowsTheFile
<1>10. ResultTells'
  BY <1>2, <1>3, ResultStays DEF ImportInv
<1> QED
  BY <1>2, <1>5, <1>6, <1>7, <1>8, <1>9, <1>10 DEF ImportInv, ReportKnown, GoodReport

LEMMA ColumnIsMapped == ASSUME ImportInv, setMapping PROVE ImportInv'
<1>1. /\ step = "map" /\ turned' = (turned \/ busy)
      /\ UNCHANGED <<step, sheet, report, result, busy, wizard, ops, twice, committed, born>>
  BY DEF setMapping
<1>2. Books'
  BY <1>1, BooksStay DEF ImportInv, Books, OpsKnown
<1>3. BusyTells'
  BY <1>1, BusyStays DEF ImportInv
<1>4. MakingTells'
  BY <1>1 DEF ImportInv, MakingTells, BusyTells, Mine
<1>5. ReviewShowsTheFile' /\ ResultTells'
  BY <1>1, ResultStays DEF ImportInv, ReviewShowsTheFile
<1> QED
  BY <1>1, <1>2, <1>3, <1>4, <1>5 DEF ImportInv, SheetKnown, ReportKnown, GoodReport

LEMMA ValidationStarts == ASSUME ImportInv, runValidation PROVE ImportInv'
<1> DEFINE op == [is |-> "validate", wizard |-> wizard, rows |-> sheet, mapping |-> mapping, ids |-> Null]
<1>1. /\ step = "map" /\ sheet # Null /\ ~busy /\ Launch(op) /\ turned' = FALSE
      /\ UNCHANGED <<step, sheet, mapping, report, result, wizard, twice, committed, born>>
  BY DEF runValidation
<1>2. /\ ops' = ops \union {op} /\ op.is = "validate" /\ op.wizard = wizard /\ op.rows = sheet /\ op.mapping = mapping
      /\ sheet \in Seq(Line)
  BY <1>1 DEF Launch, ImportInv, SheetKnown
<1>3. IsValidate(op)
  BY <1>2 DEF IsValidate
<1> HIDE DEF op
<1>4. Books'
  BY <1>1, <1>2, <1>3, BooksStay DEF ImportInv, Books, OpsKnown
<1>5. BusyTells'
  BY <1>1, <1>2, Launched DEF ImportInv, BusyTells
<1>6. MakingTells'
  BY <1>1, <1>2 DEF ImportInv, MakingTells, BusyTells, Mine
<1>7. ReviewShowsTheFile' /\ ResultTells'
  BY <1>1, ResultStays DEF ImportInv, ReviewShowsTheFile
<1> QED
  BY <1>1, <1>4, <1>5, <1>6, <1>7 DEF ImportInv, SheetKnown, ReportKnown, GoodReport

LEMMA ContextIsLoaded == ASSUME ImportInv, loadStudentImportContext PROVE ImportInv'
<1> DEFINE ids == {enrolled[i] : i \in {j \in DOMAIN enrolled : j <= PageCap}}
<1>1. PICK op \in ops : /\ op.is = "validate" /\ ops' = (ops \ {op}) \union {[op EXCEPT !.ids = ids]}
                        /\ UNCHANGED <<enrolled, wizardVars, turned, twice, committed, born, count>>
  BY DEF loadStudentImportContext
<1> DEFINE new == [op EXCEPT !.ids = ids]
<1>2. IsValidate(op) /\ op.wizard \in 0..wizard
  BY <1>1 DEF ImportInv, Books, OpsKnown, IsOp, IsRead, IsCommit
<1> HIDE DEF ids
<1>3. /\ new = [is |-> "validate", wizard |-> op.wizard, rows |-> op.rows, mapping |-> op.mapping, ids |-> ids]
      /\ new.is = "validate" /\ new.wizard = op.wizard /\ new.rows = op.rows /\ new.mapping = op.mapping
  BY <1>2 DEF IsValidate
<1>4. IsValidate(new)
  BY <1>2, <1>3 DEF IsValidate
<1>5. ops' = (ops \ {op}) \union {new}
  BY <1>1
<1> HIDE DEF new
<1>6. UNCHANGED <<step, sheet, mapping, report, result, busy, wizard, turned, twice, committed, born>>
  BY <1>1 DEF wizardVars
<1>7. Books'
  BY <1>2, <1>3, <1>4, <1>5, <1>6, BooksStay DEF ImportInv, Books, OpsKnown
<1>8. BusyTells'
  BY <1>3, <1>5, <1>6, WentOn DEF ImportInv
<1>9. MakingTells'
  BY <1>1, <1>3, <1>5, <1>6 DEF ImportInv, MakingTells, Mine
<1>10. ReviewShowsTheFile' /\ ResultTells'
  BY <1>6, ResultStays DEF ImportInv, ReviewShowsTheFile
<1> QED
  BY <1>6, <1>7, <1>8, <1>9, <1>10 DEF ImportInv, SheetKnown, ReportKnown, GoodReport

LEMMA RowsAreChecked == ASSUME ImportInv, Validated PROVE ImportInv'
<1>1. PICK op \in ops :
        /\ op.is = "validate" /\ op.ids # Null /\ Returns(op)
        /\ Lands(op, /\ step' = "review"
                     /\ report' = validateStudentRows(op.rows, op.mapping, [ids |-> op.ids, staff |-> Staff])
                     /\ UNCHANGED <<sheet, mapping, result, atomic, parseError, wizard>>)
        /\ UNCHANGED <<enrolled, turned, twice, committed, born, count>>
  BY DEF Validated
<1>2. /\ ops' = ops \ {op} /\ UNCHANGED <<sheet, mapping, result, wizard, turned, twice, committed, born>>
      /\ busy' = IF Mine(op) THEN FALSE ELSE busy
  BY <1>1 DEF Returns, Lands, wizardVars
<1>3. op.rows \in Seq(Line)
  BY <1>1 DEF ImportInv, Books, OpsKnown, IsOp, IsRead, IsValidate, IsCommit
<1>4. \/ UNCHANGED <<step, report>>
      \/ Mine(op) /\ step' = "review" /\ GoodReport(report') /\ report'.rows = op.rows /\ report'.mapping = op.mapping
  BY <1>1, <1>3, ReportsAreGood DEF Lands, wizardVars
<1>5. Books'
  BY <1>2, BooksStay DEF ImportInv, Books, OpsKnown
<1>6. BusyTells'
  BY <1>1, <1>2, Landed DEF ImportInv
<1>7. ReportKnown'
  BY <1>4 DEF ImportInv, ReportKnown, GoodReport
<1>8. MakingTells'
  BY <1>2 DEF ImportInv, MakingTells, Mine
<1>9. ReviewShowsTheFile'
  BY <1>1, <1>2, <1>4 DEF ImportInv, ReviewShowsTheFile, MakingTells
<1>10. ResultTells'
  BY <1>2, <1>4, ResultStays DEF ImportInv
<1> QED
  BY <1>2, <1>5, <1>6, <1>7, <1>8, <1>9, <1>10 DEF ImportInv, SheetKnown

\* An answer that changes nothing but what is under way.
LEMMA AnswerIsDropped == ASSUME ImportInv, ValidationFails \/ exportEntity PROVE ImportInv'
<1>1. PICK op \in ops : Returns(op) /\ busy' = IF Mine(op) THEN FALSE ELSE busy
  BY DEF ValidationFails, exportEntity, Lands, wizardVars
<1>2. UNCHANGED <<step, sheet, mapping, report, result, wizard, turned, twice, committed, born>>
  BY DEF ValidationFails, exportEntity, Lands, wizardVars
<1>3. ops' = ops \ {op}
  BY <1>1 DEF Returns
<1>4. Books'
  BY <1>2, <1>3, BooksStay DEF ImportInv, Books, OpsKnown
<1>5. BusyTells'
  BY <1>1, <1>2, Landed DEF ImportInv
<1>6. MakingTells'
  BY <1>2, <1>3 DEF ImportInv, MakingTells, Mine
<1>7. ReviewShowsTheFile' /\ ResultTells'
  BY <1>2, ResultStays DEF ImportInv, ReviewShowsTheFile
<1> QED
  BY <1>2, <1>4, <1>5, <1>6, <1>7 DEF ImportInv, SheetKnown, ReportKnown, GoodReport

LEMMA ExportStarts == ASSUME ImportInv, runExport PROVE ImportInv'
<1> DEFINE op == [is |-> "export", wizard |-> wizard]
<1>1. /\ ~busy /\ Launch(op)
      /\ UNCHANGED <<step, sheet, mapping, report, result, wizard, turned, twice, committed, born>>
  BY DEF runExport
<1>2. ops' = ops \union {op} /\ op.is = "export" /\ op.wizard = wizard
  BY <1>1 DEF Launch
<1> HIDE DEF op
<1>3. Books'
  BY <1>1, <1>2, BooksStay DEF ImportInv, Books, OpsKnown
<1>4. BusyTells'
  BY <1>1, <1>2, Launched DEF ImportInv, BusyTells
<1>5. MakingTells'
  BY <1>1, <1>2 DEF ImportInv, MakingTells, Mine
<1>6. ReviewShowsTheFile' /\ ResultTells'
  BY <1>1, ResultStays DEF ImportInv, ReviewShowsTheFile
<1> QED
  BY <1>1, <1>3, <1>4, <1>5, <1>6 DEF ImportInv, SheetKnown, ReportKnown, GoodReport

\* What the user does to the wizard, and others to the store.
LEMMA UserTurns == ASSUME ImportInv, Back \/ setAtomic \/ reset \/ OthersEnroll PROVE ImportInv'
<1>1. UNCHANGED <<busy, wizard, ops, twice, committed, born>>
  BY DEF Back, setAtomic, reset, OthersEnroll, wizardVars
<1>2. \/ UNCHANGED <<sheet, mapping, report, turned>> /\ ((step' = step /\ result' = result) \/ step' = "map")
      \/ step' = "upload" /\ sheet' = Null /\ report' = Null /\ turned' = (turned \/ busy)
  BY DEF Back, setAtomic, reset, OthersEnroll, wizardVars
<1>3. Books'
  BY <1>1, BooksStay DEF ImportInv, Books, OpsKnown
<1>4. BusyTells'
  BY <1>1, BusyStays DEF ImportInv
<1>5. MakingTells'
  BY <1>1, <1>2 DEF ImportInv, MakingTells, BusyTells, Mine
<1>6. ReviewShowsTheFile'
  BY <1>1, <1>2 DEF ImportInv, ReviewShowsTheFile
<1>7. ResultTells'
  BY <1>1, <1>2, ResultStays DEF ImportInv
<1> QED
  BY <1>1, <1>2, <1>3, <1>4, <1>5, <1>6, <1>7 DEF ImportInv, SheetKnown, ReportKnown, GoodReport

\* A new visit has nothing under way.
LEMMA SettingsAreLeft == ASSUME ImportInv, LeaveSettings PROVE ImportInv'
<1>1. /\ wizard' = wizard + 1 /\ step' = "upload" /\ sheet' = Null /\ report' = Null /\ busy' = FALSE
      /\ turned' = FALSE /\ twice' = FALSE /\ UNCHANGED <<ops, committed, born>>
  BY DEF LeaveSettings
<1>2. wizard \in Nat /\ \A op \in ops : op.wizard \in 0..wizard
  BY DEF ImportInv, Books, OpsKnown
<1>3. \A op \in ops : op.wizard # wizard'
  BY <1>1, <1>2
<1>4. Books'
  BY <1>1, <1>2, BooksStay DEF ImportInv
<1>5. BusyTells' /\ MakingTells'
  BY <1>1, <1>3 DEF BusyTells, MakingTells, Mine
<1>6. ReviewShowsTheFile'
  BY <1>1 DEF ReviewShowsTheFile
<1>7. ResultTells'
  BY <1>1, ResultStays DEF ImportInv
<1> QED
  BY <1>1, <1>4, <1>5, <1>6, <1>7 DEF ImportInv, SheetKnown, ReportKnown

\* A report that is confirmed is the last of those confirmed.
LEMMA ReportIsConfirmed == ASSUME ImportInv, commit PROVE ImportInv'
<1>0. PICK n, op : n = Len(committed) + 1 /\ op = [is |-> "commit", wizard |-> wizard, report |-> report, atomic |-> atomic,
                  nth |-> n, left |-> report.valid, imported |-> {}, lost |-> {}]
  OBVIOUS
<1>1. /\ step = "review" /\ report # Null /\ ~busy /\ ~(atomic /\ report.failed # {}) /\ Launch(op)
      /\ committed' = Append(committed, report)
      /\ UNCHANGED <<step, sheet, mapping, report, result, wizard, turned, twice, born>>
  BY <1>0 DEF commit
<1>2. GoodReport(report)
  BY <1>1 DEF ImportInv, ReportKnown
<1>3. /\ op.is = "commit" /\ op.wizard = wizard /\ op.report = report /\ op.atomic = atomic /\ op.nth = n
      /\ op.left = report.valid /\ op.imported = {} /\ op.lost = {}
      /\ op = [is |-> "commit", wizard |-> op.wizard, report |-> op.report, atomic |-> op.atomic, nth |-> op.nth,
               left |-> op.left, imported |-> op.imported, lost |-> op.lost]
  BY <1>0
<1>4. ops' = ops \union {op}
  BY <1>1 DEF Launch
<1>5. PICK S : committed \in Seq(S)
  BY DEF ImportInv, Books, CommittedKnown
<1>6. /\ committed' \in Seq(S \union {report}) /\ n \in Nat /\ 1 <= n
      /\ DOMAIN committed = 1..(n - 1) /\ DOMAIN committed' = 1..n
      /\ committed'[n] = report /\ \A i \in DOMAIN committed : committed'[i] = committed[i]
  <2>1. committed \in Seq(S \union {report})
    BY <1>5
  <2> QED
    BY <1>0, <1>1, <2>1
<1>7. DOMAIN committed \subseteq DOMAIN committed' /\ n \in DOMAIN committed' /\ n \notin DOMAIN committed
      /\ \A i \in DOMAIN committed' : i = n \/ i \in DOMAIN committed
  BY <1>6
<1>8. /\ \A b \in born : b.nth \in DOMAIN committed
      /\ \A p \in ops : p.is = "commit" => p.nth \in DOMAIN committed
  BY DEF ImportInv, Books, BornKnown, OpsKnown, IsOp, IsRead, IsValidate, IsCommit
<1>9. IsCommit(op)'
  <2>1. op.atomic => op.report.failed = {}
    BY <1>1, <1>3, Zenon
  <2>2. \A b \in born' : b.nth = op.nth => b.row \notin op.left
    BY <1>1, <1>3, <1>7, <1>8
  <2>3. op.report = committed'[op.nth] /\ op.nth \in DOMAIN committed'
    BY <1>3, <1>6, <1>7
  <2> QED
    BY <1>3, <2>1, <2>2, <2>3 DEF IsCommit
<1>10. \A p \in ops : IsOp(p) => IsOp(p)'
  BY <1>1, <1>6, <1>7 DEF IsOp, IsRead, IsValidate, IsCommit
<1>11. OpsKnown'
  <2>1. wizard \in Nat /\ wizard' = wizard /\ op.wizard \in 0..wizard
    BY <1>1, <1>3 DEF ImportInv, Books, OpsKnown
  <2>2. IsOp(op)'
    BY <1>9 DEF IsOp
  <2>3. \A p \in ops : p.wizard \in 0..wizard /\ IsOp(p)'
    BY <1>10 DEF ImportInv, Books, OpsKnown
  <2> QED
    BY <1>4, <2>1, <2>2, <2>3 DEF OpsKnown
<1>12. CommitsApart'
  BY <1>3, <1>4, <1>7, <1>8 DEF ImportInv, Books, CommitsApart
<1>13. CommittedKnown'
  BY <1>2, <1>6, <1>7 DEF ImportInv, Books, CommittedKnown, GoodReport
<1>14. BornKnown'
  BY <1>1, <1>6, <1>7 DEF ImportInv, Books, BornKnown
<1>15. BusyTells'
  BY <1>1, <1>3, Launched DEF ImportInv, BusyTells
<1>16. MakingTells'
  BY <1>1, <1>3, <1>4 DEF ImportInv, MakingTells, Mine
<1>17. ReviewShowsTheFile' /\ ResultTells'
  BY <1>1 DEF ImportInv, ReviewShowsTheFile, ResultTells, ResultsTellTheStore
<1> QED
  BY <1>1, <1>11, <1>12, <1>13, <1>14, <1>15, <1>16, <1>17
     DEF ImportInv, Books, SheetKnown, ReportKnown, GoodReport

\* A set of numbers that is not empty has a least one.
LEMMA LeastRow ==
  ASSUME NEW T, T \subseteq Nat, T # {}
  PROVE  (CHOOSE j \in T : \A k \in T : j <= k) \in T
<1>1. PICK m \in T : \A k \in T : ~(<<k, m>> \in OpToRel(<, Nat))
  BY NatLessThanWellFounded, WFMin
<1>2. \A k \in T : ~(k < m)
  BY <1>1 DEF OpToRel
<1>3. \E j \in T : \A k \in T : j <= k
  BY <1>2
<1> QED
  BY <1>3

\* What becomes of a commit that has dealt with a row.
Commit(w, r, a, n, l, m, t) ==
  [is |-> "commit", wizard |-> w, report |-> r, atomic |-> a, nth |-> n, left |-> l, imported |-> m, lost |-> t]
Dealt(op, i, told, lost) == [op EXCEPT !.left = @ \ {i}, !.imported = @ \union told, !.lost = @ \union lost]
LEMMA CommitGoesOn ==
  ASSUME NEW op, NEW w, NEW r, NEW a, NEW n, NEW l, NEW m, NEW t, op = Commit(w, r, a, n, l, m, t),
         NEW i, NEW told, NEW lost
  PROVE  Dealt(op, i, told, lost) = Commit(w, r, a, n, l \ {i}, m \union told, t \union lost)
<1>0. PICK x, y, z : x = l \ {i} /\ y = m \union told /\ z = t \union lost
  OBVIOUS
<1>1. \A f, p, q, s : [f EXCEPT !.left = p, !.imported = q, !.lost = s]
                        = [[[f EXCEPT !.left = p] EXCEPT !.imported = q] EXCEPT !.lost = s]
  OBVIOUS
<1>2. [op EXCEPT !.left = x, !.imported = y, !.lost = z] = Commit(w, r, a, n, x, y, z)
  <2>1. [op EXCEPT !.left = x] = Commit(w, r, a, n, x, m, t)
    BY DEF Commit
  <2>2. [Commit(w, r, a, n, x, m, t) EXCEPT !.imported = y] = Commit(w, r, a, n, x, y, t)
    BY DEF Commit
  <2>3. [Commit(w, r, a, n, x, y, t) EXCEPT !.lost = z] = Commit(w, r, a, n, x, y, z)
    BY DEF Commit
  <2> QED
    BY <1>1, <2>1, <2>2, <2>3, Zenon
<1>3. op.left = l /\ op.imported = m /\ op.lost = t
  BY DEF Commit
<1>4. op.left \ {i} = x /\ op.imported \union told = y /\ op.lost \union lost = z
  BY <1>0, <1>3
<1>5. Dealt(op, i, told, lost) = [op EXCEPT !.left = x, !.imported = y, !.lost = z]
  BY <1>4, Zenon DEF Dealt
<1> QED
  BY <1>0, <1>2, <1>5, Zenon

\* A row is written, or not, and its commit knows unless the answer was lost.
LEMMA RowIsWritten == ASSUME ImportInv, commitStudentImport PROVE ImportInv'
<1> DEFINE first(op) == CHOOSE j \in op.left : \A k \in op.left : j <= k
           written(op) == [id |-> op.report.value[first(op)].nationalId, name |-> op.report.value[first(op)].name,
                           row |-> first(op), nth |-> op.nth, whole |-> op.atomic]
           then(op, told, lost) == Dealt(op, first(op), told, lost)
<1>0. PICK op \in ops :
        /\ op.is = "commit" /\ op.left # {} /\ UNCHANGED <<wizardVars, turned, twice, committed>>
        /\ \/ ops' = (ops \ {op}) \union {then(op, {first(op)}, {})} /\ born' = born \union {written(op)}
           \/ ops' = (ops \ {op}) \union {then(op, {}, {})} /\ born' = born
           \/ ops' = (ops \ {op}) \union {then(op, {}, {first(op)})} /\ born' = born \union {written(op)}
  BY Zenon DEF commitStudentImport, Dealt
<1> DEFINE i == first(op)
           row == written(op)
<1>1. op.is = "commit" /\ op.left # {} /\ UNCHANGED <<wizardVars, turned, twice, committed>>
  BY <1>0
<1>2. IsCommit(op) /\ op.wizard \in 0..wizard
  BY <1>1 DEF ImportInv, Books, OpsKnown, IsOp, IsRead, IsValidate
<1>3. op.nth \in DOMAIN committed /\ op.report = committed[op.nth] /\ GoodReport(op.report)
  BY <1>2 DEF IsCommit, ImportInv, Books, CommittedKnown
<1>4. i \in op.left /\ i \in op.report.valid
  <2>1. op.left \subseteq Nat
    BY <1>2, <1>3 DEF IsCommit, GoodReport
  <2>2. i \in op.left
    BY <1>1, <2>1, LeastRow
  <2> QED
    BY <1>2, <2>2 DEF IsCommit
<1>6. PICK told, lost :
        /\ ops' = (ops \ {op}) \union {then(op, told, lost)}
        /\ \/ told = {} /\ lost = {} /\ born' = born
           \/ told \union lost = {i} /\ told \intersect lost = {} /\ born' = born \union {row}
  <2> HIDE DEF then, written, first
  <2>1. CASE ops' = (ops \ {op}) \union {then(op, {i}, {})} /\ born' = born \union {row}
    BY <2>1
  <2>2. CASE ops' = (ops \ {op}) \union {then(op, {}, {})} /\ born' = born
    BY <2>2
  <2>3. CASE ops' = (ops \ {op}) \union {then(op, {}, {i})} /\ born' = born \union {row}
    BY <2>3
  <2> QED
    BY <1>0, <2>1, <2>2, <2>3
<1> DEFINE new == then(op, told, lost)
<1>7. /\ new.is = "commit" /\ new.wizard = op.wizard /\ new.report = op.report /\ new.atomic = op.atomic
      /\ new.nth = op.nth /\ new.left = op.left \ {i} /\ new.imported = op.imported \union told
      /\ new.lost = op.lost \union lost
      /\ new = [is |-> "commit", wizard |-> new.wizard, report |-> new.report, atomic |-> new.atomic, nth |-> new.nth,
                left |-> new.left, imported |-> new.imported, lost |-> new.lost]
  <2>1. op = Commit(op.wizard, op.report, op.atomic, op.nth, op.left, op.imported, op.lost)
    BY <1>2 DEF IsCommit, Commit
  <2> HIDE DEF first
  <2>2. PICK w, r, a, n, l, m, t : op = Commit(w, r, a, n, l, m, t)
    BY <2>1, Zenon
  <2>3. /\ op.is = "commit" /\ op.wizard = w /\ op.report = r /\ op.atomic = a /\ op.nth = n
        /\ op.left = l /\ op.imported = m /\ op.lost = t
    BY <2>2 DEF Commit
  <2>4. new = Commit(w, r, a, n, l \ {i}, m \union told, t \union lost)
    <3>1. new = Dealt(op, i, told, lost)
      OBVIOUS
    <3> HIDE DEF new
    <3>2. \A j, x, y : Dealt(op, j, x, y) = Commit(w, r, a, n, l \ {j}, m \union x, t \union y)
      BY <2>2, CommitGoesOn
    <3> QED
      BY <3>1, <3>2
  <2> HIDE DEF new
  <2> QED
    BY <2>3, <2>4 DEF Commit
<1>8. ops' = (ops \ {op}) \union {new}
  BY <1>6
<1> HIDE DEF new, then
<1> HIDE DEF first
<1>9. /\ row.row = i /\ row.nth = op.nth /\ row.whole = op.atomic /\ row.id = op.report.value[i].nationalId
  OBVIOUS
<1>10. told \union lost = {} \/ told \union lost = {i}
  BY <1>6
<1>11. UNCHANGED <<step, sheet, mapping, report, result, busy, wizard, turned, twice, committed>>
  BY <1>1 DEF wizardVars
<1>12. \A b \in born' : b \in born \/ (b = row /\ told \union lost = {i})
  BY <1>6
<1>13. born \subseteq born' /\ (told \union lost = {i} => row \in born')
  BY <1>4, <1>6
<1> HIDE DEF row, written, i
<1>14. IsCommit(new)'
  <2>1. new.left \subseteq new.report.valid /\ new.imported \union new.lost \subseteq new.report.valid \ new.left
    BY <1>2, <1>4, <1>7, <1>10 DEF IsCommit
  <2>2. new.imported \intersect new.lost = {}
    BY <1>2, <1>4, <1>6, <1>7, <1>10 DEF IsCommit
  <2>3. \A k \in new.imported \union new.lost : \E b \in born' : b.nth = new.nth /\ b.row = k
    <3> TAKE k \in new.imported \union new.lost
    <3>1. CASE k \in op.imported \union op.lost
      BY <1>2, <1>7, <1>13, <3>1 DEF IsCommit
    <3>2. CASE k \in told \union lost
      BY <1>7, <1>9, <1>10, <1>13, <3>2
    <3> QED
      BY <1>7, <3>1, <3>2
  <2>4. \A b \in born' : b.nth = new.nth => b.row \notin new.left
    BY <1>2, <1>7, <1>9, <1>12 DEF IsCommit
  <2> QED
    BY <1>2, <1>7, <1>11, <2>1, <2>2, <2>3, <2>4 DEF IsCommit
<1>15. ASSUME NEW p \in ops \ {op} PROVE p.wizard \in 0..wizard /\ IsOp(p)'
  <2>1. p.wizard \in 0..wizard /\ IsOp(p)
    BY DEF ImportInv, Books, OpsKnown
  <2>2. CASE IsCommit(p)
    <3>1. p.nth # op.nth
      BY <1>1, <1>15, <2>2 DEF ImportInv, Books, CommitsApart, IsCommit
    <3>2. \A b \in born' : b.nth = p.nth => b.row \notin p.left
      BY <1>9, <1>12, <2>2, <3>1 DEF IsCommit
    <3>3. \A k \in p.imported \union p.lost : \E b \in born' : b.nth = p.nth /\ b.row = k
      BY <1>13, <2>2 DEF IsCommit
    <3> QED
      BY <1>11, <2>1, <2>2, <3>2, <3>3 DEF IsOp, IsCommit
  <2>3. CASE ~IsCommit(p)
    BY <1>11, <2>1, <2>3 DEF IsOp, IsRead, IsValidate
  <2> QED
    BY <2>2, <2>3
<1>16. OpsKnown'
  BY <1>2, <1>7, <1>8, <1>11, <1>14, <1>15 DEF ImportInv, Books, OpsKnown, IsOp
<1>17. CommitsApart'
  BY <1>1, <1>7, <1>8 DEF ImportInv, Books, CommitsApart
<1>18. CommittedKnown'
  BY <1>11 DEF ImportInv, Books, CommittedKnown, GoodReport
<1>19. BornKnown'
  <2>1. IsFiniteSet(born')
    <3>1. IsFiniteSet(born)
      BY DEF ImportInv, Books, BornKnown
    <3> QED
      BY <1>6, <3>1, FS_AddElement
  <2>2. /\ row.nth \in DOMAIN committed /\ row.row \in committed[row.nth].valid
        /\ row.id = committed[row.nth].value[row.row].nationalId
        /\ row.whole => committed[row.nth].failed = {}
    BY <1>2, <1>3, <1>4, <1>9 DEF IsCommit
  <2>3. \A b \in born : ~(b.nth = row.nth /\ b.row = row.row)
    BY <1>2, <1>4, <1>9 DEF IsCommit
  <2>4. \A b \in born' : b \in born \/ b = row
    BY <1>12
  <2> QED
    BY <1>11, <2>1, <2>2, <2>3, <2>4 DEF ImportInv, Books, BornKnown
<1>20. BusyTells'
  BY <1>7, <1>8, <1>11, WentOn DEF ImportInv
<1>21. MakingTells'
  BY <1>7, <1>8, <1>11 DEF ImportInv, MakingTells, Mine
<1>22. ResultTells'
  <2> SUFFICES ASSUME step' = "done" PROVE ResultTells'
    BY DEF ResultTells, ResultsTellTheStore
  <2> DEFINE old == {b \in born : b.nth = result.nth}
             now == {b \in born' : b.nth = result.nth}
  <2>1. /\ result.nth \in DOMAIN committed
        /\ result.imported + result.failed = Len(committed[result.nth].rows)
        /\ result.imported + Cardinality(result.lost) <= Cardinality(old)
        /\ result.imported \in Nat /\ Cardinality(result.lost) \in Nat
    BY <1>11 DEF ImportInv, ResultTells, ResultsTellTheStore
  <2>2. IsFiniteSet(now) /\ old \subseteq now
    <3>1. now \subseteq born' /\ IsFiniteSet(born')
      BY <1>19 DEF BornKnown
    <3> QED
      BY <1>13, <3>1, FS_Subset
  <2>3. old = now \/ (\E b : now = old \union {b} /\ b \notin old /\ IsFiniteSet(old))
    <3>1. IsFiniteSet(old)
      BY <2>2, FS_Subset
    <3>2. CASE row \in now /\ row \notin old
      <4>1. now = old \union {row}
        BY <1>12, <2>2, <3>2
      <4> QED
        BY <3>1, <3>2, <4>1
    <3>3. CASE ~(row \in now /\ row \notin old)
      BY <1>12, <2>2, <3>3
    <3> QED
      BY <3>2, <3>3
  <2>4. Cardinality(now) = Cardinality(old) \/ Cardinality(now) = Cardinality(old) + 1
    BY <2>3, FS_AddElement
  <2>5. result.imported + Cardinality(result.lost) <= Cardinality(now)
    <3>1. IsFiniteSet(old) /\ Cardinality(old) \in Nat
      BY <2>2, FS_Subset, FS_CardinalityType
    <3> QED
      BY <2>1, <2>4, <3>1
  <2> QED
    BY <1>11, <2>1, <2>5 DEF ResultTells, ResultsTellTheStore
<1>23. ReviewShowsTheFile'
  BY <1>11 DEF ImportInv, ReviewShowsTheFile
<1> QED
  BY <1>11, <1>16, <1>17, <1>18, <1>19, <1>20, <1>21, <1>22, <1>23
     DEF ImportInv, Books, SheetKnown, ReportKnown, GoodReport

\* The rows of a report are those that fail, and the valid ones that were
\* imported or were not.
LEMMA RowsAreCounted ==
  ASSUME NEW r, GoodReport(r), NEW told, NEW lost, told \subseteq r.valid, lost \subseteq r.valid
  PROVE  /\ IsFiniteSet(told) /\ IsFiniteSet(lost) /\ Cardinality(told) \in Nat /\ Cardinality(lost) \in Nat
         /\ Cardinality(r.failed) \in Nat /\ Cardinality(r.valid) \in Nat
         /\ Cardinality(r.failed) + (Cardinality(r.valid) - Cardinality(told)) + Cardinality(told) = Len(r.rows)
<1>1. r.rows \in Seq(Line) /\ r.valid \subseteq DOMAIN r.rows /\ r.failed = DOMAIN r.rows \ r.valid
  BY DEF GoodReport
<1>2. DOMAIN r.rows = 1..Len(r.rows) /\ Len(r.rows) \in Nat
  BY <1>1
<1>3. IsFiniteSet(DOMAIN r.rows) /\ Cardinality(DOMAIN r.rows) = Len(r.rows)
  <2>1. IsFiniteSet(1..Len(r.rows)) /\ Cardinality(1..Len(r.rows)) = IF 1 > Len(r.rows) THEN 0 ELSE Len(r.rows) - 1 + 1
    BY <1>2, FS_Interval
  <2> QED
    BY <1>2, <2>1
<1>4. IsFiniteSet(r.valid) /\ IsFiniteSet(told) /\ IsFiniteSet(lost) /\ IsFiniteSet(r.failed)
  <2>1. IsFiniteSet(r.valid) /\ IsFiniteSet(r.failed)
    BY <1>1, <1>3, FS_Subset
  <2> QED
    BY <2>1, FS_Subset
<1>5. /\ Cardinality(told) \in Nat /\ Cardinality(lost) \in Nat /\ Cardinality(r.failed) \in Nat
      /\ Cardinality(r.valid) \in Nat
  BY <1>4, FS_CardinalityType
<1>6. Cardinality(r.failed) = Len(r.rows) - Cardinality(r.valid)
  <2>1. Cardinality(DOMAIN r.rows \ r.valid) = Cardinality(DOMAIN r.rows) - Cardinality(DOMAIN r.rows \intersect r.valid)
    BY <1>3, <1>4, FS_Difference
  <2>2. DOMAIN r.rows \intersect r.valid = r.valid
    BY <1>1
  <2> QED
    BY <1>1, <1>3, <2>1, <2>2
<1> QED
  BY <1>2, <1>4, <1>5, <1>6

\* Rows that were written stand for as many writes.
LEMMA WrittenAreCounted ==
  ASSUME NEW n, NEW told, NEW lost, IsFiniteSet(told), IsFiniteSet(lost), told \intersect lost = {}, IsFiniteSet(born),
         \A k \in told \union lost : \E b \in born : b.nth = n /\ b.row = k
  PROVE  Cardinality(told) + Cardinality(lost) <= Cardinality({b \in born : b.nth = n})
<1> DEFINE W == {b \in born : b.nth = n}
           rows == {b.row : b \in W}
<1>1. IsFiniteSet(W)
  BY FS_Subset
<1>2. IsFiniteSet(rows) /\ Cardinality(rows) <= Cardinality(W)
  <2> DEFINE f == [b \in W |-> b.row]
  <2>1. f \in Surjection(W, rows)
    BY DEF Surjection
  <2> HIDE DEF W, rows, f
  <2> QED
    BY <1>1, <2>1, FS_Surjection
<1>3. told \union lost \subseteq rows
  OBVIOUS
<1> HIDE DEF W, rows
<1>4. IsFiniteSet(told \union lost) /\ Cardinality(told \union lost) <= Cardinality(rows)
  BY <1>2, <1>3, FS_Subset
<1>5. Cardinality(told \union lost) = Cardinality(told) + Cardinality(lost)
  <2>1. Cardinality(told \union lost) = Cardinality(told) + Cardinality(lost) - Cardinality(told \intersect lost)
    BY FS_Union
  <2>2. Cardinality(told \intersect lost) = 0
    BY FS_EmptySet
  <2>3. Cardinality(told) \in Nat /\ Cardinality(lost) \in Nat
    BY FS_CardinalityType
  <2> QED
    BY <2>1, <2>2, <2>3
<1> QED
  BY <1>1, <1>2, <1>4, <1>5, FS_CardinalityType DEF W

\* The answer to a commit counts what it wrote.
LEMMA CommitIsAnswered == ASSUME ImportInv, Committed PROVE ImportInv'
<1>1. PICK op \in ops :
        /\ op.is = "commit" /\ op.left = {} /\ Returns(op)
        /\ Lands(op, /\ step' = "done"
                     /\ result' = [imported |-> Cardinality(op.imported), nth |-> op.nth, lost |-> op.lost,
                                   failed |-> Cardinality(op.report.failed)
                                              + (Cardinality(op.report.valid) - Cardinality(op.imported))]
                     /\ UNCHANGED <<sheet, mapping, report, atomic, parseError, wizard>>)
        /\ UNCHANGED <<enrolled, turned, twice, committed, born, count>>
  BY Zenon DEF Committed
<1>2. /\ ops' = ops \ {op} /\ UNCHANGED <<sheet, mapping, report, wizard, turned, twice, committed, born>>
      /\ busy' = IF Mine(op) THEN FALSE ELSE busy
  BY <1>1 DEF Returns, Lands, wizardVars
<1>3. \/ UNCHANGED <<step, result>>
      \/ /\ step' = "done" /\ result'.nth = op.nth /\ result'.lost = op.lost
         /\ result'.imported = Cardinality(op.imported)
         /\ result'.failed = Cardinality(op.report.failed) + (Cardinality(op.report.valid) - Cardinality(op.imported))
  BY <1>1 DEF Lands, wizardVars
<1>4. Books'
  BY <1>2, BooksStay DEF ImportInv, Books, OpsKnown
<1>5. BusyTells'
  BY <1>1, <1>2, Landed DEF ImportInv
<1>6. MakingTells'
  BY <1>2, <1>3 DEF ImportInv, MakingTells, Mine
<1>7. ReviewShowsTheFile'
  BY <1>2, <1>3 DEF ImportInv, ReviewShowsTheFile
<1>8. ResultTells'
  <2>1. CASE UNCHANGED <<step, result>>
    BY <1>2, <2>1, ResultStays DEF ImportInv
  <2>2. CASE /\ step' = "done" /\ result'.nth = op.nth /\ result'.lost = op.lost
             /\ result'.imported = Cardinality(op.imported)
             /\ result'.failed = Cardinality(op.report.failed)
                                  + (Cardinality(op.report.valid) - Cardinality(op.imported))
    <3>1. IsCommit(op)
      BY <1>1 DEF ImportInv, Books, OpsKnown, IsOp, IsRead, IsValidate
    <3>2. GoodReport(op.report) /\ op.nth \in DOMAIN committed /\ op.report = committed[op.nth] /\ IsFiniteSet(born)
      BY <3>1 DEF IsCommit, ImportInv, Books, CommittedKnown, BornKnown
    <3>3. /\ op.imported \subseteq op.report.valid /\ op.lost \subseteq op.report.valid
          /\ op.imported \intersect op.lost = {}
          /\ \A k \in op.imported \union op.lost : \E b \in born : b.nth = op.nth /\ b.row = k
      BY <3>1 DEF IsCommit
    <3>4. /\ op.imported \subseteq op.report.valid
          /\ Cardinality(op.imported) \in Nat /\ Cardinality(op.lost) \in Nat
          /\ Cardinality(op.report.failed) + (Cardinality(op.report.valid) - Cardinality(op.imported)) + Cardinality(op.imported)
               = Len(op.report.rows)
          /\ IsFiniteSet(op.imported) /\ IsFiniteSet(op.lost)
      BY <3>2, <3>3, RowsAreCounted
    <3>5. Cardinality(op.imported) + Cardinality(op.lost) <= Cardinality({b \in born : b.nth = op.nth})
      BY <3>2, <3>3, <3>4, WrittenAreCounted
    <3>6. {b \in born' : b.nth = result'.nth} = {b \in born : b.nth = op.nth}
      BY <1>2, <2>2
    <3>7. /\ Cardinality(op.report.failed) \in Nat /\ Cardinality(op.report.valid) \in Nat
      BY <3>2, <3>3, RowsAreCounted
    <3>8. result'.imported + result'.failed = Len(committed'[result'.nth].rows)
      BY <1>2, <2>2, <3>2, <3>4, <3>7
    <3>9. result'.imported + Cardinality(result'.lost) <= Cardinality({b \in born' : b.nth = result'.nth})
      BY <2>2, <3>5, <3>6
    <3> QED
      BY <1>2, <2>2, <3>2, <3>4, <3>8, <3>9 DEF ResultTells, ResultsTellTheStore
  <2> QED
    BY <1>3, <2>1, <2>2
<1> QED
  BY <1>2, <1>4, <1>5, <1>6, <1>7, <1>8 DEF ImportInv, SheetKnown, ReportKnown, GoodReport

LEMMA ImportStarts == ASSUME ImportInit PROVE ImportInv
<1>1. Books
  BY FS_EmptySet DEF ImportInit, Books, OpsKnown, CommitsApart, CommittedKnown, BornKnown
<1>2. BusyTells /\ SheetKnown /\ ReportKnown /\ MakingTells
  BY DEF ImportInit, BusyTells, SheetKnown, ReportKnown, MakingTells, Mine
<1>3. ReviewShowsTheFile /\ ResultTells
  BY DEF ImportInit, ReviewShowsTheFile, ResultTells, ResultsTellTheStore
<1> QED
  BY <1>1, <1>2, <1>3 DEF ImportInv

LEMMA ImportSteps == ASSUME ImportInv, [ImportNext]_importVars PROVE ImportInv'
<1>1. CASE ImportNext
  BY <1>1, FileIsChosen, FileIsRead, ColumnIsMapped, ValidationStarts, ContextIsLoaded, RowsAreChecked, AnswerIsDropped,
     UserTurns, ReportIsConfirmed, RowIsWritten, CommitIsAnswered, ExportStarts, SettingsAreLeft DEF ImportNext
<1>2. CASE UNCHANGED importVars
  <2>1. UNCHANGED <<step, sheet, mapping, report, result, busy, wizard, ops, turned, twice, committed, born>>
    BY <1>2 DEF importVars
  <2>2. Books'
    BY <2>1, BooksStay DEF ImportInv, Books, OpsKnown
  <2>3. BusyTells' /\ MakingTells'
    BY <2>1, BusyStays DEF ImportInv, MakingTells, Mine
  <2>4. ReviewShowsTheFile' /\ ResultTells'
    BY <2>1, ResultStays DEF ImportInv, ReviewShowsTheFile
  <2> QED
    BY <2>1, <2>2, <2>3, <2>4 DEF ImportInv, SheetKnown, ReportKnown, GoodReport
<1> QED
  BY <1>1, <1>2

LEMMA ImportIsKept ==
  ASSUME ImportInv
  PROVE  ImportHolds
<1>1. OneAtATime
  <2> SUFFICES ASSUME ~twice PROVE Cardinality({op \in ops : Mine(op)}) <= 1
    BY DEF ImportInv, BusyTells, OneAtATime
  <2>1. {op \in ops : Mine(op)} = {} \/ \E o : {op \in ops : Mine(op)} = {o}
    BY DEF ImportInv, BusyTells
  <2> QED
    <3> DEFINE M == {op \in ops : Mine(op)}
    <3>1. M = {} => Cardinality(M) <= 1
      BY FS_EmptySet
    <3>2. \A o : M = {o} => Cardinality(M) <= 1
      BY FS_Singleton
    <3> HIDE DEF M
    <3>3. Cardinality(M) <= 1
      BY <2>1, <3>1, <3>2 DEF M
    <3> QED
      BY <3>3 DEF M
<1>2. OnlyConfirmedRows
  <2> SUFFICES ASSUME NEW b \in born
               PROVE  /\ b.row \in committed[b.nth].valid
                      /\ FieldsPass(committed[b.nth].rows[b.row], committed[b.nth].mapping, Staff)
                      /\ b.whole => committed[b.nth].failed = {}
                      /\ \A c \in born : c.nth = b.nth /\ c.id = b.id => c = b
    BY Zenon DEF OnlyConfirmedRows
  <2>1. b.nth \in DOMAIN committed /\ b.row \in committed[b.nth].valid /\ (b.whole => committed[b.nth].failed = {})
        /\ b.id = committed[b.nth].value[b.row].nationalId
    BY DEF ImportInv, Books, BornKnown
  <2>2. GoodReport(committed[b.nth])
    BY <2>1 DEF ImportInv, Books, CommittedKnown
  <2>3. ASSUME NEW c \in born, c.nth = b.nth, c.id = b.id PROVE c = b
    <3>1. c.row \in committed[b.nth].valid /\ c.id = committed[b.nth].value[c.row].nationalId
      BY <2>3 DEF ImportInv, Books, BornKnown
    <3>2. c.row = b.row
      BY <2>1, <2>2, <2>3, <3>1 DEF GoodReport
    <3> QED
      BY <2>3, <3>2 DEF ImportInv, Books, BornKnown
  <2> QED
    BY <2>1, <2>2, <2>3 DEF GoodReport
<1>3. ReviewShowsTheFile /\ ResultsTellTheStore
  BY DEF ImportInv, ResultTells
<1>4. SheetsAreBounded
  BY DEF ImportInv, SheetKnown, SheetsAreBounded
<1> QED
  BY <1>1, <1>2, <1>3, <1>4 DEF ImportHolds

(* Whatever else the wizard is asked for while something is on its way and *)
(* whatever others enroll: an import writes only rows that passed on the   *)
(* report that was confirmed, each number once and in the default mode all *)
(* or none, and its result accounts for every row of the file              *)
(* (domains/importExport/studentImport.ts, StudentImportWizard).           *)
THEOREM ImportAlwaysHolds == ImportSpec => []ImportHolds
<1>1. ImportInit => ImportInv
  BY ImportStarts
<1>2. ImportInv /\ [ImportNext]_importVars => ImportInv'
  BY ImportSteps
<1>3. ImportInv => ImportHolds
  BY ImportIsKept
<1> QED
  BY <1>1, <1>2, <1>3, PTL DEF ImportSpec

-----------------------------------------------------------------------------
(***************************************************************************)
(* The gallery and the library of a demo.  What a job still has to do is    *)
(* what was there when it began: a row it lists keeps its file and album    *)
(* while it lives.  A file that is being stored is nobody else's, and one   *)
(* that is being freed is shown by nothing but what was filed meanwhile.    *)
(***************************************************************************)
Verbs == {"none", "upload", "save", "delete", "move", "album"}
Phases == {"rest", "next", "storing", "freeing"}
Tasks == [id : Nat, album : Nat, media : Nat]
Jobs == [verb : Verbs, phase : Phases, todo : Seq(Tasks), album : Nat, media : Nat,
         written : Nat, failed : Nat, mine : Nat]
ItemsOf(todo) == {todo[k] : k \in DOMAIN todo}
Named(m) == mediaStillReferenced(m, albums, pictures, catalogue)
Risked == {crossed[p] : p \in DOMAIN crossed}

StoresTyped ==
  /\ made \in 0..MaxIds /\ started \in 0..MaxJobs
  /\ albums \in [DOMAIN albums -> 0..made] /\ DOMAIN albums \subseteq 1..made
  /\ pictures \in [DOMAIN pictures -> [album : 1..made, media : 1..made, order : Nat]] /\ DOMAIN pictures \subseteq 1..made
  /\ catalogue \in [DOMAIN catalogue -> 0..made] /\ DOMAIN catalogue \subseteq 1..made
  /\ assets \subseteq 1..made /\ left \subseteq 1..made /\ covered \subseteq 1..made
  /\ crossed \in [DOMAIN crossed -> 1..made] /\ DOMAIN crossed \subseteq 1..made
  /\ uploadDialog \in [open : BOOLEAN, album : 0..made] /\ job \in [Surfaces -> Jobs]

\* What a job holds and has to do, of the rows as they are.
JobKnown(s) ==
  LET j == job[s]  items == ItemsOf(job[s].todo)
  IN  /\ j.album <= made /\ j.media <= made /\ j.mine <= made
      /\ (j.verb = "save" => s = "library") /\ (j.verb = "move" => s = "batch")
      /\ \A i \in items : i.id <= made /\ i.album <= made /\ i.media <= made
      /\ j.phase = "storing" => j.verb \in {"upload", "save"} /\ j.todo # <<>> /\ j.media \in assets /\ ~Named(j.media)
      /\ j.phase = "freeing" => j.media # NoMedia /\ (Named(j.media) => j.media \in Risked)
      /\ j.verb = "save" => \A i \in items : i.id \in DOMAIN catalogue \union {0}
      /\ j.verb \in {"delete", "move", "album"} =>
            \A i \in items : i.id \in DOMAIN pictures => pictures[i.id].media = i.media /\ pictures[i.id].album = i.album
      /\ j.verb = "move" =>
            /\ \A i \in items, p \in DOMAIN pictures : pictures[p].media = i.media => p = i.id
            /\ \A k, l \in DOMAIN j.todo : k # l => j.todo[k].media # j.todo[l].media
      /\ j.verb = "album" =>
            /\ \A i \in items : i.album = j.album
            /\ \A p \in DOMAIN pictures \ DOMAIN crossed : pictures[p].album = j.album => \E i \in items : i.id = p
StoresApart(s, t) ==
  job[s].phase = "storing" =>
    /\ s # t /\ job[t].phase \in {"storing", "freeing"} => job[t].media # job[s].media
    /\ \A i \in ItemsOf(job[t].todo) : i.media # job[s].media
JobsKnown == \A s \in Surfaces : JobKnown(s) /\ \A t \in Surfaces : StoresApart(s, t)
Busy(m) == \E s \in Surfaces : job[s].phase \in {"storing", "freeing"} /\ job[s].media = m
FilesKnown ==
  /\ \A m \in 1..made : Named(m) => m \in assets \union Risked
  /\ \A m \in assets : m \in left \union covered \/ Named(m) \/ Busy(m)
  /\ \A a \in DOMAIN albums : albums[a] \in covered \union {NoMedia}
  /\ PicturesAreFiledOnce
ShowcaseInv == StoresTyped /\ JobsKnown /\ FilesKnown /\ AlbumsAreContiguous

-----------------------------------------------------------------------------
(* Lists of items.                                                         *)

LEMMA ListOf ==
  ASSUME NEW q \in Seq(Tasks)
  PROVE  DOMAIN q = 1..Len(q) /\ Len(q) \in Nat /\ ItemsOf(q) \subseteq Tasks /\ (q = <<>> <=> ItemsOf(q) = {})
<1>1. Len(q) \in Nat /\ DOMAIN q = 1..Len(q) /\ \A k \in 1..Len(q) : q[k] \in Tasks
  BY LenProperties, ElementOfSeq
<1>2. q = <<>> => ItemsOf(q) = {}
  BY DEF ItemsOf
<1>3. q # <<>> => q[1] \in ItemsOf(q)
  <2> HAVE q # <<>>
  <2>1. Len(q) >= 1
    BY EmptySeq
  <2> QED
    BY <1>1, <2>1 DEF ItemsOf
<1> QED
  BY <1>1, <1>2, <1>3 DEF ItemsOf

LEMMA TailOf ==
  ASSUME NEW q \in Seq(Tasks), q # <<>>
  PROVE  /\ Head(q) \in Tasks /\ Tail(q) \in Seq(Tasks) /\ Head(q) = q[1] /\ 1 \in DOMAIN q
         /\ ItemsOf(q) = {Head(q)} \union ItemsOf(Tail(q))
         /\ \A k \in DOMAIN Tail(q) : k + 1 \in DOMAIN q /\ Tail(q)[k] = q[k + 1]
<1>1. /\ Head(q) \in Tasks /\ Tail(q) \in Seq(Tasks) /\ Len(Tail(q)) = Len(q) - 1
      /\ \A i \in 1..Len(Tail(q)) : Tail(q)[i] = q[i + 1]
  BY HeadTailProperties
<1>2. DOMAIN q = 1..Len(q) /\ Len(q) \in Nat /\ DOMAIN Tail(q) = 1..Len(Tail(q)) /\ Head(q) = q[1]
  BY <1>1, LenProperties
<1>3. Len(q) >= 1
  BY <1>2, EmptySeq
<1>4. \A k \in DOMAIN q : k = 1 \/ (k - 1 \in DOMAIN Tail(q) /\ Tail(q)[k - 1] = q[k])
  BY <1>1, <1>2, <1>3
<1>5. \A k \in DOMAIN Tail(q) : k + 1 \in DOMAIN q /\ Tail(q)[k] = q[k + 1]
  BY <1>1, <1>2, <1>3
<1>6. ItemsOf(q) = {Head(q)} \union ItemsOf(Tail(q))
  <2>1. \A k \in DOMAIN q : q[k] \in {Head(q)} \union ItemsOf(Tail(q))
    BY <1>2, <1>4 DEF ItemsOf
  <2>2. \A k \in DOMAIN Tail(q) : Tail(q)[k] \in ItemsOf(q)
    BY <1>5 DEF ItemsOf
  <2>3. Head(q) \in ItemsOf(q)
    BY <1>2, <1>3 DEF ItemsOf
  <2> QED
    BY <2>1, <2>2, <2>3 DEF ItemsOf
<1> QED
  BY <1>1, <1>2, <1>3, <1>5, <1>6

\* A job whose first item is done.
LEMMA RestOfJob ==
  ASSUME NEW j \in Jobs, j.todo # <<>>
  PROVE  /\ Tail(j.todo) \in Seq(Tasks) /\ ItemsOf(Tail(j.todo)) \subseteq ItemsOf(j.todo) /\ Head(j.todo) \in ItemsOf(j.todo)
         /\ (\A k, l \in DOMAIN j.todo : k # l => j.todo[k].media # j.todo[l].media) =>
              /\ \A k, l \in DOMAIN Tail(j.todo) : k # l => Tail(j.todo)[k].media # Tail(j.todo)[l].media
              /\ \A i \in ItemsOf(Tail(j.todo)) : i.media # Head(j.todo).media
<1> DEFINE q == j.todo
<1>1. q \in Seq(Tasks)
  BY DEF Jobs
<1> HIDE DEF q
<1>2. /\ Head(q) \in Tasks /\ Tail(q) \in Seq(Tasks) /\ Head(q) = q[1] /\ 1 \in DOMAIN q
      /\ ItemsOf(q) = {Head(q)} \union ItemsOf(Tail(q))
      /\ \A k \in DOMAIN Tail(q) : k + 1 \in DOMAIN q /\ Tail(q)[k] = q[k + 1]
  BY <1>1, TailOf DEF q
<1>3. DOMAIN Tail(q) = 1..Len(Tail(q)) /\ Len(Tail(q)) \in Nat
  BY <1>2, ListOf
<1>4. ASSUME \A k, l \in DOMAIN q : k # l => q[k].media # q[l].media
      PROVE  /\ \A k, l \in DOMAIN Tail(q) : k # l => Tail(q)[k].media # Tail(q)[l].media
             /\ \A i \in ItemsOf(Tail(q)) : i.media # Head(q).media
  <2>1. \A k, l \in DOMAIN Tail(q) : k # l => Tail(q)[k].media # Tail(q)[l].media
    <3> TAKE k, l \in DOMAIN Tail(q)
    <3> HAVE k # l
    <3>1. k + 1 \in DOMAIN q /\ l + 1 \in DOMAIN q /\ k + 1 # l + 1
      BY <1>2, <1>3
    <3> QED
      BY <1>2, <1>4, <3>1
  <2>2. \A k \in DOMAIN Tail(q) : Tail(q)[k].media # Head(q).media
    <3> TAKE k \in DOMAIN Tail(q)
    <3>1. k + 1 \in DOMAIN q /\ k + 1 # 1
      BY <1>2, <1>3
    <3> QED
      BY <1>2, <1>4, <3>1
  <2> QED
    BY <2>1, <2>2 DEF ItemsOf
<1> QED
  BY <1>2, <1>4 DEF q

-----------------------------------------------------------------------------
(* What the other surfaces know after a step.                              *)

LEMMA OthersKnown ==
  ASSUME NEW t \in Surfaces, StoresTyped, JobKnown(t), job'[t] = job[t], made' \in Nat, made <= made',
         DOMAIN catalogue \subseteq DOMAIN catalogue', DOMAIN crossed \subseteq DOMAIN crossed', Risked \subseteq Risked',
         job[t].phase = "storing" => job[t].media \in assets' /\ ~Named(job[t].media)',
         job[t].phase = "freeing" /\ Named(job[t].media)' => job[t].media \in Risked',
         \A p \in DOMAIN pictures' :
           \/ p \in DOMAIN pictures /\ pictures'[p].media = pictures[p].media /\ pictures'[p].album = pictures[p].album
           \/ /\ p > made
              /\ job[t].verb = "album" /\ job[t].album = pictures'[p].album => p \in DOMAIN crossed'
              /\ job[t].verb = "move" => \A i \in ItemsOf(job[t].todo) : i.media # pictures'[p].media
  PROVE  JobKnown(t)'
<1> DEFINE j == job[t]
           items == ItemsOf(j.todo)
<1>1. made \in Nat /\ j \in Jobs
  BY DEF StoresTyped
<1>2. j.album \in Nat /\ j.media \in Nat /\ j.mine \in Nat /\ j.todo \in Seq(Tasks)
  BY <1>1 DEF Jobs
<1>3. \A i \in items : i.id \in Nat /\ i.album \in Nat /\ i.media \in Nat
  BY <1>2, ListOf DEF Tasks
<1>4. /\ j.album <= made /\ j.media <= made /\ j.mine <= made
      /\ (j.verb = "save" => t = "library") /\ (j.verb = "move" => t = "batch")
      /\ \A i \in items : i.id <= made /\ i.album <= made /\ i.media <= made
      /\ j.phase = "storing" => j.verb \in {"upload", "save"} /\ j.todo # <<>>
      /\ j.phase = "freeing" => j.media # NoMedia
      /\ j.verb = "save" => \A i \in items : i.id \in DOMAIN catalogue \union {0}
      /\ j.verb \in {"delete", "move", "album"} =>
            \A i \in items : i.id \in DOMAIN pictures => pictures[i.id].media = i.media /\ pictures[i.id].album = i.album
      /\ j.verb = "move" =>
            /\ \A i \in items, p \in DOMAIN pictures : pictures[p].media = i.media => p = i.id
            /\ \A k, l \in DOMAIN j.todo : k # l => j.todo[k].media # j.todo[l].media
      /\ j.verb = "album" =>
            /\ \A i \in items : i.album = j.album
            /\ \A p \in DOMAIN pictures \ DOMAIN crossed : pictures[p].album = j.album => \E i \in items : i.id = p
  BY Zenon DEF JobKnown
<1> HIDE DEF j, items
<1>5. j.album <= made' /\ j.media <= made' /\ j.mine <= made'
      /\ \A i \in items : i.id <= made' /\ i.album <= made' /\ i.media <= made'
  BY <1>1, <1>2, <1>3, <1>4
<1>6. j.verb = "save" => \A i \in items : i.id \in DOMAIN catalogue' \union {0}
  BY <1>4
<1>7. j.verb \in {"delete", "move", "album"} =>
        \A i \in items : i.id \in DOMAIN pictures' => pictures'[i.id].media = i.media /\ pictures'[i.id].album = i.album
  BY <1>1, <1>3, <1>4 DEF j, items
<1>8. j.verb = "move" => \A i \in items, p \in DOMAIN pictures' : pictures'[p].media = i.media => p = i.id
  BY <1>4 DEF j, items
<1>9. j.verb = "album" =>
        \A p \in DOMAIN pictures' \ DOMAIN crossed' : pictures'[p].album = j.album => \E i \in items : i.id = p
  BY <1>4 DEF j, items
<1> QED
  BY <1>4, <1>5, <1>6, <1>7, <1>8, <1>9 DEF JobKnown, j, items

\* What it takes for a surface to know its job.
LEMMA Knows ==
  ASSUME NEW s \in Surfaces, NEW x, job'[s] = x,
         x.album <= made' /\ x.media <= made' /\ x.mine <= made',
         (x.verb = "save" => s = "library") /\ (x.verb = "move" => s = "batch"),
         \A i \in ItemsOf(x.todo) : i.id <= made' /\ i.album <= made' /\ i.media <= made',
         x.phase = "storing" => x.verb \in {"upload", "save"} /\ x.todo # <<>> /\ x.media \in assets' /\ ~Named(x.media)',
         x.phase = "freeing" => x.media # NoMedia /\ (Named(x.media)' => x.media \in Risked'),
         x.verb = "save" => \A i \in ItemsOf(x.todo) : i.id \in DOMAIN catalogue' \union {0},
         x.verb \in {"delete", "move", "album"} =>
            \A i \in ItemsOf(x.todo) :
               i.id \in DOMAIN pictures' => pictures'[i.id].media = i.media /\ pictures'[i.id].album = i.album,
         x.verb = "move" =>
            /\ \A i \in ItemsOf(x.todo), p \in DOMAIN pictures' : pictures'[p].media = i.media => p = i.id
            /\ \A k, l \in DOMAIN x.todo : k # l => x.todo[k].media # x.todo[l].media,
         x.verb = "album" =>
            /\ \A i \in ItemsOf(x.todo) : i.album = x.album
            /\ \A p \in DOMAIN pictures' \ DOMAIN crossed' : pictures'[p].album = x.album => \E i \in ItemsOf(x.todo) : i.id = p
  PROVE  JobKnown(s)'
  BY Zenon DEF JobKnown

\* At most rows without a file are added.
Grows(old, new) ==
  /\ new \in [DOMAIN new -> 0..made'] /\ DOMAIN new \subseteq 1..made' /\ DOMAIN old \subseteq DOMAIN new
  /\ \A x \in DOMAIN new : IF x \in DOMAIN old THEN new[x] = old[x] ELSE x > made /\ new[x] = NoMedia
RowsGrow ==
  /\ made' \in made..MaxIds /\ started' \in 0..MaxJobs /\ uploadDialog' \in [open : BOOLEAN, album : 0..made']
  /\ UNCHANGED <<pictures, assets, left, covered, crossed>>
  /\ Grows(albums, albums') /\ Grows(catalogue, catalogue')

LEMMA RowsStay ==
  ASSUME StoresTyped, started' \in 0..MaxJobs, uploadDialog' \in [open : BOOLEAN, album : 0..made],
         UNCHANGED <<galleryRows, assets, catalogue, made, left, covered, crossed>>
  PROVE  RowsGrow
  BY ShowcaseAssumption DEF RowsGrow, Grows, StoresTyped, galleryRows, ShowcaseAssumption

LEMMA RowsGrown ==
  ASSUME StoresTyped, RowsGrow
  PROVE  /\ \A m : m # NoMedia => (Named(m)' <=> Named(m))
         /\ Risked' = Risked /\ made \in Nat /\ made' \in Nat /\ made <= made'
<1>1. made \in Nat /\ made' \in Nat /\ made <= made' /\ UNCHANGED <<pictures, crossed>>
  BY ShowcaseAssumption DEF StoresTyped, RowsGrow, ShowcaseAssumption
<1>2. \A m : m # NoMedia => /\ (\E x \in DOMAIN albums' : albums'[x] = m) <=> (\E x \in DOMAIN albums : albums[x] = m)
                            /\ (\E x \in DOMAIN catalogue' : catalogue'[x] = m) <=> (\E x \in DOMAIN catalogue : catalogue[x] = m)
  BY DEF RowsGrow, Grows
<1>3. \A m : m # NoMedia => (Named(m)' <=> Named(m))
  BY <1>1, <1>2 DEF Named, mediaStillReferenced
<1> QED
  BY <1>1, <1>3 DEF Risked

LEMMA OthersRest ==
  ASSUME NEW t \in Surfaces, StoresTyped, JobKnown(t), job'[t] = job[t], RowsGrow
  PROVE  JobKnown(t)'
<1>1. /\ \A m : m # NoMedia => (Named(m)' <=> Named(m))
      /\ Risked' = Risked /\ made \in Nat /\ made' \in Nat /\ made <= made'
  BY RowsGrown
<1>2. UNCHANGED <<pictures, assets, crossed>> /\ DOMAIN catalogue \subseteq DOMAIN catalogue'
  BY DEF RowsGrow, Grows
<1>3. job[t].phase = "storing" => job[t].media \in assets /\ job[t].media # NoMedia /\ ~Named(job[t].media)
  BY DEF JobKnown, StoresTyped, NoMedia
<1>4. job[t].phase = "freeing" => job[t].media # NoMedia /\ (Named(job[t].media) => job[t].media \in Risked)
  BY DEF JobKnown
<1>5. /\ job[t].phase = "storing" => job[t].media \in assets' /\ ~Named(job[t].media)'
      /\ job[t].phase = "freeing" /\ Named(job[t].media)' => job[t].media \in Risked'
  BY <1>1, <1>2, <1>3, <1>4
<1> QED
  BY <1>1, <1>2, <1>5, OthersKnown

\* One job goes on, and does not store.
LEMMA ApartKept ==
  ASSUME StoresTyped, JobsKnown, NEW s \in Surfaces, NEW x, job' = [job EXCEPT ![s] = x], x.phase # "storing",
         \A u \in Surfaces \ {s} : job[u].phase = "storing" =>
            /\ x.phase = "freeing" => x.media # job[u].media
            /\ \A i \in ItemsOf(x.todo) : i.media # job[u].media
  PROVE  \A u, v \in Surfaces : StoresApart(u, v)'
<1>1. job'[s] = x /\ \A u \in Surfaces \ {s} : job'[u] = job[u]
  BY DEF StoresTyped
<1> TAKE u, v \in Surfaces
<1>2. CASE u = s
  BY <1>1, <1>2 DEF StoresApart
<1>3. CASE u # s /\ v # s
  <2>1. StoresApart(u, v)
    BY DEF JobsKnown
  <2> QED
    BY <1>1, <1>3, <2>1 DEF StoresApart
<1>4. CASE u # s /\ v = s
  BY <1>1, <1>4 DEF StoresApart
<1> QED
  BY <1>2, <1>3, <1>4

\* Jobs change that neither store nor free nor remove an album.
Turns(u) ==
  /\ job[u].verb # "album" /\ job[u].phase \notin {"storing", "freeing"} /\ job'[u].phase \notin {"storing", "freeing"}
  /\ \A v \in Surfaces : job[v].phase = "storing" => \A i \in ItemsOf(job'[u].todo) : i.media # job[v].media

LEMMA JobsTurn ==
  ASSUME ShowcaseInv, RowsGrow, job' \in [Surfaces -> Jobs],
         \A u \in Surfaces : job'[u] = job[u] \/ (Turns(u) /\ JobKnown(u)')
  PROVE  ShowcaseInv'
<1>1. /\ \A m : m # NoMedia => (Named(m)' <=> Named(m))
      /\ Risked' = Risked /\ made \in Nat /\ made' \in Nat /\ made <= made'
  BY RowsGrown DEF ShowcaseInv
<1>2. UNCHANGED <<pictures, assets, left, covered, crossed>>
  BY DEF RowsGrow
<1>3. StoresTyped'
  <2>1. made' \in 0..MaxIds /\ started' \in 0..MaxJobs /\ uploadDialog' \in [open : BOOLEAN, album : 0..made']
    BY <1>1 DEF RowsGrow
  <2>2. /\ albums' \in [DOMAIN albums' -> 0..made'] /\ DOMAIN albums' \subseteq 1..made'
        /\ catalogue' \in [DOMAIN catalogue' -> 0..made'] /\ DOMAIN catalogue' \subseteq 1..made'
    BY DEF RowsGrow, Grows
  <2>3. /\ pictures' \in [DOMAIN pictures' -> [album : 1..made', media : 1..made', order : Nat]] /\ DOMAIN pictures' \subseteq 1..made'
        /\ assets' \subseteq 1..made' /\ left' \subseteq 1..made' /\ covered' \subseteq 1..made'
        /\ crossed' \in [DOMAIN crossed' -> 1..made'] /\ DOMAIN crossed' \subseteq 1..made'
    <3>1. 1..made \subseteq 1..made'
      BY <1>1
    <3> QED
      BY <1>2, <3>1 DEF ShowcaseInv, StoresTyped
  <2> QED
    BY <2>1, <2>2, <2>3 DEF StoresTyped
<1>4. JobsKnown'
  <2>1. \A t \in Surfaces : JobKnown(t)'
    BY OthersRest DEF ShowcaseInv, JobsKnown
  <2>2. \A u, v \in Surfaces : StoresApart(u, v)'
    <3> TAKE u, v \in Surfaces
    <3>1. CASE job'[u] # job[u]
      BY <3>1 DEF StoresApart, Turns
    <3>2. CASE job'[u] = job[u] /\ job'[v] = job[v]
      BY <3>2 DEF StoresApart, ShowcaseInv, JobsKnown
    <3>3. CASE job'[u] = job[u] /\ job'[v] # job[v]
      BY <3>3 DEF StoresApart, Turns
    <3> QED
      BY <3>1, <3>2, <3>3
  <2> QED
    BY <2>1, <2>2 DEF JobsKnown
<1>5. FilesKnown'
  <2>1. \A m : Busy(m) => Busy(m)'
    BY DEF Busy, Turns
  <2>2. \A m \in 1..made' : Named(m)' => m \in assets' \union Risked'
    <3> TAKE m \in 1..made'
    <3> HAVE Named(m)'
    <3>1. Named(m)
      BY <1>1 DEF NoMedia
    <3>2. m <= made
      BY <1>1, <3>1 DEF ShowcaseInv, StoresTyped, Named, mediaStillReferenced
    <3> QED
      BY <1>1, <1>2, <3>1, <3>2 DEF ShowcaseInv, FilesKnown
  <2>3. \A m \in assets' : m \in left' \union covered' \/ Named(m)' \/ Busy(m)'
    BY <1>1, <1>2, <2>1 DEF ShowcaseInv, FilesKnown, StoresTyped, NoMedia
  <2>4. \A a \in DOMAIN albums' : albums'[a] \in covered' \union {NoMedia}
    BY <1>2 DEF ShowcaseInv, FilesKnown, RowsGrow, Grows
  <2>5. PicturesAreFiledOnce'
    BY <1>2 DEF ShowcaseInv, FilesKnown, PicturesAreFiledOnce, RowsGrow, Grows
  <2> QED
    BY <2>2, <2>3, <2>4, <2>5 DEF FilesKnown
<1>6. AlbumsAreContiguous'
  <2>1. \A a : (\A u \in Surfaces : job'[u].verb # "album" \/ job'[u].album # a)
              => \A u \in Surfaces : job[u].verb # "album" \/ job[u].album # a
    BY DEF Turns
  <2>2. \A a : PicturesOf(a, pictures)' = PicturesOf(a, pictures)
    BY <1>2 DEF PicturesOf
  <2>3. \A a \in DOMAIN albums' \ DOMAIN albums : PicturesOf(a, pictures) = {}
    BY <1>1 DEF RowsGrow, Grows, PicturesOf, ShowcaseInv, StoresTyped
  <2>4. {pictures[p].order : p \in {}} = 0..(Cardinality({}) - 1)
    BY FS_EmptySet
  <2> QED
    BY <1>2, <2>1, <2>2, <2>3, <2>4 DEF ShowcaseInv, AlbumsAreContiguous
<1> QED
  BY <1>3, <1>4, <1>5, <1>6 DEF ShowcaseInv

-----------------------------------------------------------------------------
(* Places: the elements of a finite set under a total order are numbered   *)
(* from 0 without a gap.                                                    *)

RankIn(S, R, p) == Cardinality({q \in S : <<q, p>> \in R})

LEMMA RanksFill ==
  ASSUME NEW S, IsFiniteSet(S), NEW R,
         \A p \in S : <<p, p>> \notin R,
         \A p, q, r \in S : <<p, q>> \in R /\ <<q, r>> \in R => <<p, r>> \in R,
         \A p, q \in S : p # q => <<p, q>> \in R \/ <<q, p>> \in R
  PROVE  /\ Cardinality(S) \in Nat
         /\ \A p \in S : RankIn(S, R, p) \in 0..(Cardinality(S) - 1)
         /\ \A p, q \in S : RankIn(S, R, p) = RankIn(S, R, q) => p = q
         /\ \A k \in 0..(Cardinality(S) - 1) : \E p \in S : RankIn(S, R, p) = k
<1> DEFINE below(p) == {q \in S : <<q, p>> \in R}
           rank == [p \in S |-> Cardinality(below(p))]
           T == 0..(Cardinality(S) - 1)
<1>1. Cardinality(S) \in Nat
  BY FS_CardinalityType
<1>2. \A p \in S : IsFiniteSet(below(p)) /\ Cardinality(below(p)) \in Nat
  BY FS_Subset, FS_CardinalityType
<1>3. \A p \in S : rank[p] \in T
  <2> TAKE p \in S
  <2>1. below(p) \in SUBSET S /\ below(p) # S
    OBVIOUS
  <2>2. Cardinality(below(p)) <= Cardinality(S) /\ Cardinality(below(p)) # Cardinality(S)
    BY <2>1, FS_Subset
  <2> HIDE DEF below
  <2> QED
    BY <1>1, <1>2, <2>2
<1>4. \A p, q \in S : <<p, q>> \in R => rank[p] < rank[q]
  <2> TAKE p, q \in S
  <2> HAVE <<p, q>> \in R
  <2>1. below(p) \in SUBSET below(q) /\ p \in below(q) /\ p \notin below(p)
    OBVIOUS
  <2> HIDE DEF below
  <2>2. Cardinality(below(p)) <= Cardinality(below(q)) /\ Cardinality(below(p)) # Cardinality(below(q))
    BY <1>2, <2>1, FS_Subset
  <2> QED
    BY <1>2, <2>2
<1> HIDE DEF below
<1>5. \A p, q \in S : rank[p] = rank[q] => p = q
  <2> TAKE p, q \in S
  <2> HAVE rank[p] = rank[q]
  <2>1. rank[p] \in Nat /\ rank[q] \in Nat
    BY <1>2
  <2>2. (<<p, q>> \in R => rank[p] < rank[q]) /\ (<<q, p>> \in R => rank[q] < rank[p])
    BY <1>4
  <2> HIDE DEF rank
  <2>3. <<p, q>> \notin R /\ <<q, p>> \notin R
    BY <2>1, <2>2
  <2> QED
    BY <2>3
<1>6. IsFiniteSet(T) /\ Cardinality(T) = Cardinality(S)
  <2>1. PICK n \in Nat : n = Cardinality(S)
    BY <1>1
  <2>2. IsFiniteSet(0..(n - 1)) /\ Cardinality(0..(n - 1)) = IF 0 > n - 1 THEN 0 ELSE n - 1 - 0 + 1
    BY FS_Interval
  <2> QED
    BY <2>1, <2>2
<1>7. rank \in Injection(S, T)
  <2>1. rank \in [S -> T]
    BY <1>3
  <2> QED
    BY <1>5, <2>1 DEF Injection, IsInjective
<1>8. rank \in Surjection(S, T)
  BY <1>6, <1>7, FS_Injection
<1>9. \A k \in T : \E p \in S : rank[p] = k
  BY <1>8 DEF Surjection
<1>10. \A p \in S : rank[p] = RankIn(S, R, p)
  BY DEF RankIn, below
<1> HIDE DEF rank
<1> QED
  BY <1>1, <1>3, <1>5, <1>9, <1>10

LEMMA EmptyStore == ASSUME NEW T, NEW f \in [{} -> T] PROVE f = <<>>
<1>1. <<>> \in Seq(T) /\ Len(<<>>) = 0
  BY EmptySeq
<1>2. <<>> \in [1..0 -> T]
  BY <1>1, LenProperties
<1>3. 1..0 = {}
  OBVIOUS
<1>4. \A g, h \in [{} -> T] : g = h
  OBVIOUS
<1> QED
  BY <1>2, <1>3, <1>4

\* The pictures of an album, oldest first.
LEMMA AlbumListed ==
  ASSUME StoresTyped, NEW a
  PROVE  AlbumInOrder(a) \in Seq(Tasks) /\ ItemsOf(AlbumInOrder(a)) = {Item(p) : p \in PicturesOf(a, pictures)}
<1> DEFINE S == PicturesOf(a, pictures)
           R == {pair \in S \X S : pair[1] < pair[2]}
           rank(p) == RankIn(S, R, p)
           nth(k) == CHOOSE p \in S : Cardinality({q \in S : q < p}) = k - 1
           list == [k \in 1..Cardinality(S) |-> Item(nth(k))]
<1>1. S \subseteq 1..made /\ made \in Nat /\ S \subseteq DOMAIN pictures
  BY DEF StoresTyped, PicturesOf
<1>2. IsFiniteSet(S)
  <2>1. IsFiniteSet(1..made)
    BY <1>1, FS_Interval
  <2> QED
    BY <1>1, <2>1, FS_Subset
<1>3. AlbumInOrder(a) = list
  BY DEF AlbumInOrder
<1> HIDE DEF S
<1>4. \A p, q \in S : <<q, p>> \in R <=> q < p
  OBVIOUS
<1>5. /\ Cardinality(S) \in Nat /\ \A p \in S : rank(p) \in 0..(Cardinality(S) - 1)
      /\ \A p, q \in S : rank(p) = rank(q) => p = q
      /\ \A k \in 0..(Cardinality(S) - 1) : \E p \in S : rank(p) = k
  <2>1. S \subseteq Nat
    BY <1>1
  <2>2. \A p \in S : <<p, p>> \notin R
    BY <1>4, <2>1
  <2>3. \A p, q, r \in S : <<p, q>> \in R /\ <<q, r>> \in R => <<p, r>> \in R
    BY <1>4, <2>1
  <2>4. \A p, q \in S : p # q => <<p, q>> \in R \/ <<q, p>> \in R
    BY <1>4, <2>1
  <2> HIDE DEF R
  <2> QED
    BY <1>2, <2>2, <2>3, <2>4, RanksFill
<1>6. \A p \in S : rank(p) = Cardinality({q \in S : q < p})
  <2> TAKE p \in S
  <2>1. {q \in S : <<q, p>> \in R} = {q \in S : q < p}
    BY <1>4
  <2> QED
    BY <2>1 DEF RankIn
<1> HIDE DEF R, rank
<1>7. \A k \in 1..Cardinality(S) : nth(k) \in S /\ rank(nth(k)) = k - 1
  <2> TAKE k \in 1..Cardinality(S)
  <2>1. k - 1 \in 0..(Cardinality(S) - 1)
    BY <1>5
  <2>2. \E p \in S : Cardinality({q \in S : q < p}) = k - 1
    BY <1>5, <1>6, <2>1
  <2> QED
    BY <1>6, <2>2
<1>8. \A p \in S : \E k \in 1..Cardinality(S) : nth(k) = p
  <2> TAKE p \in S
  <2>1. rank(p) \in 0..(Cardinality(S) - 1) /\ Cardinality(S) \in Nat
    BY <1>5
  <2>2. PICK k \in 1..Cardinality(S) : k - 1 = rank(p)
    BY <2>1
  <2>3. nth(k) \in S /\ rank(nth(k)) = rank(p)
    BY <1>7, <2>2
  <2>4. nth(k) = p
    BY <1>5, <2>3
  <2> QED
    BY <2>2, <2>4
<1> HIDE DEF nth
<1>9. \A p \in S : Item(p) \in Tasks
  BY <1>1 DEF Item, Tasks, StoresTyped
<1>10. list \in Seq(Tasks)
  <2>1. list \in [1..Cardinality(S) -> Tasks]
    BY <1>7, <1>9
  <2> QED
    BY <1>5, <2>1
<1>11. ItemsOf(list) = {Item(p) : p \in S}
  BY <1>7, <1>8 DEF ItemsOf
<1> QED
  BY <1>3, <1>10, <1>11 DEF S

-----------------------------------------------------------------------------
(* The steps that begin or end a job.                                      *)

LEMMA DialogKnown == ASSUME ShowcaseInv, openUploader \/ closeUploader \/ (\E a \in DOMAIN albums : chooseAlbum(a)) PROVE ShowcaseInv'
<1>1. uploadDialog' \in [open : BOOLEAN, album : 0..made]
  <2>1. uploadDialog \in [open : BOOLEAN, album : 0..made] /\ DOMAIN albums \subseteq 1..made /\ made \in Nat
    BY DEF ShowcaseInv, StoresTyped
  <2>2. CASE openUploader
    <3>1. albums # <<>> => (CHOOSE a \in DOMAIN albums : \A b \in DOMAIN albums : a <= b) \in DOMAIN albums
      <4>1. albums # <<>> => DOMAIN albums # {}
        BY EmptyStore DEF ShowcaseInv, StoresTyped
      <4>2. DOMAIN albums \subseteq Nat
        BY <2>1
      <4> QED
        BY <4>1, <4>2, LeastRow
    <3> QED
      BY <2>1, <2>2, <3>1 DEF openUploader, NoAlbum
  <2>3. CASE closeUploader
    BY <2>1, <2>3 DEF closeUploader, NoUpload, NoAlbum
  <2>4. CASE \E a \in DOMAIN albums : chooseAlbum(a)
    BY <2>1, <2>4 DEF chooseAlbum
  <2> QED
    BY <2>2, <2>3, <2>4
<1>2. UNCHANGED <<galleryRows, assets, catalogue, job, made, left, covered, crossed>> /\ started' = started
  BY DEF openUploader, closeUploader, chooseAlbum
<1>3. RowsGrow
  <2>1. started' \in 0..MaxJobs /\ StoresTyped
    BY <1>2 DEF ShowcaseInv, StoresTyped
  <2> QED
    BY <1>1, <1>2, <2>1, RowsStay
<1>4. job' \in [Surfaces -> Jobs] /\ \A u \in Surfaces : job'[u] = job[u]
  BY <1>2 DEF ShowcaseInv, StoresTyped
<1> QED
  BY <1>3, <1>4, JobsTurn

LEMMA RestingFits ==
  /\ Resting \in Jobs /\ Resting.verb = "none" /\ Resting.phase = "rest" /\ Resting.todo = <<>>
  /\ Resting.album = 0 /\ Resting.media = 0 /\ Resting.mine = 0 /\ ItemsOf(Resting.todo) = {}
<1>1. <<>> \in Seq(Tasks)
  BY EmptySeq
<1>2. /\ Resting.verb = "none" /\ Resting.phase = "rest" /\ Resting.todo = <<>>
      /\ Resting.album = 0 /\ Resting.media = 0 /\ Resting.mine = 0
  BY DEF Resting, NoAlbum, NoMedia
<1>3. Resting \in Jobs
  BY <1>1 DEF Resting, NoAlbum, NoMedia, Jobs, Verbs, Phases
<1> QED
  BY <1>1, <1>2, <1>3, ListOf

LEMMA BegunFits ==
  ASSUME NEW verb \in Verbs, NEW todo \in Seq(Tasks), NEW a \in Nat
  PROVE  /\ Begun(verb, todo, a) \in Jobs /\ Begun(verb, todo, a).verb = verb /\ Begun(verb, todo, a).phase = "next"
         /\ Begun(verb, todo, a).todo = todo /\ Begun(verb, todo, a).album = a /\ Begun(verb, todo, a).media = 0
         /\ Begun(verb, todo, a).mine = 0
  BY DEF Begun, Resting, NoAlbum, NoMedia, Jobs, Phases

\* A surface that rests knows nothing.
LEMMA RestKnown ==
  ASSUME NEW s \in Surfaces, job'[s] = Resting, made' \in Nat
  PROVE  JobKnown(s)'
  BY RestingFits DEF JobKnown

\* A list of pictures, or of files that have no row yet.
Listed(verb, todo, a) ==
  \/ /\ verb \in {"upload", "save"}
     /\ \A i \in ItemsOf(todo) : i.id \in DOMAIN catalogue \union {0} /\ i.album = 0 /\ i.media = 0
  \/ /\ verb \in {"delete", "move", "album"}
     /\ \A i \in ItemsOf(todo) : \E p \in DOMAIN pictures : i = Item(p)
     /\ verb = "move" => \A k, l \in DOMAIN todo : k # l => todo[k] # todo[l]
     /\ verb = "album" => ItemsOf(todo) = {Item(p) : p \in PicturesOf(a, pictures)}

LEMMA JobBegins ==
  ASSUME ShowcaseInv, RowsGrow, NEW s \in Surfaces, job[s].verb # "album", job[s].phase \notin {"storing", "freeing"},
         NEW x \in Jobs, x.phase = "next", x.media = 0, x.album <= made', x.mine <= made', Listed(x.verb, x.todo, x.album),
         x.verb = "save" => s = "library", x.verb = "move" => s = "batch", job' = [job EXCEPT ![s] = x]
  PROVE  ShowcaseInv'
<1> DEFINE verb == x.verb
           todo == x.todo
           a == x.album
           mine == x.mine
<1>2. /\ verb \in Verbs /\ todo \in Seq(Tasks) /\ a \in Nat /\ mine \in Nat /\ a <= made' /\ mine <= made' /\ Listed(verb, todo, a)
      /\ x.verb = verb /\ x.todo = todo /\ x.album = a /\ x.mine = mine /\ (verb = "save" => s = "library") /\ (verb = "move" => s = "batch")
  BY DEF Jobs
<1> HIDE DEF verb, todo, a, mine
<1>1. made \in Nat /\ made' \in Nat /\ made <= made' /\ UNCHANGED <<pictures, assets, crossed>>
      /\ DOMAIN catalogue \subseteq DOMAIN catalogue'
  BY RowsGrown DEF RowsGrow, ShowcaseInv, Grows
<1>3. job'[s] = x /\ job' \in [Surfaces -> Jobs] /\ \A u \in Surfaces \ {s} : job'[u] = job[u]
  BY DEF ShowcaseInv, StoresTyped
<1>4. \A p \in DOMAIN pictures : /\ pictures[p] \in [album : 1..made, media : 1..made, order : Nat] /\ p \in 1..made
                                 /\ Item(p).id = p /\ Item(p).album = pictures[p].album /\ Item(p).media = pictures[p].media
  BY DEF ShowcaseInv, StoresTyped, Item
<1>5. \A i \in ItemsOf(todo) :
        /\ i.id <= made' /\ i.album <= made' /\ i.media <= made'
        /\ i.media = 0 \/ \E p \in DOMAIN pictures : pictures[p].media = i.media
  <2> TAKE i \in ItemsOf(todo)
  <2>1. CASE i.id \in DOMAIN catalogue \union {0} /\ i.album = 0 /\ i.media = 0
    <3>1. DOMAIN catalogue \subseteq 1..made
      BY DEF ShowcaseInv, StoresTyped
    <3> QED
      BY <1>1, <2>1, <3>1
  <2>2. CASE \E p \in DOMAIN pictures : i = Item(p)
    BY <1>1, <1>4, <2>2
  <2> QED
    BY <1>2, <2>1, <2>2 DEF Listed
<1>6. Turns(s)
  <2>1. \A v \in Surfaces : job[v].phase = "storing" => job[v].media \in assets /\ ~Named(job[v].media)
    BY DEF ShowcaseInv, JobsKnown, JobKnown
  <2>2. \A v \in Surfaces : job[v].phase = "storing" => \A i \in ItemsOf(todo) : i.media # job[v].media
    BY <1>5, <2>1 DEF Named, mediaStillReferenced, ShowcaseInv, StoresTyped
  <2> QED
    BY <1>2, <1>3, <2>2 DEF Turns
<1>7. JobKnown(s)'
  <2>1. verb = "save" => \A i \in ItemsOf(todo) : i.id \in DOMAIN catalogue' \union {0}
    BY <1>1, <1>2 DEF Listed
  <2>2. verb \in {"delete", "move", "album"} =>
          \A i \in ItemsOf(todo) : i.id \in DOMAIN pictures => pictures[i.id].media = i.media /\ pictures[i.id].album = i.album
    BY <1>2, <1>4 DEF Listed
  <2>3. verb = "move" =>
          /\ \A i \in ItemsOf(todo), p \in DOMAIN pictures : pictures[p].media = i.media => p = i.id
          /\ \A k, l \in DOMAIN todo : k # l => todo[k].media # todo[l].media
    <3> HAVE verb = "move"
    <3>1. \A i \in ItemsOf(todo) : \E p \in DOMAIN pictures : i = Item(p)
      BY <1>2 DEF Listed
    <3>2. \A p, q \in DOMAIN pictures : pictures[p].media = pictures[q].media => p = q
      BY DEF ShowcaseInv, FilesKnown, PicturesAreFiledOnce
    <3>3. \A i \in ItemsOf(todo), p \in DOMAIN pictures : pictures[p].media = i.media => p = i.id
      BY <1>4, <3>1, <3>2
    <3>4. \A k, l \in DOMAIN todo : k # l => todo[k].media # todo[l].media
      <4> TAKE k, l \in DOMAIN todo
      <4> HAVE k # l
      <4>1. todo[k] # todo[l] /\ todo[k] \in ItemsOf(todo) /\ todo[l] \in ItemsOf(todo)
        BY <1>2 DEF Listed, ItemsOf
      <4>2. PICK p, q \in DOMAIN pictures : todo[k] = Item(p) /\ todo[l] = Item(q)
        BY <3>1, <4>1
      <4> QED
        BY <1>4, <3>2, <4>1, <4>2
    <3> QED
      BY <3>3, <3>4
  <2>4. verb = "album" =>
          /\ \A i \in ItemsOf(todo) : i.album = a
          /\ \A p \in DOMAIN pictures \ DOMAIN crossed : pictures[p].album = a => \E i \in ItemsOf(todo) : i.id = p
    BY <1>2, <1>4 DEF Listed, PicturesOf
  <2>5. a <= made' /\ mine <= made' /\ 0 <= made'
    BY <1>1, <1>2
  <2>6. \A i \in ItemsOf(x.todo) : i.id <= made' /\ i.album <= made' /\ i.media <= made'
    BY <1>2, <1>5
  <2> HIDE DEF Listed
  <2> QED
    BY <1>1, <1>2, <1>3, <2>1, <2>2, <2>3, <2>4, <2>5, <2>6, Knows
<1> QED
  BY <1>3, <1>6, <1>7, JobsTurn

LEMMA PlainJobBegins ==
  ASSUME ShowcaseInv, NEW s \in Surfaces, job[s].verb # "album", job[s].phase \notin {"storing", "freeing"},
         NEW verb \in Verbs, NEW todo \in Seq(Tasks), NEW a \in 0..made, Listed(verb, todo, a),
         verb = "save" => s = "library", verb = "move" => s = "batch",
         started' \in 0..MaxJobs, uploadDialog' \in [open : BOOLEAN, album : 0..made],
         UNCHANGED <<galleryRows, assets, catalogue, made, left, covered, crossed>>,
         job' = [job EXCEPT ![s] = Begun(verb, todo, a)]
  PROVE  ShowcaseInv'
<1>1. RowsGrow /\ made' = made
  BY RowsStay DEF ShowcaseInv
<1>2. a \in Nat
  BY DEF ShowcaseInv, StoresTyped
<1> DEFINE x == Begun(verb, todo, a)
<1>3. x \in Jobs /\ x.verb = verb /\ x.phase = "next" /\ x.todo = todo /\ x.album = a /\ x.media = 0 /\ x.mine = 0
  BY <1>2, BegunFits
<1>4. x.album <= made' /\ x.mine <= made' /\ Listed(x.verb, x.todo, x.album) /\ job' = [job EXCEPT ![s] = x]
  BY <1>1, <1>3 DEF ShowcaseInv, StoresTyped
<1> HIDE DEF x
<1> QED
  BY <1>1, <1>3, <1>4, JobBegins

LEMMA StartsRest ==
  ASSUME ShowcaseInv, NEW s \in Surfaces, Starts(s)
  PROVE  job[s].verb # "album" /\ job[s].phase \notin {"storing", "freeing"} /\ started' \in 0..MaxJobs
  BY RestingFits, ShowcaseAssumption DEF Starts, Counts, ShowcaseInv, StoresTyped, ShowcaseAssumption

LEMMA OneItem ==
  ASSUME NEW i \in Tasks
  PROVE  <<i>> \in Seq(Tasks) /\ ItemsOf(<<i>>) = {i}
  BY DEF ItemsOf

LEMMA UploadFits == Upload \in Tasks /\ Upload.id = 0 /\ Upload.album = 0 /\ Upload.media = 0
  BY DEF Upload, Tasks, NoAlbum, NoMedia

LEMMA ItemFits ==
  ASSUME StoresTyped, NEW p \in DOMAIN pictures
  PROVE  Item(p) \in Tasks /\ Item(p).id = p /\ Item(p).album = pictures[p].album /\ Item(p).media = pictures[p].media
  BY DEF StoresTyped, Item, Tasks

LEMMA PanelBegins == ASSUME ShowcaseInv, (\E a \in DOMAIN albums : uploadOne(a)) \/ (\E p \in DOMAIN pictures : removePicture(p))
                     PROVE ShowcaseInv'
<1>1. uploadDialog \in [open : BOOLEAN, album : 0..made] /\ DOMAIN albums \subseteq 0..made /\ 0 \in 0..made /\ StoresTyped
  BY DEF ShowcaseInv, StoresTyped
<1>2. ASSUME NEW a \in DOMAIN albums, uploadOne(a) PROVE ShowcaseInv'
  <2>1. <<Upload>> \in Seq(Tasks) /\ ItemsOf(<<Upload>>) = {Upload}
    BY UploadFits, OneItem
  <2>2. Listed("upload", <<Upload>>, a)
    BY <2>1, UploadFits DEF Listed
  <2>3. Starts("panel")
    BY <1>2 DEF uploadOne
  <2>4. job["panel"].verb # "album" /\ job["panel"].phase \notin {"storing", "freeing"} /\ started' \in 0..MaxJobs
    BY <2>3, StartsRest DEF Surfaces
  <2> QED
    BY <1>1, <1>2, <2>1, <2>2, <2>4, PlainJobBegins DEF uploadOne, Surfaces, Verbs
<1>3. ASSUME NEW p \in DOMAIN pictures, removePicture(p) PROVE ShowcaseInv'
  <2>1. <<Item(p)>> \in Seq(Tasks) /\ ItemsOf(<<Item(p)>>) = {Item(p)}
    BY <1>1, ItemFits, OneItem
  <2>2. Listed("delete", <<Item(p)>>, NoAlbum)
    BY <2>1 DEF Listed
  <2>3. Starts("panel")
    BY <1>3 DEF removePicture
  <2>4. job["panel"].verb # "album" /\ job["panel"].phase \notin {"storing", "freeing"} /\ started' \in 0..MaxJobs
    BY <2>3, StartsRest DEF Surfaces
  <2>5. NoAlbum \in 0..made
    BY <1>1 DEF NoAlbum
  <2> QED
    BY <1>1, <1>3, <2>1, <2>2, <2>4, <2>5, PlainJobBegins DEF removePicture, Surfaces, Verbs
<1> QED
  BY <1>2, <1>3

LEMMA BatchBegins ==
  ASSUME ShowcaseInv, NEW ps \in SUBSET DOMAIN pictures, NEW verb, NEW a \in 0..made,
         verb \in {"delete", "move"}, runBatch(verb, ps, a)
  PROVE  ShowcaseInv'
<1>1. uploadDialog \in [open : BOOLEAN, album : 0..made] /\ StoresTyped /\ made \in Nat /\ DOMAIN pictures \subseteq 1..made
  BY DEF ShowcaseInv, StoresTyped
<1>2. PICK todo \in [1..Cardinality(ps) -> {Item(p) : p \in ps}] :
        /\ \A i, k \in DOMAIN todo : todo[i] = todo[k] => i = k
        /\ job' = [job EXCEPT !["batch"] = Begun(verb, todo, a)]
  BY DEF runBatch
<1>3. Cardinality(ps) \in Nat
  <2>1. IsFiniteSet(1..made)
    BY <1>1, FS_Interval
  <2> QED
    BY <1>1, <2>1, FS_Subset, FS_CardinalityType
<1>4. todo \in Seq(Tasks)
  <2>1. {Item(p) : p \in ps} \subseteq Tasks
    BY <1>1, ItemFits
  <2>2. todo \in [1..Cardinality(ps) -> Tasks]
    BY <1>2, <2>1
  <2> QED
    BY <1>3, <2>2
<1>5. Listed(verb, todo, a)
  <2>1. \A i \in ItemsOf(todo) : \E p \in DOMAIN pictures : i = Item(p)
    BY <1>2 DEF ItemsOf
  <2> QED
    BY <1>2, <2>1 DEF Listed
<1>6. Starts("batch")
  BY DEF runBatch
<1>7. job["batch"].verb # "album" /\ job["batch"].phase \notin {"storing", "freeing"} /\ started' \in 0..MaxJobs
  BY <1>6, StartsRest DEF Surfaces
<1>8. UNCHANGED <<galleryRows, assets, catalogue, uploadDialog, made, left, covered, crossed>>
  BY DEF runBatch
<1>9. uploadDialog' \in [open : BOOLEAN, album : 0..made] /\ "batch" \in Surfaces /\ verb \in Verbs /\ verb # "save"
  BY <1>1, <1>8 DEF Surfaces, Verbs
<1> QED
  BY <1>2, <1>4, <1>5, <1>7, <1>8, <1>9, PlainJobBegins

LEMMA DeletionBegins == ASSUME ShowcaseInv, NEW a \in DOMAIN albums, deleteAlbum(a) PROVE ShowcaseInv'
<1>1. uploadDialog \in [open : BOOLEAN, album : 0..made] /\ StoresTyped /\ a \in 0..made
  BY DEF ShowcaseInv, StoresTyped
<1>2. AlbumInOrder(a) \in Seq(Tasks) /\ ItemsOf(AlbumInOrder(a)) = {Item(p) : p \in PicturesOf(a, pictures)}
  BY <1>1, AlbumListed
<1>3. Listed("album", AlbumInOrder(a), a)
  BY <1>2 DEF Listed, PicturesOf
<1>4. Starts("manager")
  BY DEF deleteAlbum
<1>5. job["manager"].verb # "album" /\ job["manager"].phase \notin {"storing", "freeing"} /\ started' \in 0..MaxJobs
  BY <1>4, StartsRest DEF Surfaces
<1> QED
  BY <1>1, <1>2, <1>3, <1>5, PlainJobBegins DEF deleteAlbum, Surfaces, Verbs

LEMMA ItemBegins == ASSUME ShowcaseInv, NEW r \in DOMAIN catalogue \union {0}, submitItem(r) PROVE ShowcaseInv'
<1>1. uploadDialog \in [open : BOOLEAN, album : 0..made] /\ DOMAIN catalogue \subseteq 1..made /\ NoAlbum \in 0..made
  BY DEF ShowcaseInv, StoresTyped, NoAlbum
<1> DEFINE i == [Upload EXCEPT !.id = r]
<1>2. r \in Nat
  BY <1>1
<1>3. i \in Tasks /\ i.id = r /\ i.album = 0 /\ i.media = 0
  BY <1>2 DEF Upload, Tasks, NoAlbum, NoMedia
<1> HIDE DEF i
<1>4. <<i>> \in Seq(Tasks) /\ ItemsOf(<<i>>) = {i}
  BY <1>3, OneItem
<1>5. Listed("save", <<i>>, NoAlbum)
  BY <1>3, <1>4 DEF Listed
<1>6. Starts("library")
  BY DEF submitItem
<1>7. job["library"].verb # "album" /\ job["library"].phase \notin {"storing", "freeing"} /\ started' \in 0..MaxJobs
  BY <1>6, StartsRest DEF Surfaces
<1>8. job' = [job EXCEPT !["library"] = Begun("save", <<i>>, NoAlbum)]
  BY DEF submitItem, i
<1> QED
  BY <1>1, <1>4, <1>5, <1>7, <1>8, PlainJobBegins DEF submitItem, Surfaces, Verbs

LEMMA RowAdded ==
  ASSUME made \in Nat, made' = made + 1,
         NEW rows, rows \in [DOMAIN rows -> 0..made], DOMAIN rows \subseteq 1..made
  PROVE  Grows(rows, WithRow(made', NoMedia, rows))
<1> DEFINE new == WithRow(made', NoMedia, rows)
<1>1. DOMAIN new = DOMAIN rows \union {made'} /\ \A x \in DOMAIN new : new[x] = IF x = made' THEN 0 ELSE rows[x]
  BY DEF WithRow, NoMedia
<1>2. new = [x \in DOMAIN new |-> new[x]]
  BY DEF WithRow
<1> HIDE DEF new
<1>3. \A x \in DOMAIN new : new[x] \in 0..made' /\ IF x \in DOMAIN rows THEN new[x] = rows[x] ELSE x > made /\ new[x] = NoMedia
  BY <1>1 DEF NoMedia
<1>4. DOMAIN new \subseteq 1..made' /\ DOMAIN rows \subseteq DOMAIN new
  BY <1>1
<1>5. new \in [DOMAIN new -> 0..made']
  BY <1>2, <1>3
<1>6. Grows(rows, new)
  BY <1>3, <1>4, <1>5 DEF Grows
<1> QED
  BY <1>6 DEF new

LEMMA RowMade ==
  ASSUME StoresTyped, Fresh(1), started' \in 0..MaxJobs, UNCHANGED <<pictures, assets, uploadDialog, left, covered, crossed>>,
         \/ albums' = WithRow(made', NoMedia, albums) /\ catalogue' = catalogue
         \/ catalogue' = WithRow(made', NoMedia, catalogue) /\ albums' = albums
  PROVE  RowsGrow /\ made' = made + 1
<1>1. made \in Nat /\ made' = made + 1 /\ made' \in made..MaxIds /\ made' \in Nat
  BY ShowcaseAssumption DEF Fresh, StoresTyped, ShowcaseAssumption
<1>2. /\ albums \in [DOMAIN albums -> 0..made] /\ DOMAIN albums \subseteq 1..made
      /\ catalogue \in [DOMAIN catalogue -> 0..made] /\ DOMAIN catalogue \subseteq 1..made
      /\ uploadDialog' \in [open : BOOLEAN, album : 0..made']
  BY <1>1 DEF StoresTyped
<1>3. Grows(albums, WithRow(made', NoMedia, albums)) /\ Grows(catalogue, WithRow(made', NoMedia, catalogue))
  BY <1>1, <1>2, RowAdded
<1>4. Grows(albums, albums) /\ Grows(catalogue, catalogue)
  BY <1>1, <1>2 DEF Grows
<1>5. Grows(albums, albums') /\ Grows(catalogue, catalogue')
  BY <1>3, <1>4
<1> QED
  BY <1>1, <1>2, <1>5 DEF RowsGrow

LEMMA RowMadeKnown == ASSUME ShowcaseInv, createAlbum \/ registerItem PROVE ShowcaseInv'
<1>1. started' \in 0..MaxJobs
  BY ShowcaseAssumption DEF createAlbum, registerItem, Counts, ShowcaseInv, StoresTyped, ShowcaseAssumption
<1>2. RowsGrow
  <2>1. /\ StoresTyped /\ Fresh(1) /\ UNCHANGED <<pictures, assets, uploadDialog, left, covered, crossed>>
        /\ \/ albums' = WithRow(made', NoMedia, albums) /\ catalogue' = catalogue
           \/ catalogue' = WithRow(made', NoMedia, catalogue) /\ albums' = albums
    BY DEF ShowcaseInv, createAlbum, registerItem, galleryRows
  <2> QED
    BY <1>1, <2>1, RowMade
<1>3. job' \in [Surfaces -> Jobs] /\ \A u \in Surfaces : job'[u] = job[u]
  BY DEF createAlbum, registerItem, ShowcaseInv, StoresTyped
<1> QED
  BY <1>2, <1>3, JobsTurn

LEMMA UploadList ==
  ASSUME NEW n \in Nat
  PROVE  LET todo == [k \in 1..n |-> Upload] IN todo \in Seq(Tasks) /\ \A v, a : v \in {"upload", "save"} => Listed(v, todo, a)
<1> DEFINE todo == [k \in 1..n |-> Upload]
<1>1. todo \in [1..n -> Tasks]
  BY UploadFits
<1>2. todo \in Seq(Tasks)
  BY <1>1
<1>3. \A k \in DOMAIN todo : todo[k] = Upload
  OBVIOUS
<1> HIDE DEF todo
<1>4. \A k \in ItemsOf(todo) : k = Upload
  BY <1>3 DEF ItemsOf
<1>5. \A v, a : v \in {"upload", "save"} => Listed(v, todo, a)
  BY <1>4, UploadFits DEF Listed
<1>6. todo \in Seq(Tasks) /\ \A v, a : v \in {"upload", "save"} => Listed(v, todo, a)
  BY <1>2, <1>5
<1> QED
  BY <1>6 DEF todo

LEMMA UploadBegins == ASSUME ShowcaseInv, NEW n \in 1..MaxUpload, submitUpload(n) PROVE ShowcaseInv'
<1> DEFINE todo == [k \in 1..n |-> Upload]
<1>1. todo \in Seq(Tasks) /\ \A v, a : v \in {"upload", "save"} => Listed(v, todo, a)
  <2>1. n \in Nat
    BY ShowcaseAssumption DEF ShowcaseAssumption
  <2> QED
    BY <2>1, UploadList
<1>2. Starts("uploader")
  BY DEF submitUpload
<1>3. job["uploader"].verb # "album" /\ job["uploader"].phase \notin {"storing", "freeing"} /\ started' \in 0..MaxJobs
  BY <1>2, StartsRest DEF Surfaces
<1>4. uploadDialog \in [open : BOOLEAN, album : 0..made] /\ made \in Nat /\ StoresTyped
  BY DEF ShowcaseInv, StoresTyped
<1>5. \/ /\ Fresh(1) /\ albums' = WithRow(made', NoMedia, albums)
         /\ job' = [job EXCEPT !["uploader"] = [Begun("upload", todo, made') EXCEPT !.mine = made']]
      \/ UNCHANGED <<albums, made>> /\ job' = [job EXCEPT !["uploader"] = Begun("upload", todo, uploadDialog.album)]
  BY DEF submitUpload
<1>6. UNCHANGED <<pictures, assets, catalogue, uploadDialog, left, covered, crossed>>
  BY DEF submitUpload
<1>7. "uploader" \in Surfaces /\ "upload" \in Verbs
  BY DEF Surfaces, Verbs
<1> HIDE DEF todo
<1>8. ASSUME Fresh(1), albums' = WithRow(made', NoMedia, albums),
             job' = [job EXCEPT !["uploader"] = [Begun("upload", todo, made') EXCEPT !.mine = made']]
      PROVE  ShowcaseInv'
  <2>1. RowsGrow /\ made' = made + 1
    BY <1>3, <1>4, <1>6, <1>8, RowMade
  <2>2. made' \in Nat
    BY <1>4, <2>1
  <2> DEFINE b == Begun("upload", todo, made')
             x == [b EXCEPT !.mine = made']
  <2>3. b \in Jobs /\ b.verb = "upload" /\ b.phase = "next" /\ b.todo = todo /\ b.album = made' /\ b.media = 0
    BY <1>1, <1>7, <2>2, BegunFits
  <2> HIDE DEF b
  <2>4. x \in Jobs /\ x.verb = "upload" /\ x.phase = "next" /\ x.todo = todo /\ x.album = made' /\ x.media = 0 /\ x.mine = made'
    BY <2>2, <2>3 DEF Jobs
  <2>5. job' = [job EXCEPT !["uploader"] = x]
    BY <1>8 DEF b
  <2> HIDE DEF x
  <2>6. Listed(x.verb, x.todo, x.album) /\ x.album <= made' /\ x.mine <= made'
    BY <1>1, <2>2, <2>4
  <2> QED
    BY <1>3, <1>7, <2>1, <2>4, <2>5, <2>6, JobBegins
<1>9. ASSUME UNCHANGED <<albums, made>>, job' = [job EXCEPT !["uploader"] = Begun("upload", todo, uploadDialog.album)]
      PROVE  ShowcaseInv'
  <2>1. uploadDialog' \in [open : BOOLEAN, album : 0..made] /\ UNCHANGED <<galleryRows, assets, catalogue, made, left, covered, crossed>>
    BY <1>4, <1>6, <1>9 DEF galleryRows
  <2>2. Listed("upload", todo, uploadDialog.album) /\ uploadDialog.album \in 0..made
    BY <1>1, <1>4
  <2> QED
    BY <1>1, <1>3, <1>7, <1>9, <2>1, <2>2, PlainJobBegins
<1> QED
  BY <1>5, <1>8, <1>9

LEMMA JobRests ==
  ASSUME ShowcaseInv, NEW s \in Surfaces, job[s].verb # "album", job[s].phase \notin {"storing", "freeing"},
         started' \in 0..MaxJobs, uploadDialog' \in [open : BOOLEAN, album : 0..made],
         UNCHANGED <<galleryRows, assets, catalogue, made, left, covered, crossed>>, job' = [job EXCEPT ![s] = Resting]
  PROVE  ShowcaseInv'
<1>1. RowsGrow
  BY RowsStay DEF ShowcaseInv
<1>2. job'[s] = Resting /\ job' \in [Surfaces -> Jobs] /\ \A u \in Surfaces \ {s} : job'[u] = job[u]
  BY RestingFits DEF ShowcaseInv, StoresTyped
<1>3. made' \in Nat
  BY DEF ShowcaseInv, StoresTyped
<1>4. Turns(s) /\ JobKnown(s)'
  BY <1>2, <1>3, RestingFits, RestKnown DEF Turns
<1> QED
  BY <1>1, <1>2, <1>4, JobsTurn

LEMMA JobEnds == ASSUME ShowcaseInv, NEW s \in Surfaces, uploadEnds(s) \/ listEnds(s) \/ itemEnds PROVE ShowcaseInv'
<1>1. uploadDialog \in [open : BOOLEAN, album : 0..made] /\ started \in 0..MaxJobs /\ StoresTyped /\ "library" \in Surfaces
  BY DEF ShowcaseInv, StoresTyped, Surfaces
<1>2. ASSUME uploadEnds(s) PROVE ShowcaseInv'
  <2>1. uploadDialog' \in [open : BOOLEAN, album : 0..made]
    BY <1>1, <1>2 DEF uploadEnds, NoUpload, NoAlbum, ShowcaseInv, StoresTyped
  <2>2. /\ UNCHANGED <<galleryRows, assets, catalogue, made, left, covered, crossed>> /\ started' \in 0..MaxJobs
        /\ job[s].verb # "album" /\ job[s].phase \notin {"storing", "freeing"}
    BY <1>1, <1>2 DEF uploadEnds
  <2>3. \/ job[s].mine \in DOMAIN albums /\ job' = [job EXCEPT ![s] = Begun("album", AlbumInOrder(job[s].mine), job[s].mine)]
        \/ job' = [job EXCEPT ![s] = Resting]
    BY <1>2 DEF uploadEnds
  <2>4. ASSUME job[s].mine \in DOMAIN albums, job' = [job EXCEPT ![s] = Begun("album", AlbumInOrder(job[s].mine), job[s].mine)]
        PROVE  ShowcaseInv'
    <3> DEFINE a == job[s].mine
    <3>1. AlbumInOrder(a) \in Seq(Tasks) /\ ItemsOf(AlbumInOrder(a)) = {Item(p) : p \in PicturesOf(a, pictures)}
      BY <1>1, AlbumListed
    <3>2. Listed("album", AlbumInOrder(a), a)
      BY <3>1 DEF Listed, PicturesOf
    <3>3. a \in 0..made /\ "album" \in Verbs
      BY <1>1, <2>4 DEF StoresTyped, Verbs
    <3>4. job' = [job EXCEPT ![s] = Begun("album", AlbumInOrder(a), a)]
      BY <2>4
    <3> HIDE DEF a
    <3> QED
      BY <2>1, <2>2, <3>1, <3>2, <3>3, <3>4, PlainJobBegins
  <2> QED
    BY <2>1, <2>2, <2>3, <2>4, JobRests
<1>3. ASSUME listEnds(s) PROVE ShowcaseInv'
  BY <1>1, <1>3, JobRests DEF listEnds
<1>4. ASSUME itemEnds PROVE ShowcaseInv'
  BY <1>1, <1>4, JobRests DEF itemEnds
<1> QED
  BY <1>2, <1>3, <1>4

-----------------------------------------------------------------------------
(* The steps of a job.                                                     *)

\* A job goes on with the same list, or with its first item done.
LEMMA TaskKnown ==
  ASSUME StoresTyped, NEW s \in Surfaces, JobKnown(s), NEW x \in Jobs, job'[s] = x,
         x.verb = job[s].verb, x.album = job[s].album, x.mine = job[s].mine, x.media <= made', made' \in Nat, made <= made',
         x.todo = job[s].todo \/ (job[s].todo # <<>> /\ x.todo = Tail(job[s].todo)),
         x.phase = "storing" => x.verb \in {"upload", "save"} /\ x.todo # <<>> /\ x.media \in assets' /\ ~Named(x.media)',
         x.phase = "freeing" => x.media # NoMedia /\ (Named(x.media)' => x.media \in Risked'),
         DOMAIN catalogue \subseteq DOMAIN catalogue', DOMAIN crossed \subseteq DOMAIN crossed',
         \A p \in DOMAIN pictures' :
           \/ p \in DOMAIN pictures /\ pictures'[p].media = pictures[p].media /\ pictures'[p].album = pictures[p].album
           \/ /\ p > made
              /\ x.verb = "album" /\ x.album = pictures'[p].album => p \in DOMAIN crossed'
              /\ x.verb = "move" => \A i \in ItemsOf(x.todo) : i.media # pictures'[p].media,
         x.verb = "album" /\ x.todo # job[s].todo => \A p \in DOMAIN pictures' : p # Head(job[s].todo).id
  PROVE  JobKnown(s)'
<1> DEFINE j == job[s]
           items == ItemsOf(j.todo)
           rest == ItemsOf(x.todo)
<1>1. made \in Nat /\ j \in Jobs
  BY DEF StoresTyped
<1>2. j.album \in Nat /\ j.media \in Nat /\ j.mine \in Nat /\ j.todo \in Seq(Tasks)
  BY <1>1 DEF Jobs
<1>3. \A i \in items : i.id \in Nat /\ i.album \in Nat /\ i.media \in Nat
  BY <1>2, ListOf DEF Tasks
<1>4. /\ j.album <= made /\ j.mine <= made
      /\ (j.verb = "save" => s = "library") /\ (j.verb = "move" => s = "batch")
      /\ \A i \in items : i.id <= made /\ i.album <= made /\ i.media <= made
      /\ j.verb = "save" => \A i \in items : i.id \in DOMAIN catalogue \union {0}
      /\ j.verb \in {"delete", "move", "album"} =>
            \A i \in items : i.id \in DOMAIN pictures => pictures[i.id].media = i.media /\ pictures[i.id].album = i.album
      /\ j.verb = "move" =>
            /\ \A i \in items, p \in DOMAIN pictures : pictures[p].media = i.media => p = i.id
            /\ \A k, l \in DOMAIN j.todo : k # l => j.todo[k].media # j.todo[l].media
      /\ j.verb = "album" =>
            /\ \A i \in items : i.album = j.album
            /\ \A p \in DOMAIN pictures \ DOMAIN crossed : pictures[p].album = j.album => \E i \in items : i.id = p
  BY Zenon DEF JobKnown
<1>5. rest \subseteq items /\ (j.verb = "move" => \A k, l \in DOMAIN x.todo : k # l => x.todo[k].media # x.todo[l].media)
  <2>1. CASE x.todo = j.todo
    BY <1>4, <2>1
  <2>2. CASE j.todo # <<>> /\ x.todo = Tail(j.todo)
    <3> HIDE DEF j
    <3>1. /\ ItemsOf(Tail(j.todo)) \subseteq ItemsOf(j.todo)
          /\ (\A k, l \in DOMAIN j.todo : k # l => j.todo[k].media # j.todo[l].media) =>
               /\ \A k, l \in DOMAIN Tail(j.todo) : k # l => Tail(j.todo)[k].media # Tail(j.todo)[l].media
               /\ \A i \in ItemsOf(Tail(j.todo)) : i.media # Head(j.todo).media
      BY <1>1, <2>2, RestOfJob
    <3> QED
      BY <1>4, <2>2, <3>1
  <2> QED
    BY <2>1, <2>2
<1>6. \A i \in items \ rest : x.todo # j.todo /\ i = Head(j.todo)
  <2>1. CASE x.todo = j.todo
    BY <2>1
  <2>2. CASE j.todo # <<>> /\ x.todo = Tail(j.todo) /\ x.todo # j.todo
    <3>1. items = {Head(j.todo)} \union rest
      BY <1>2, <2>2, TailOf
    <3> QED
      BY <2>2, <3>1
  <2> QED
    BY <2>1, <2>2
<1>7. x.verb = j.verb /\ x.album = j.album /\ x.mine = j.mine
      /\ (x.verb = "album" /\ x.todo # j.todo => \A p \in DOMAIN pictures' : p # Head(j.todo).id)
  OBVIOUS
<1> HIDE DEF j, items, rest
<1>8. x.album <= made' /\ x.media <= made' /\ x.mine <= made'
      /\ \A i \in rest : i.id <= made' /\ i.album <= made' /\ i.media <= made'
  BY <1>1, <1>2, <1>3, <1>4, <1>5, <1>7
<1>9. x.verb = "save" => \A i \in rest : i.id \in DOMAIN catalogue' \union {0}
  BY <1>4, <1>5, <1>7
<1>10. x.verb \in {"delete", "move", "album"} =>
        \A i \in rest : i.id \in DOMAIN pictures' => pictures'[i.id].media = i.media /\ pictures'[i.id].album = i.album
  BY <1>1, <1>3, <1>4, <1>5, <1>7
<1>11. x.verb = "move" => \A i \in rest, p \in DOMAIN pictures' : pictures'[p].media = i.media => p = i.id
  BY <1>4, <1>5, <1>7 DEF rest
<1>12. x.verb = "album" =>
         /\ \A i \in rest : i.album = x.album
         /\ \A p \in DOMAIN pictures' \ DOMAIN crossed' : pictures'[p].album = x.album => \E i \in rest : i.id = p
  <2> HAVE x.verb = "album"
  <2>1. \A i \in rest : i.album = x.album
    BY <1>4, <1>5, <1>7
  <2> SUFFICES ASSUME NEW p \in DOMAIN pictures' \ DOMAIN crossed', pictures'[p].album = x.album PROVE \E i \in rest : i.id = p
    BY <2>1
  <2>2. p \in DOMAIN pictures \ DOMAIN crossed /\ pictures[p].album = j.album
    BY <1>7
  <2>3. PICK i \in items : i.id = p
    BY <1>4, <1>7, <2>2
  <2>4. i \in rest
    BY <1>6, <1>7, <2>3
  <2> QED
    BY <2>3, <2>4
<1> QED
  BY <1>4, <1>5, <1>7, <1>8, <1>9, <1>10, <1>11, <1>12, Knows DEF rest

\* One job goes on, the others are where they were.
LEMMA OneGoesOn ==
  ASSUME StoresTyped, JobsKnown, NEW s \in Surfaces, NEW x, job' = [job EXCEPT ![s] = x], JobKnown(s)', x.phase # "storing",
         made' \in Nat, made <= made',
         DOMAIN catalogue \subseteq DOMAIN catalogue', DOMAIN crossed \subseteq DOMAIN crossed', Risked \subseteq Risked',
         \A t \in Surfaces \ {s} :
           /\ job[t].phase = "storing" =>
                /\ job[t].media \in assets' /\ ~Named(job[t].media)'
                /\ x.phase = "freeing" => x.media # job[t].media
                /\ \A i \in ItemsOf(x.todo) : i.media # job[t].media
           /\ job[t].phase = "freeing" /\ Named(job[t].media)' => job[t].media \in Risked',
         \A t \in Surfaces \ {s} : \A p \in DOMAIN pictures' :
           \/ p \in DOMAIN pictures /\ pictures'[p].media = pictures[p].media /\ pictures'[p].album = pictures[p].album
           \/ /\ p > made
              /\ job[t].verb = "album" /\ job[t].album = pictures'[p].album => p \in DOMAIN crossed'
              /\ job[t].verb = "move" => \A i \in ItemsOf(job[t].todo) : i.media # pictures'[p].media
  PROVE  JobsKnown'
<1>1. \A t \in Surfaces \ {s} : job'[t] = job[t] /\ JobKnown(t)
  BY DEF StoresTyped, JobsKnown
<1>2. \A t \in Surfaces \ {s} : JobKnown(t)'
  BY <1>1, OthersKnown
<1>3. \A u, v \in Surfaces : StoresApart(u, v)'
  <2>1. \A u \in Surfaces \ {s} : job[u].phase = "storing" =>
            /\ x.phase = "freeing" => x.media # job[u].media
            /\ \A i \in ItemsOf(x.todo) : i.media # job[u].media
    OBVIOUS
  <2> QED
    BY <2>1, ApartKept
<1> QED
  BY <1>2, <1>3 DEF JobsKnown

LEMMA NextFits ==
  ASSUME NEW j \in Jobs
  PROVE  LET x == [j EXCEPT !.phase = "next", !.media = NoMedia]
         IN  x \in Jobs /\ x.verb = j.verb /\ x.phase = "next" /\ x.todo = j.todo /\ x.album = j.album /\ x.media = 0
             /\ x.mine = j.mine
  BY DEF Jobs, Phases, NoMedia

LEMMA PicturesStill ==
  ASSUME AlbumsAreContiguous, pictures' = pictures, DOMAIN albums' \subseteq DOMAIN albums,
         \A a \in DOMAIN albums', u \in Surfaces :
           job[u].verb = "album" /\ job[u].album = a => job'[u].verb = "album" /\ job'[u].album = a
  PROVE  AlbumsAreContiguous'
  BY DEF AlbumsAreContiguous, PicturesOf

\* The bytes are gone, or stay.
LEMMA BytesGone == ASSUME ShowcaseInv, NEW s \in Surfaces, Freed(s) \/ FreeingFails(s) PROVE ShowcaseInv'
<1> DEFINE m0 == job[s].media
           x == [job[s] EXCEPT !.phase = "next", !.media = NoMedia]
<1>1. /\ job[s].phase = "freeing" /\ UNCHANGED <<albums, pictures, catalogue, uploadDialog, made, started, covered, crossed>>
      /\ \/ assets' = assets \ {m0} /\ left' = left
         \/ assets' = assets /\ left' = left \union {m0}
  BY DEF Freed, FreeingFails, Stays, galleryRows
<1>2. job[s] \in Jobs /\ job \in [Surfaces -> Jobs] /\ StoresTyped /\ JobsKnown /\ JobKnown(s)
  BY DEF ShowcaseInv, StoresTyped, JobsKnown
<1>3. job' = [job EXCEPT ![s] = x]
  BY <1>2 DEF Freed, FreeingFails
<1>4. /\ x \in Jobs /\ x.verb = job[s].verb /\ x.phase = "next" /\ x.todo = job[s].todo /\ x.album = job[s].album /\ x.media = 0
      /\ x.mine = job[s].mine
  BY <1>2, NextFits
<1> HIDE DEF x
<1>5. job'[s] = x /\ \A t \in Surfaces \ {s} : job'[t] = job[t]
  BY <1>2, <1>3
<1>6. (\A m : Named(m)' <=> Named(m)) /\ Risked' = Risked
  BY <1>1 DEF Named, mediaStillReferenced, Risked
<1>7. made \in Nat /\ made' = made /\ m0 # NoMedia /\ (Named(m0) => m0 \in Risked) /\ m0 \in Nat /\ m0 <= made
  BY <1>1, <1>2 DEF StoresTyped, JobKnown, Jobs
<1>8. JobKnown(s)'
  BY <1>1, <1>2, <1>4, <1>5, <1>7, TaskKnown
<1>9. \A t \in Surfaces \ {s} :
        /\ job[t].phase = "storing" => /\ job[t].media \in assets' /\ ~Named(job[t].media)'
                                       /\ \A i \in ItemsOf(x.todo) : i.media # job[t].media
        /\ job[t].phase = "freeing" /\ Named(job[t].media)' => job[t].media \in Risked'
  <2> TAKE t \in Surfaces \ {s}
  <2>1. JobKnown(t) /\ StoresApart(t, s)
    BY <1>2 DEF JobsKnown
  <2>2. job[t].phase = "storing" =>
          /\ job[t].media \in assets /\ ~Named(job[t].media) /\ m0 # job[t].media
          /\ \A i \in ItemsOf(x.todo) : i.media # job[t].media
    BY <1>1, <1>4, <2>1 DEF JobKnown, StoresApart
  <2>3. job[t].phase = "freeing" /\ Named(job[t].media) => job[t].media \in Risked
    BY <2>1 DEF JobKnown
  <2> HIDE DEF m0
  <2>4. job[t].phase = "storing" => job[t].media \in assets' /\ ~Named(job[t].media)'
    BY <1>1, <1>5, <1>6, <2>2
  <2>5. job[t].phase = "freeing" /\ Named(job[t].media)' => job[t].media \in Risked'
    BY <1>5, <1>6, <2>3
  <2> QED
    BY <2>2, <2>4, <2>5
<1>10. JobsKnown'
  <2>1. /\ x.phase # "storing" /\ x.phase # "freeing" /\ made' \in Nat /\ made <= made'
        /\ DOMAIN catalogue \subseteq DOMAIN catalogue' /\ DOMAIN crossed \subseteq DOMAIN crossed' /\ Risked \subseteq Risked'
        /\ \A p \in DOMAIN pictures' : p \in DOMAIN pictures /\ pictures'[p].media = pictures[p].media /\ pictures'[p].album = pictures[p].album
    BY <1>1, <1>4, <1>6, <1>7
  <2> QED
    BY <1>2, <1>3, <1>8, <1>9, <2>1, OneGoesOn
<1>11. StoresTyped'
  <2>1. job' \in [Surfaces -> Jobs] /\ m0 \in 1..made
    BY <1>2, <1>3, <1>4, <1>7 DEF NoMedia
  <2> QED
    BY <1>1, <1>2, <2>1 DEF StoresTyped
<1>12. FilesKnown'
  <2>1. \A m : Busy(m) => m = m0 \/ Busy(m)'
    BY <1>5 DEF Busy
  <2>2. \A m \in 1..made : Named(m) => m \in assets' \union Risked
    BY <1>1, <1>7 DEF ShowcaseInv, FilesKnown
  <2>3. \A m \in assets' : m \in left' \union covered \/ Named(m) \/ Busy(m)'
    BY <1>1, <2>1 DEF ShowcaseInv, FilesKnown
  <2> QED
    BY <1>1, <1>6, <2>2, <2>3 DEF ShowcaseInv, FilesKnown, PicturesAreFiledOnce
<1>13. AlbumsAreContiguous'
  BY <1>1, <1>4, <1>5, PicturesStill DEF ShowcaseInv
<1> QED
  BY <1>10, <1>11, <1>12, <1>13 DEF ShowcaseInv

LEMMA CoverKnown == ASSUME ShowcaseInv, NEW p \in DOMAIN pictures, setAlbumCover(p) PROVE ShowcaseInv'
<1> DEFINE m0 == pictures[p].media
           a0 == pictures[p].album
<1>1. /\ a0 \in DOMAIN albums /\ albums' = [albums EXCEPT ![a0] = m0] /\ covered' = covered \union {m0}
      /\ UNCHANGED <<pictures, assets, catalogue, uploadDialog, job, made, left, crossed>>
  BY DEF setAlbumCover
<1>2. StoresTyped /\ JobsKnown /\ m0 \in 1..made /\ made \in Nat /\ Named(m0)
  BY DEF ShowcaseInv, StoresTyped, Named, mediaStillReferenced
<1>3. DOMAIN albums' = DOMAIN albums /\ \A a \in DOMAIN albums' : albums'[a] = IF a = a0 THEN m0 ELSE albums[a]
  BY <1>1
<1>4. /\ \A m : Named(m)' => Named(m)
      /\ \A m : Named(m) => Named(m)' \/ m = albums[a0]
      /\ Risked' = Risked
  BY <1>1, <1>2, <1>3 DEF Named, mediaStillReferenced, Risked
<1>5. started' \in 0..MaxJobs
  BY ShowcaseAssumption DEF setAlbumCover, Counts, ShowcaseInv, StoresTyped, ShowcaseAssumption
<1>6. StoresTyped'
  <2>1. albums' \in [DOMAIN albums' -> 0..made]
    BY <1>1, <1>2 DEF StoresTyped
  <2> QED
    BY <1>1, <1>2, <1>3, <1>5, <2>1 DEF StoresTyped
<1>7. JobsKnown'
  <2>1. ASSUME NEW t \in Surfaces PROVE JobKnown(t)'
    <3>1. JobKnown(t)
      BY <1>2 DEF JobsKnown
    <3>2. /\ job[t].phase = "storing" => job[t].media \in assets' /\ ~Named(job[t].media)'
          /\ job[t].phase = "freeing" /\ Named(job[t].media)' => job[t].media \in Risked'
      BY <1>1, <1>4, <3>1 DEF JobKnown
    <3> QED
      BY <1>1, <1>2, <1>4, <3>1, <3>2, OthersKnown
  <2> QED
    BY <1>1, <1>2, <2>1 DEF JobsKnown, StoresApart
<1>8. FilesKnown'
  <2>1. albums[a0] \in covered \union {NoMedia} /\ 0 \notin assets
    BY <1>1, <1>2 DEF ShowcaseInv, FilesKnown, StoresTyped
  <2>2. \A m : Busy(m) <=> Busy(m)'
    BY <1>1 DEF Busy
  <2>3. \A m \in 1..made : Named(m)' => m \in assets' \union Risked'
    BY <1>1, <1>4 DEF ShowcaseInv, FilesKnown
  <2>4. \A m \in assets : m \in left \union covered' \/ Named(m)' \/ Busy(m)'
    BY <1>1, <1>4, <2>1, <2>2 DEF ShowcaseInv, FilesKnown, NoMedia
  <2>5. \A a \in DOMAIN albums' : albums'[a] \in covered' \union {NoMedia}
    BY <1>1, <1>3 DEF ShowcaseInv, FilesKnown
  <2> QED
    BY <1>1, <1>3, <2>3, <2>4, <2>5 DEF ShowcaseInv, FilesKnown, PicturesAreFiledOnce
<1>9. AlbumsAreContiguous'
  BY <1>1, <1>3, PicturesStill DEF ShowcaseInv
<1> QED
  BY <1>6, <1>7, <1>8, <1>9 DEF ShowcaseInv

LEMMA NewFile ==
  ASSUME StoresTyped, NEW m, ~(m \in 1..made)
  PROVE  m # NoMedia => ~Named(m)
  BY DEF StoresTyped, Named, mediaStillReferenced, NoMedia

LEMMA BytesStored == ASSUME ShowcaseInv, NEW s \in Surfaces, StoreBytes(s) PROVE ShowcaseInv'
<1>1. /\ job[s].verb \in {"upload", "save"} /\ job[s].phase = "next" /\ job[s].todo # <<>>
      /\ made' = made + 1 /\ made + 1 <= MaxIds /\ assets' = assets \union {made'}
      /\ UNCHANGED <<albums, pictures, catalogue, uploadDialog, started, left, covered, crossed>>
  BY DEF StoreBytes, Fresh, Stays
<1>2. job[s] \in Jobs /\ job \in [Surfaces -> Jobs] /\ StoresTyped /\ JobsKnown /\ JobKnown(s) /\ made \in Nat /\ made' \in Nat
  BY <1>1 DEF ShowcaseInv, StoresTyped, JobsKnown
<1>3. PICK x : x = [job[s] EXCEPT !.phase = "storing", !.media = made']
  OBVIOUS
<1>4. job' = [job EXCEPT ![s] = x]
  BY <1>2, <1>3 DEF StoreBytes
<1>5. /\ x \in Jobs /\ x.verb = job[s].verb /\ x.phase = "storing" /\ x.todo = job[s].todo /\ x.album = job[s].album /\ x.media = made'
      /\ x.mine = job[s].mine
  BY <1>2, <1>3 DEF Jobs, Phases
<1>6. job'[s] = x /\ job' \in [Surfaces -> Jobs] /\ \A t \in Surfaces \ {s} : job'[t] = job[t]
  BY <1>2, <1>4, <1>5
<1>7. (\A m : Named(m)' <=> Named(m)) /\ Risked' = Risked
  BY <1>1 DEF Named, mediaStillReferenced, Risked
<1>8. ~Named(x.media)
  BY <1>1, <1>2, <1>5, NewFile DEF NoMedia
<1>9. JobKnown(s)'
  <2>1. x.phase = "storing" => x.verb \in {"upload", "save"} /\ x.todo # <<>> /\ x.media \in assets' /\ ~Named(x.media)'
    BY <1>1, <1>5, <1>7, <1>8
  <2> QED
    BY <1>1, <1>2, <1>5, <1>6, <2>1, TaskKnown
<1>10. \A t \in Surfaces \ {s} : JobKnown(t)'
  <2> TAKE t \in Surfaces \ {s}
  <2>1. JobKnown(t)
    BY <1>2 DEF JobsKnown
  <2>2. /\ job[t].phase = "storing" => job[t].media \in assets' /\ ~Named(job[t].media)'
        /\ job[t].phase = "freeing" /\ Named(job[t].media)' => job[t].media \in Risked'
    BY <1>1, <1>6, <1>7, <2>1 DEF JobKnown
  <2> QED
    BY <1>1, <1>2, <1>6, <1>7, <2>1, <2>2, OthersKnown
<1>11. \A t \in Surfaces : job[t].media <= made /\ job[t].media \in Nat /\ \A i \in ItemsOf(job[t].todo) : i.media <= made /\ i.media \in Nat
  <2> TAKE t \in Surfaces
  <2>1. JobKnown(t) /\ job[t].todo \in Seq(Tasks) /\ job[t].media \in Nat
    BY <1>2 DEF JobsKnown, Jobs
  <2> QED
    BY <2>1, ListOf DEF JobKnown, Tasks
<1>12. \A u, v \in Surfaces : StoresApart(u, v)'
  <2> TAKE u, v \in Surfaces
  <2>1. StoresApart(u, v)
    BY <1>2 DEF JobsKnown
  <2>2. CASE u # s /\ v # s
    BY <1>6, <2>1, <2>2 DEF StoresApart
  <2>3. CASE u = s
    <3>1. /\ u # v => job'[v].media # job'[u].media
          /\ \A i \in ItemsOf(job'[v].todo) : i.media # job'[u].media
      BY <1>1, <1>2, <1>5, <1>6, <1>11, <2>3
    <3> QED
      BY <3>1 DEF StoresApart
  <2>4. CASE u # s /\ v = s
    <3>1. job'[v].media # job'[u].media /\ job'[v].todo = job[v].todo /\ job'[u] = job[u]
      BY <1>1, <1>2, <1>5, <1>6, <1>11, <2>4
    <3> QED
      BY <2>1, <3>1 DEF StoresApart
  <2> QED
    BY <2>2, <2>3, <2>4
<1>13. JobsKnown'
  BY <1>9, <1>10, <1>12 DEF JobsKnown
<1>14. StoresTyped'
  <2>1. 1..made \subseteq 1..made' /\ 0..made \subseteq 0..made' /\ made' \in 1..made' /\ made' \in 0..MaxIds
    BY <1>1, <1>2
  <2>2. /\ albums' \in [DOMAIN albums' -> 0..made'] /\ DOMAIN albums' \subseteq 1..made'
        /\ catalogue' \in [DOMAIN catalogue' -> 0..made'] /\ DOMAIN catalogue' \subseteq 1..made'
        /\ uploadDialog' \in [open : BOOLEAN, album : 0..made'] /\ started' \in 0..MaxJobs
    BY <1>1, <1>2, <2>1 DEF StoresTyped
  <2>3. /\ pictures' \in [DOMAIN pictures' -> [album : 1..made', media : 1..made', order : Nat]] /\ DOMAIN pictures' \subseteq 1..made'
        /\ assets' \subseteq 1..made' /\ left' \subseteq 1..made' /\ covered' \subseteq 1..made'
        /\ crossed' \in [DOMAIN crossed' -> 1..made'] /\ DOMAIN crossed' \subseteq 1..made'
    BY <1>1, <1>2, <2>1 DEF StoresTyped
  <2> QED
    BY <1>6, <2>1, <2>2, <2>3 DEF StoresTyped
<1>15. FilesKnown'
  <2>1. (\A m : Busy(m) => Busy(m)') /\ Busy(x.media)'
    BY <1>1, <1>5, <1>6 DEF Busy
  <2>2. \A m \in 1..made' : Named(m) => m \in 1..made
    BY <1>2, NewFile DEF NoMedia
  <2>3. \A m \in 1..made' : Named(m) => m \in assets' \union Risked
    BY <1>1, <2>2 DEF ShowcaseInv, FilesKnown
  <2>4. \A m \in assets' : m \in left \union covered \/ Named(m) \/ Busy(m)'
    BY <1>1, <1>5, <2>1 DEF ShowcaseInv, FilesKnown
  <2> QED
    BY <1>1, <1>7, <2>3, <2>4 DEF ShowcaseInv, FilesKnown, PicturesAreFiledOnce
<1>16. AlbumsAreContiguous'
  BY <1>1, <1>5, <1>6, PicturesStill DEF ShowcaseInv
<1> QED
  BY <1>13, <1>14, <1>15, <1>16 DEF ShowcaseInv

LEMMA RefusedKnown == ASSUME ShowcaseInv, NEW s \in Surfaces, BytesRefused(s) PROVE ShowcaseInv'
<1>1. PICK m0 : m0 = job[s].media
  OBVIOUS
<1>2. /\ job[s].phase = "storing" /\ assets' = assets \ {m0}
      /\ UNCHANGED <<albums, pictures, catalogue, uploadDialog, made, started, left, covered, crossed>>
  BY <1>1 DEF BytesRefused, Stays
<1>3. job[s] \in Jobs /\ job \in [Surfaces -> Jobs] /\ StoresTyped /\ JobsKnown /\ JobKnown(s) /\ made \in Nat
  BY DEF ShowcaseInv, StoresTyped, JobsKnown
<1>4. PICK x : x = [job[s] EXCEPT !.phase = "next", !.media = NoMedia, !.todo = Tail(job[s].todo), !.failed = job[s].failed + 1]
  OBVIOUS
<1>5. job' = [job EXCEPT ![s] = x]
  BY <1>3, <1>4 DEF BytesRefused
<1>6. job[s].verb \in {"upload", "save"} /\ job[s].todo # <<>> /\ m0 \in assets /\ ~Named(m0)
  BY <1>1, <1>2, <1>3 DEF JobKnown
<1>7. /\ x \in Jobs /\ x.verb = job[s].verb /\ x.phase = "next" /\ x.todo = Tail(job[s].todo) /\ x.album = job[s].album /\ x.media = 0
      /\ x.mine = job[s].mine /\ ItemsOf(x.todo) \subseteq ItemsOf(job[s].todo)
  <2>1. Tail(job[s].todo) \in Seq(Tasks) /\ ItemsOf(Tail(job[s].todo)) \subseteq ItemsOf(job[s].todo) /\ job[s].failed + 1 \in Nat
    <3>1. Tail(job[s].todo) \in Seq(Tasks) /\ ItemsOf(Tail(job[s].todo)) \subseteq ItemsOf(job[s].todo)
      BY <1>3, <1>6, RestOfJob
    <3>2. job[s].failed + 1 \in Nat
      BY <1>3 DEF Jobs
    <3> QED
      BY <3>1, <3>2
  <2> QED
    BY <1>3, <1>4, <2>1 DEF Jobs, Phases, NoMedia
<1>8. job'[s] = x /\ job' \in [Surfaces -> Jobs] /\ \A t \in Surfaces \ {s} : job'[t] = job[t]
  BY <1>3, <1>5, <1>7
<1>9. (\A m : Named(m)' <=> Named(m)) /\ Risked' = Risked
  BY <1>2 DEF Named, mediaStillReferenced, Risked
<1>10. JobKnown(s)'
  BY <1>2, <1>3, <1>6, <1>7, <1>8, TaskKnown
<1>11. \A t \in Surfaces \ {s} :
        /\ job[t].phase = "storing" => /\ job[t].media \in assets' /\ ~Named(job[t].media)'
                                       /\ \A i \in ItemsOf(x.todo) : i.media # job[t].media
        /\ job[t].phase = "freeing" /\ Named(job[t].media)' => job[t].media \in Risked'
  <2> TAKE t \in Surfaces \ {s}
  <2>1. JobKnown(t) /\ StoresApart(t, s)
    BY <1>3 DEF JobsKnown
  <2>2. job[t].phase = "storing" =>
          /\ job[t].media \in assets /\ ~Named(job[t].media) /\ m0 # job[t].media
          /\ \A i \in ItemsOf(x.todo) : i.media # job[t].media
    BY <1>1, <1>2, <1>7, <2>1 DEF JobKnown, StoresApart
  <2>3. job[t].phase = "freeing" /\ Named(job[t].media) => job[t].media \in Risked
    BY <2>1 DEF JobKnown
  <2>4. job[t].phase = "storing" => job[t].media \in assets' /\ ~Named(job[t].media)'
    BY <1>2, <1>8, <1>9, <2>2
  <2>5. job[t].phase = "freeing" /\ Named(job[t].media)' => job[t].media \in Risked'
    BY <1>8, <1>9, <2>3
  <2> QED
    BY <2>2, <2>4, <2>5
<1>12. JobsKnown'
  <2>1. /\ x.phase # "storing" /\ x.phase # "freeing" /\ made' \in Nat /\ made <= made'
        /\ DOMAIN catalogue \subseteq DOMAIN catalogue' /\ DOMAIN crossed \subseteq DOMAIN crossed' /\ Risked \subseteq Risked'
        /\ \A p \in DOMAIN pictures' : p \in DOMAIN pictures /\ pictures'[p].media = pictures[p].media /\ pictures'[p].album = pictures[p].album
    BY <1>2, <1>3, <1>7, <1>9
  <2> QED
    BY <1>3, <1>5, <1>10, <1>11, <2>1, OneGoesOn
<1>13. StoresTyped'
  BY <1>2, <1>3, <1>8 DEF StoresTyped
<1>14. FilesKnown'
  <2>1. \A m : Busy(m) => m = m0 \/ Busy(m)'
    BY <1>1, <1>8 DEF Busy
  <2>2. \A m \in 1..made : Named(m) => m \in assets' \union Risked
    BY <1>2, <1>6 DEF ShowcaseInv, FilesKnown
  <2>3. \A m \in assets' : m \in left \union covered \/ Named(m) \/ Busy(m)'
    BY <1>2, <2>1 DEF ShowcaseInv, FilesKnown
  <2> QED
    BY <1>2, <1>9, <2>2, <2>3 DEF ShowcaseInv, FilesKnown, PicturesAreFiledOnce
<1>15. AlbumsAreContiguous'
  BY <1>2, <1>7, <1>8, PicturesStill DEF ShowcaseInv
<1> QED
  BY <1>12, <1>13, <1>14, <1>15 DEF ShowcaseInv

\* The store after a picture was added to it.
LEMMA FiledRows ==
  ASSUME StoresTyped, NEW p, p = made + 1, NEW a \in 1..made, NEW m \in 1..made, NEW ps, ps = Filed(p, a, m, pictures)
  PROVE  /\ DOMAIN ps = DOMAIN pictures \union {p} /\ p \notin DOMAIN pictures
         /\ ps \in [DOMAIN ps -> [album : 1..p, media : 1..p, order : Nat]] /\ DOMAIN ps \subseteq 1..p
         /\ ps[p] = [album |-> a, media |-> m, order |-> Cardinality(PicturesOf(a, pictures))]
         /\ \A q \in DOMAIN pictures : ps[q] = pictures[q]
         /\ Cardinality(PicturesOf(a, pictures)) \in Nat /\ IsFiniteSet(DOMAIN pictures)
<1>1. DOMAIN ps = DOMAIN pictures \union {p} /\ ps = [x \in DOMAIN pictures \union {p} |->
         IF x = p THEN [album |-> a, media |-> m, order |-> Cardinality(PicturesOf(a, pictures))] ELSE pictures[x]]
  BY DEF Filed, WithRow
<1>2. made \in Nat /\ pictures \in [DOMAIN pictures -> [album : 1..made, media : 1..made, order : Nat]] /\ DOMAIN pictures \subseteq 1..made
  BY DEF StoresTyped
<1>3. IsFiniteSet(DOMAIN pictures) /\ Cardinality(PicturesOf(a, pictures)) \in Nat
  <2>1. IsFiniteSet(1..made)
    <3>1. 1 \in Int /\ made \in Int
      BY <1>2
    <3> QED
      BY <3>1, FS_Interval
  <2>2. IsFiniteSet(DOMAIN pictures)
    BY <1>2, <2>1, FS_Subset
  <2>3. PicturesOf(a, pictures) \subseteq DOMAIN pictures
    BY DEF PicturesOf
  <2> QED
    BY <2>2, <2>3, FS_Subset, FS_CardinalityType
<1>4. p \notin DOMAIN pictures /\ DOMAIN ps \subseteq 1..p
  BY <1>1, <1>2
<1>5. ps[p] = [album |-> a, media |-> m, order |-> Cardinality(PicturesOf(a, pictures))] /\ \A q \in DOMAIN pictures : ps[q] = pictures[q]
  BY <1>1, <1>4
<1>6. \A q \in DOMAIN ps : ps[q] \in [album : 1..p, media : 1..p, order : Nat]
  <2>1. ps[p] \in [album : 1..p, media : 1..p, order : Nat]
    BY <1>2, <1>3, <1>5
  <2>2. \A q \in DOMAIN pictures : pictures[q] \in [album : 1..p, media : 1..p, order : Nat]
    BY <1>2
  <2> QED
    BY <1>1, <1>5, <2>1, <2>2
<1>7. ps \in [DOMAIN ps -> [album : 1..p, media : 1..p, order : Nat]]
  BY <1>1, <1>6
<1> QED
  BY <1>1, <1>3, <1>4, <1>5, <1>7

\* An album whose pictures stand at 0, 1, 2, ...
InOrder(a, ps) == {ps[p].order : p \in PicturesOf(a, ps)} = 0..(Cardinality(PicturesOf(a, ps)) - 1)

\* The places a set of pictures takes.
OrdersIn(S, f) == {f[q].order : q \in S}

\* One more picture, at the next place, leaves the others where they are.
AddsAt(n, S, p, f, g) == (\A q \in S : g[q].order = f[q].order) /\ g[p].order = n

LEMMA OneMoreInOrder ==
  ASSUME NEW S, NEW p, NEW f, NEW g, NEW n \in Nat, OrdersIn(S, f) = 0..(n - 1),
         AddsAt(n, S, p, f, g), NEW U, U = S \union {p}, NEW c, c = n + 1
  PROVE  OrdersIn(U, g) = 0..(c - 1)
<1> USE DEF AddsAt
<1>1. \A q \in U : g[q].order \in 0..(c - 1)
  <2>1. \A q \in S : f[q].order \in 0..(n - 1)
    BY DEF OrdersIn
  <2> QED
    BY <2>1
<1>2. \A k \in 0..(c - 1) : \E q \in U : g[q].order = k
  <2> TAKE k \in 0..(c - 1)
  <2>1. CASE k = n
    BY <2>1
  <2>2. CASE k # n
    <3>1. k \in 0..(n - 1)
      BY <2>2
    <3>2. PICK q \in S : f[q].order = k
      BY <3>1 DEF OrdersIn
    <3> QED
      BY <3>2
  <2> QED
    BY <2>1, <2>2
<1> QED
  BY <1>1, <1>2 DEF OrdersIn

LEMMA FiledInOrder ==
  ASSUME StoresTyped, NEW p, p = made + 1, NEW a \in 1..made, NEW m \in 1..made, NEW ps, ps = Filed(p, a, m, pictures),
         NEW b, InOrder(b, pictures)
  PROVE  InOrder(b, ps)
<1>1. /\ DOMAIN ps = DOMAIN pictures \union {p} /\ p \notin DOMAIN pictures
      /\ ps[p] = [album |-> a, media |-> m, order |-> Cardinality(PicturesOf(a, pictures))]
      /\ \A q \in DOMAIN pictures : ps[q] = pictures[q]
      /\ Cardinality(PicturesOf(a, pictures)) \in Nat /\ IsFiniteSet(DOMAIN pictures)
  BY FiledRows
<1>2. CASE b # a
  <2>1. PicturesOf(b, ps) = PicturesOf(b, pictures)
    BY <1>1, <1>2 DEF PicturesOf
  <2>2. \A q \in PicturesOf(b, pictures) : ps[q] = pictures[q]
    BY <1>1 DEF PicturesOf
  <2> QED
    BY <2>1, <2>2 DEF InOrder
<1>3. CASE b = a
  <2> DEFINE S == PicturesOf(a, pictures)
             n == Cardinality(S)
  <2>1. PicturesOf(a, ps) = S \union {p} /\ p \notin S
    BY <1>1 DEF PicturesOf
  <2>2. IsFiniteSet(S)
    BY <1>1, FS_Subset DEF PicturesOf
  <2>3. Cardinality(PicturesOf(a, ps)) = n + 1
    BY <2>1, <2>2, FS_AddElement
  <2>4. \A q \in S : ps[q].order = pictures[q].order
    BY <1>1 DEF PicturesOf
  <2>5. ps[p].order = n /\ n \in Nat
    BY <1>1
  <2>6. {pictures[q].order : q \in S} = 0..(n - 1)
    BY <1>3 DEF InOrder
  <2> HIDE DEF S, n
  <2>9. {ps[q].order : q \in PicturesOf(a, ps)} = 0..(Cardinality(PicturesOf(a, ps)) - 1)
    <3>1. OrdersIn(S, pictures) = 0..(n - 1)
      BY <2>6 DEF OrdersIn
    <3>2. PICK U : U = PicturesOf(a, ps)
      OBVIOUS
    <3>3. PICK c : c = Cardinality(U)
      OBVIOUS
    <3>4. U = S \union {p} /\ c = n + 1
      BY <2>1, <2>3, <3>2, <3>3
    <3>5. AddsAt(n, S, p, pictures, ps)
      BY <2>4, <2>5 DEF AddsAt
    <3>6. OrdersIn(U, ps) = 0..(c - 1)
      BY <2>5, <3>1, <3>4, <3>5, OneMoreInOrder
    <3> QED
      BY <3>2, <3>3, <3>6 DEF OrdersIn
  <2> QED
    BY <1>3, <2>9 DEF InOrder
<1> QED
  BY <1>2, <1>3

LEMMA CrossedGrows ==
  ASSUME StoresTyped, NEW p, p = made + 1, NEW m \in 1..made, crossed' = crossed \/ crossed' = WithRow(p, m, crossed)
  PROVE  /\ crossed' \in [DOMAIN crossed' -> 1..p] /\ DOMAIN crossed' \subseteq 1..p /\ DOMAIN crossed \subseteq DOMAIN crossed'
         /\ Risked \subseteq Risked'
         /\ crossed' = WithRow(p, m, crossed) => p \in DOMAIN crossed' /\ m \in Risked'
<1>1. made \in Nat /\ crossed \in [DOMAIN crossed -> 1..made] /\ DOMAIN crossed \subseteq 1..made
  BY DEF StoresTyped
<1>2. CASE crossed' = crossed /\ crossed' # WithRow(p, m, crossed)
  BY <1>1, <1>2 DEF Risked
<1>3. CASE crossed' = WithRow(p, m, crossed)
  <2>1. crossed' = [q \in DOMAIN crossed \union {p} |-> IF q = p THEN m ELSE crossed[q]]
    BY <1>3 DEF WithRow
  <2>2. DOMAIN crossed' = DOMAIN crossed \union {p} /\ \A q \in DOMAIN crossed' : crossed'[q] = IF q = p THEN m ELSE crossed[q]
    BY <2>1
  <2>3. p \notin DOMAIN crossed
    BY <1>1
  <2>4. crossed'[p] = m /\ \A q \in DOMAIN crossed : crossed'[q] = crossed[q]
    BY <2>2, <2>3
  <2>5. DOMAIN crossed' \subseteq 1..p /\ \A q \in DOMAIN crossed' : crossed'[q] \in 1..p
    BY <1>1, <2>2
  <2>6. crossed' \in [DOMAIN crossed' -> 1..p]
    BY <2>1, <2>5
  <2>7. Risked \subseteq Risked' /\ m \in Risked'
    BY <2>2, <2>4 DEF Risked
  <2> QED
    BY <2>2, <2>5, <2>6, <2>7
<1> QED
  BY <1>2, <1>3

LEMMA FiledNames ==
  ASSUME StoresTyped, NEW p, p = made + 1, NEW a \in 1..made, NEW m0 \in 1..made, pictures' = Filed(p, a, m0, pictures),
         UNCHANGED <<albums, catalogue>>
  PROVE  \A m : Named(m)' <=> Named(m) \/ m = m0
<1>1. /\ DOMAIN pictures' = DOMAIN pictures \union {p} /\ p \notin DOMAIN pictures
      /\ pictures'[p] = [album |-> a, media |-> m0, order |-> Cardinality(PicturesOf(a, pictures))]
      /\ \A q \in DOMAIN pictures : pictures'[q] = pictures[q]
  BY FiledRows
<1>2. \A m : (\E q \in DOMAIN pictures' : pictures'[q].media = m) <=> (\E q \in DOMAIN pictures : pictures[q].media = m) \/ m = m0
  BY <1>1
<1> QED
  BY <1>2 DEF Named, mediaStillReferenced

LEMMA ImageAdded == ASSUME ShowcaseInv, NEW s \in Surfaces, addImage(s), job[s].album \in DOMAIN albums PROVE ShowcaseInv'
<1>1. PICK m0, a, p : m0 = job[s].media /\ a = job[s].album /\ p = made + 1
  OBVIOUS
<1>2. job[s] \in Jobs /\ job \in [Surfaces -> Jobs] /\ StoresTyped /\ JobsKnown /\ JobKnown(s) /\ made \in Nat
  BY DEF ShowcaseInv, StoresTyped, JobsKnown
<1>3. /\ job[s].verb = "upload" /\ job[s].phase = "storing" /\ made' = p /\ p <= MaxIds
      /\ pictures' = Filed(p, a, m0, pictures)
      /\ crossed' = IF Going(a, m0) THEN WithRow(p, m0, crossed) ELSE crossed
      /\ UNCHANGED <<albums, assets, catalogue, uploadDialog, started, left, covered>>
  BY <1>1 DEF addImage, Stays, Fresh
<1>4. PICK x : x = [job[s] EXCEPT !.phase = "next", !.media = NoMedia, !.todo = Tail(job[s].todo), !.written = job[s].written + 1]
  OBVIOUS
<1>5. job' = [job EXCEPT ![s] = x]
  BY <1>2, <1>4 DEF addImage
<1>6. job[s].todo # <<>> /\ m0 \in assets /\ ~Named(m0) /\ m0 \in 1..made /\ a \in 1..made /\ a \in DOMAIN albums
  BY <1>1, <1>2, <1>3 DEF JobKnown, StoresTyped
<1>7. /\ x \in Jobs /\ x.verb = "upload" /\ x.phase = "next" /\ x.todo = Tail(job[s].todo) /\ x.album = job[s].album /\ x.media = 0
      /\ x.mine = job[s].mine /\ ItemsOf(x.todo) \subseteq ItemsOf(job[s].todo)
  <2>1. Tail(job[s].todo) \in Seq(Tasks) /\ ItemsOf(Tail(job[s].todo)) \subseteq ItemsOf(job[s].todo)
    BY <1>2, <1>6, RestOfJob
  <2>2. job[s].written + 1 \in Nat
    BY <1>2 DEF Jobs
  <2> QED
    BY <1>2, <1>3, <1>4, <2>1, <2>2 DEF Jobs, Phases, NoMedia
<1>8. job'[s] = x /\ job' \in [Surfaces -> Jobs] /\ \A t \in Surfaces \ {s} : job'[t] = job[t]
  BY <1>2, <1>5, <1>7
<1>9. \A m : Named(m)' <=> Named(m) \/ m = m0
  BY <1>1, <1>2, <1>3, <1>6, FiledNames
<1>10. /\ DOMAIN pictures' = DOMAIN pictures \union {p} /\ p \notin DOMAIN pictures
       /\ pictures' \in [DOMAIN pictures' -> [album : 1..p, media : 1..p, order : Nat]] /\ DOMAIN pictures' \subseteq 1..p
       /\ pictures'[p].album = a /\ pictures'[p].media = m0 /\ \A q \in DOMAIN pictures : pictures'[q] = pictures[q]
  <2>1. /\ DOMAIN pictures' = DOMAIN pictures \union {p} /\ p \notin DOMAIN pictures
        /\ pictures' \in [DOMAIN pictures' -> [album : 1..p, media : 1..p, order : Nat]] /\ DOMAIN pictures' \subseteq 1..p
        /\ pictures'[p] = [album |-> a, media |-> m0, order |-> Cardinality(PicturesOf(a, pictures))]
        /\ \A q \in DOMAIN pictures : pictures'[q] = pictures[q]
    <3>1. PICK ps : ps = pictures'
      OBVIOUS
    <3>2. /\ DOMAIN ps = DOMAIN pictures \union {p} /\ p \notin DOMAIN pictures
          /\ ps \in [DOMAIN ps -> [album : 1..p, media : 1..p, order : Nat]] /\ DOMAIN ps \subseteq 1..p
          /\ ps[p] = [album |-> a, media |-> m0, order |-> Cardinality(PicturesOf(a, pictures))]
          /\ \A q \in DOMAIN pictures : ps[q] = pictures[q]
      <4>1. StoresTyped /\ p = made + 1 /\ a \in 1..made /\ m0 \in 1..made /\ ps = Filed(p, a, m0, pictures)
        BY <1>1, <1>2, <1>3, <1>6, <3>1
      <4> QED
        BY <4>1, FiledRows
    <3> QED
      BY <3>1, <3>2
  <2> QED
    BY <2>1
<1>11. /\ crossed' \in [DOMAIN crossed' -> 1..p] /\ DOMAIN crossed' \subseteq 1..p /\ DOMAIN crossed \subseteq DOMAIN crossed'
       /\ Risked \subseteq Risked'
  BY <1>1, <1>2, <1>3, <1>6, CrossedGrows
<1>12. Going(a, m0) => p \in DOMAIN crossed'
  BY <1>1, <1>2, <1>3, <1>6, CrossedGrows
<1>13. p > made /\ made' \in Nat /\ made <= made'
  BY <1>1, <1>2, <1>3
<1>14. JobKnown(s)'
  <2>1. \A q \in DOMAIN pictures' :
           \/ q \in DOMAIN pictures /\ pictures'[q].media = pictures[q].media /\ pictures'[q].album = pictures[q].album
           \/ q > made
    BY <1>10, <1>13
  <2> QED
    BY <1>2, <1>3, <1>6, <1>7, <1>8, <1>11, <1>13, <2>1, TaskKnown
<1>15. ASSUME NEW t \in Surfaces \ {s}
       PROVE  /\ job[t].phase = "storing" => /\ job[t].media \in assets' /\ ~Named(job[t].media)'
                                             /\ \A i \in ItemsOf(x.todo) : i.media # job[t].media
              /\ job[t].phase = "freeing" /\ Named(job[t].media)' => job[t].media \in Risked'
  <2>1. JobKnown(t) /\ StoresApart(t, s) /\ StoresApart(s, t)
    BY <1>2 DEF JobsKnown
  <2>2. job[t].phase = "storing" =>
          /\ job[t].media \in assets /\ ~Named(job[t].media) /\ m0 # job[t].media
          /\ \A i \in ItemsOf(x.todo) : i.media # job[t].media
    BY <1>1, <1>3, <1>7, <2>1 DEF JobKnown, StoresApart
  <2>3. job[t].phase = "freeing" => m0 # job[t].media /\ (Named(job[t].media) => job[t].media \in Risked)
    BY <1>1, <1>3, <2>1 DEF JobKnown, StoresApart
  <2>4. job[t].phase = "storing" => job[t].media \in assets' /\ ~Named(job[t].media)'
    BY <1>3, <1>8, <1>9, <2>2
  <2>5. job[t].phase = "freeing" /\ Named(job[t].media)' => job[t].media \in Risked'
    BY <1>8, <1>9, <1>11, <2>3
  <2> QED
    BY <2>2, <2>4, <2>5
<1>16. ASSUME NEW t \in Surfaces \ {s}, NEW q \in DOMAIN pictures'
       PROVE  \/ q \in DOMAIN pictures /\ pictures'[q].media = pictures[q].media /\ pictures'[q].album = pictures[q].album
              \/ /\ q > made
                 /\ job[t].verb = "album" /\ job[t].album = pictures'[q].album => q \in DOMAIN crossed'
                 /\ job[t].verb = "move" => \A i \in ItemsOf(job[t].todo) : i.media # pictures'[q].media
  <2>1. CASE q \in DOMAIN pictures
    BY <1>10, <2>1
  <2>2. CASE q = p
    <3>1. job[t].verb = "album" /\ job[t].album = a => Going(a, m0)
      BY DEF Going
    <3>2. \A i \in ItemsOf(job[t].todo) : i.media # m0
      BY <1>1, <1>2, <1>3 DEF JobsKnown, StoresApart
    <3> QED
      BY <1>10, <1>12, <1>13, <2>2, <3>1, <3>2
  <2> QED
    BY <1>10, <2>1, <2>2
<1>17. JobsKnown'
  <2>1. x.phase # "storing" /\ x.phase # "freeing" /\ DOMAIN catalogue \subseteq DOMAIN catalogue'
    BY <1>3, <1>7
  <2> QED
    BY <1>2, <1>5, <1>11, <1>13, <1>14, <1>15, <1>16, <2>1, OneGoesOn
<1>18. StoresTyped'
  <2>1. 1..made \subseteq 1..made' /\ 0..made \subseteq 0..made' /\ made' \in 0..MaxIds
    BY <1>1, <1>2, <1>3
  <2>2. /\ albums' \in [DOMAIN albums' -> 0..made'] /\ DOMAIN albums' \subseteq 1..made'
        /\ catalogue' \in [DOMAIN catalogue' -> 0..made'] /\ DOMAIN catalogue' \subseteq 1..made'
        /\ uploadDialog' \in [open : BOOLEAN, album : 0..made'] /\ started' \in 0..MaxJobs
        /\ assets' \subseteq 1..made' /\ left' \subseteq 1..made' /\ covered' \subseteq 1..made'
    BY <1>2, <1>3, <2>1 DEF StoresTyped
  <2> QED
    BY <1>3, <1>8, <1>10, <1>11, <2>1, <2>2 DEF StoresTyped
<1>19. FilesKnown'
  <2>1. \A m : Busy(m) => m = m0 \/ Busy(m)'
    BY <1>1, <1>8 DEF Busy
  <2>2. \A m \in 1..made' : Named(m) \/ m = m0 => m \in assets' \union Risked'
    <3> TAKE m \in 1..made'
    <3> HAVE Named(m) \/ m = m0
    <3>1. m \in 1..made
      BY <1>2, <1>6, NewFile DEF NoMedia
    <3> QED
      BY <1>3, <1>6, <1>11, <3>1 DEF ShowcaseInv, FilesKnown
  <2>3. \A m \in assets' : m \in left \union covered \/ Named(m)' \/ Busy(m)'
    BY <1>3, <1>9, <2>1 DEF ShowcaseInv, FilesKnown
  <2>4. PicturesAreFiledOnce'
    <3>1. \A q \in DOMAIN pictures : pictures[q].media # m0
      BY <1>6 DEF Named, mediaStillReferenced
    <3>2. \A q, r \in DOMAIN pictures' : pictures'[q].media = pictures'[r].media => q = r
      BY <1>10, <3>1 DEF ShowcaseInv, FilesKnown, PicturesAreFiledOnce
    <3>3. \A q \in DOMAIN pictures' \ DOMAIN crossed' : pictures'[q].album \in DOMAIN albums'
      BY <1>3, <1>6, <1>10, <1>11 DEF ShowcaseInv, FilesKnown, PicturesAreFiledOnce
    <3> QED
      BY <3>2, <3>3 DEF PicturesAreFiledOnce
  <2> QED
    BY <1>3, <1>9, <2>2, <2>3, <2>4 DEF ShowcaseInv, FilesKnown
<1>20. AlbumsAreContiguous'
  <2>1. \A u \in Surfaces : job'[u].verb = job[u].verb /\ job'[u].album = job[u].album
    BY <1>3, <1>7, <1>8
  <2>2. \A b : InOrder(b, pictures) => InOrder(b, pictures')
    BY <1>1, <1>2, <1>3, <1>6, FiledInOrder
  <2> QED
    BY <1>3, <2>1, <2>2 DEF ShowcaseInv, AlbumsAreContiguous, InOrder
<1> QED
  BY <1>17, <1>18, <1>19, <1>20 DEF ShowcaseInv

\* A job goes on, and the stores stay.
LEMMA OnlyTask ==
  ASSUME ShowcaseInv, NEW s \in Surfaces, NEW x \in Jobs, job' = [job EXCEPT ![s] = x], JobKnown(s)',
         UNCHANGED <<albums, pictures, assets, catalogue, uploadDialog, made, started, left, covered, crossed>>,
         ItemsOf(x.todo) \subseteq ItemsOf(job[s].todo), job[s].verb = "album" => x.verb = "album" /\ x.album = job[s].album,
         \/ job[s].phase = "next" /\ x.phase = "next"
         \/ job[s].phase = "storing" /\ x.phase = "freeing" /\ x.media = job[s].media
  PROVE  ShowcaseInv'
<1>1. job[s] \in Jobs /\ job \in [Surfaces -> Jobs] /\ StoresTyped /\ JobsKnown /\ made \in Nat
  BY DEF ShowcaseInv, StoresTyped
<1>2. job'[s] = x /\ job' \in [Surfaces -> Jobs] /\ \A t \in Surfaces \ {s} : job'[t] = job[t]
  BY <1>1
<1>3. (\A m : Named(m)' <=> Named(m)) /\ Risked' = Risked
  BY DEF Named, mediaStillReferenced, Risked
<1>4. ASSUME NEW t \in Surfaces \ {s}
      PROVE  /\ job[t].phase = "storing" =>
                  /\ job[t].media \in assets' /\ ~Named(job[t].media)'
                  /\ x.phase = "freeing" => x.media # job[t].media
                  /\ \A i \in ItemsOf(x.todo) : i.media # job[t].media
             /\ job[t].phase = "freeing" /\ Named(job[t].media)' => job[t].media \in Risked'
  <2>1. JobKnown(t) /\ StoresApart(t, s)
    BY <1>1 DEF JobsKnown
  <2>2. job[t].phase = "storing" =>
          /\ job[t].media \in assets /\ ~Named(job[t].media) /\ (x.phase = "freeing" => x.media # job[t].media)
          /\ \A i \in ItemsOf(x.todo) : i.media # job[t].media
    BY <2>1 DEF JobKnown, StoresApart
  <2>3. job[t].phase = "freeing" => (Named(job[t].media) => job[t].media \in Risked)
    BY <2>1 DEF JobKnown
  <2>4. job[t].phase = "storing" => job[t].media \in assets' /\ ~Named(job[t].media)'
    BY <1>2, <1>3, <2>2
  <2>5. job[t].phase = "freeing" /\ Named(job[t].media)' => job[t].media \in Risked'
    BY <1>2, <1>3, <2>3
  <2> QED
    BY <2>2, <2>4, <2>5
<1>5. JobsKnown'
  <2>1. /\ x.phase # "storing" /\ made' \in Nat /\ made <= made'
        /\ DOMAIN catalogue \subseteq DOMAIN catalogue' /\ DOMAIN crossed \subseteq DOMAIN crossed' /\ Risked \subseteq Risked'
        /\ \A p \in DOMAIN pictures' : p \in DOMAIN pictures /\ pictures'[p].media = pictures[p].media /\ pictures'[p].album = pictures[p].album
    BY <1>1, <1>3
  <2> QED
    BY <1>1, <1>4, <2>1, OneGoesOn
<1>6. StoresTyped'
  BY <1>1, <1>2 DEF StoresTyped
<1>7. FilesKnown'
  <2>1. \A m : Busy(m) => Busy(m)'
    BY <1>2 DEF Busy
  <2>2. \A m \in assets : m \in left \union covered \/ Named(m) \/ Busy(m)'
    BY <2>1 DEF ShowcaseInv, FilesKnown
  <2> QED
    BY <1>3, <2>2 DEF ShowcaseInv, FilesKnown, PicturesAreFiledOnce
<1>8. AlbumsAreContiguous'
  BY <1>2, PicturesStill DEF ShowcaseInv
<1> QED
  BY <1>5, <1>6, <1>7, <1>8 DEF ShowcaseInv

LEMMA ImageRefused == ASSUME ShowcaseInv, NEW s \in Surfaces, addImage(s), job[s].album \notin DOMAIN albums PROVE ShowcaseInv'
<1>1. /\ job[s].verb = "upload" /\ job[s].phase = "storing"
      /\ UNCHANGED <<albums, pictures, assets, catalogue, uploadDialog, made, started, left, covered, crossed>>
  BY DEF addImage, Stays
<1>2. job[s] \in Jobs /\ job \in [Surfaces -> Jobs] /\ StoresTyped /\ JobsKnown /\ JobKnown(s) /\ made \in Nat
  BY DEF ShowcaseInv, StoresTyped, JobsKnown
<1>3. job[s].todo # <<>> /\ job[s].media \in assets /\ ~Named(job[s].media) /\ job[s].media \in 1..made
  BY <1>1, <1>2 DEF JobKnown, StoresTyped
<1>4. PICK x : x = [job[s] EXCEPT !.phase = "freeing", !.todo = Tail(job[s].todo), !.failed = job[s].failed + 1]
  OBVIOUS
<1>5. job' = [job EXCEPT ![s] = x]
  <2>1. job' = [job EXCEPT ![s] = [[[job[s] EXCEPT !.todo = Tail(@)] EXCEPT !.failed = @ + 1] EXCEPT !.phase = "freeing", !.media = job[s].media]]
    BY <1>3 DEF addImage, releaseStagedMedia
  <2>2. x = [[[job[s] EXCEPT !.todo = Tail(@)] EXCEPT !.failed = @ + 1] EXCEPT !.phase = "freeing", !.media = job[s].media]
    BY <1>2, <1>4 DEF Jobs
  <2> QED
    BY <2>1, <2>2
<1>6. /\ x \in Jobs /\ x.verb = "upload" /\ x.phase = "freeing" /\ x.todo = Tail(job[s].todo) /\ x.album = job[s].album
      /\ x.media = job[s].media /\ x.mine = job[s].mine /\ ItemsOf(x.todo) \subseteq ItemsOf(job[s].todo)
  <2>1. Tail(job[s].todo) \in Seq(Tasks) /\ ItemsOf(Tail(job[s].todo)) \subseteq ItemsOf(job[s].todo)
    BY <1>2, <1>3, RestOfJob
  <2>2. job[s].failed + 1 \in Nat
    BY <1>2 DEF Jobs
  <2> QED
    BY <1>1, <1>2, <1>4, <2>1, <2>2 DEF Jobs, Phases
<1>7. job'[s] = x
  BY <1>2, <1>5
<1>8. (\A m : Named(m)' <=> Named(m)) /\ Risked' = Risked
  BY <1>1 DEF Named, mediaStillReferenced, Risked
<1>9. JobKnown(s)'
  <2>1. x.media # NoMedia /\ ~Named(x.media)' /\ x.media <= made'
    BY <1>1, <1>2, <1>3, <1>6, <1>8 DEF NoMedia
  <2> QED
    BY <1>1, <1>2, <1>3, <1>6, <1>7, <2>1, TaskKnown
<1> QED
  BY <1>1, <1>5, <1>6, <1>9, OnlyTask

-----------------------------------------------------------------------------
(* The order of an album.                                                  *)

PicturesUpTo(n) == [album : 1..n, media : 1..n, order : Nat]

\* The pictures of an album by order, then by age.
LEMMA PlacesFill ==
  ASSUME NEW n \in Nat, NEW ps, ps \in [DOMAIN ps -> PicturesUpTo(n)], DOMAIN ps \subseteq 1..n, NEW a
  PROVE  LET S == PicturesOf(a, ps)
         IN  /\ Cardinality(S) \in Nat
             /\ \A p \in S : Place(p, ps) \in 0..(Cardinality(S) - 1)
             /\ \A p, q \in S : Place(p, ps) = Place(q, ps) => p = q
             /\ \A k \in 0..(Cardinality(S) - 1) : \E p \in S : Place(p, ps) = k
<1> DEFINE S == PicturesOf(a, ps)
           R == {pair \in S \X S : Before(pair[1], pair[2], ps)}
<1>1. S \subseteq DOMAIN ps /\ S \subseteq 1..n /\ \A p \in S : ps[p].album = a /\ ps[p].order \in Nat /\ p \in Nat
  BY DEF PicturesOf, PicturesUpTo
<1>2. IsFiniteSet(S)
  <2>1. IsFiniteSet(1..n)
    BY FS_Interval
  <2> QED
    BY <1>1, <2>1, FS_Subset
<1> HIDE DEF S
<1>3. \A p, q \in S : <<q, p>> \in R <=> Before(q, p, ps)
  OBVIOUS
<1> HIDE DEF R
<1>4. \A p \in S : <<p, p>> \notin R
  BY <1>1, <1>3 DEF Before
<1>5. \A p, q, r \in S : <<p, q>> \in R /\ <<q, r>> \in R => <<p, r>> \in R
  BY <1>1, <1>3 DEF Before
<1>6. \A p, q \in S : p # q => <<p, q>> \in R \/ <<q, p>> \in R
  BY <1>1, <1>3 DEF Before
<1>7. \A p \in S : RankIn(S, R, p) = Place(p, ps)
  <2> TAKE p \in S
  <2>1. PicturesOf(ps[p].album, ps) = S
    BY <1>1 DEF S
  <2>2. {q \in S : <<q, p>> \in R} = {q \in S : Before(q, p, ps)}
    BY <1>3
  <2> QED
    BY <2>1, <2>2 DEF RankIn, Place
<1>8. /\ Cardinality(S) \in Nat
      /\ \A p \in S : RankIn(S, R, p) \in 0..(Cardinality(S) - 1)
      /\ \A p, q \in S : RankIn(S, R, p) = RankIn(S, R, q) => p = q
      /\ \A k \in 0..(Cardinality(S) - 1) : \E p \in S : RankIn(S, R, p) = k
  BY <1>2, <1>4, <1>5, <1>6, RanksFill
<1>9. /\ Cardinality(S) \in Nat
      /\ \A p \in S : Place(p, ps) \in 0..(Cardinality(S) - 1)
      /\ \A p, q \in S : Place(p, ps) = Place(q, ps) => p = q
      /\ \A k \in 0..(Cardinality(S) - 1) : \E p \in S : Place(p, ps) = k
  BY <1>7, <1>8
<1> QED
  BY <1>9 DEF S

\* The store d is ps without the picture p, every album that was in order and its own in order.
LeavesOut(p, ps, d, n) ==
  /\ DOMAIN d = DOMAIN ps \ {p} /\ d \in [DOMAIN d -> PicturesUpTo(n)]
  /\ \A q \in DOMAIN d : d[q].media = ps[q].media /\ d[q].album = ps[q].album
  /\ \A b : InOrder(b, ps) \/ b = ps[p].album => InOrder(b, d)

LEMMA DetachedRows ==
  ASSUME NEW n \in Nat, NEW ps, ps \in [DOMAIN ps -> PicturesUpTo(n)], DOMAIN ps \subseteq 1..n,
         NEW p \in DOMAIN ps, NEW d, d = Detached(p, ps)
  PROVE  LeavesOut(p, ps, d, n)
<1> DEFINE a == ps[p].album
           rs == Restrict(ps, DOMAIN ps \ {p})
<1>1. DOMAIN rs = DOMAIN ps \ {p} /\ rs \in [DOMAIN rs -> PicturesUpTo(n)] /\ \A q \in DOMAIN rs : rs[q] = ps[q]
  BY DEF Restrict
<1>2. d = Contiguous(a, rs)
  BY DEF Detached
<1> HIDE DEF rs, a
<1>3. d = [q \in DOMAIN rs |-> IF rs[q].album = a THEN [rs[q] EXCEPT !.order = Place(q, rs)] ELSE rs[q]]
  BY <1>2 DEF Contiguous
<1>4. LET S == PicturesOf(a, rs)
      IN  /\ Cardinality(S) \in Nat
          /\ \A q \in S : Place(q, rs) \in 0..(Cardinality(S) - 1)
          /\ \A k \in 0..(Cardinality(S) - 1) : \E q \in S : Place(q, rs) = k
  <2>1. DOMAIN rs \subseteq 1..n
    BY <1>1
  <2> QED
    BY <1>1, <2>1, PlacesFill
<1>5. \A q \in DOMAIN rs : rs[q].album = a => q \in PicturesOf(a, rs) /\ Place(q, rs) \in Nat
  BY <1>4 DEF PicturesOf
<1>6. DOMAIN d = DOMAIN rs
  BY <1>3
<1>7. \A q \in DOMAIN rs : /\ rs[q] \in PicturesUpTo(n) /\ d[q] \in PicturesUpTo(n) /\ d[q].media = rs[q].media /\ d[q].album = rs[q].album
                           /\ rs[q].album = a => d[q].order = Place(q, rs)
                           /\ rs[q].album # a => d[q] = rs[q]
  <2> TAKE q \in DOMAIN rs
  <2>1. rs[q] \in PicturesUpTo(n)
    BY <1>1
  <2>2. CASE rs[q].album = a
    <3>1. d[q] = [rs[q] EXCEPT !.order = Place(q, rs)] /\ Place(q, rs) \in Nat
      BY <1>3, <1>5, <2>2
    <3> QED
      BY <2>1, <2>2, <3>1 DEF PicturesUpTo
  <2>3. CASE rs[q].album # a
    BY <1>3, <2>1, <2>3
  <2> QED
    BY <2>2, <2>3
<1>8. d \in [DOMAIN d -> PicturesUpTo(n)]
  BY <1>3, <1>6, <1>7
<1>9. InOrder(a, d)
  <2>1. PicturesOf(a, d) = PicturesOf(a, rs)
    BY <1>6, <1>7 DEF PicturesOf
  <2>2. \A q \in PicturesOf(a, rs) : d[q].order = Place(q, rs)
    BY <1>7 DEF PicturesOf
  <2>3. {d[q].order : q \in PicturesOf(a, rs)} = 0..(Cardinality(PicturesOf(a, rs)) - 1)
    BY <1>4, <2>2
  <2> QED
    BY <2>1, <2>3 DEF InOrder
<1>10. ASSUME NEW b, b # a, InOrder(b, ps) PROVE InOrder(b, d)
  <2>1. PicturesOf(b, d) = PicturesOf(b, ps)
    BY <1>1, <1>6, <1>7, <1>10 DEF PicturesOf, a
  <2>2. \A q \in PicturesOf(b, ps) : d[q].order = ps[q].order
    BY <1>1, <1>7, <1>10 DEF PicturesOf, a
  <2> QED
    BY <1>10, <2>1, <2>2 DEF InOrder
<1> QED
  BY <1>1, <1>6, <1>7, <1>8, <1>9, <1>10 DEF a, LeavesOut

-----------------------------------------------------------------------------
(* A picture is removed, and its file freed when nothing names it.         *)

LEMMA ReleaseFits ==
  ASSUME NEW j \in Jobs, NEW m \in Nat, NEW as, NEW ps, NEW c, NEW x, x = releaseUnreferencedMedia(j, m, as, ps, c),
         j.phase = "next"
  PROVE  /\ x \in Jobs /\ x.verb = j.verb /\ x.todo = j.todo /\ x.album = j.album /\ x.mine = j.mine
         /\ \/ x = j /\ (m = NoMedia \/ mediaStillReferenced(m, as, ps, c) \/ m \notin assets)
            \/ x.phase = "freeing" /\ x.media = m /\ m # NoMedia /\ ~mediaStillReferenced(m, as, ps, c)
<1>1. CASE m = NoMedia \/ mediaStillReferenced(m, as, ps, c) \/ m \notin assets
  BY <1>1 DEF releaseUnreferencedMedia
<1>2. CASE ~(m = NoMedia \/ mediaStillReferenced(m, as, ps, c) \/ m \notin assets)
  <2>1. x = [j EXCEPT !.phase = "freeing", !.media = m]
    BY <1>2 DEF releaseUnreferencedMedia
  <2> QED
    BY <1>2, <2>1 DEF Jobs, Phases
<1> QED
  BY <1>1, <1>2

LEMMA PictureRemoved ==
  ASSUME ShowcaseInv, NEW s \in Surfaces, job[s].verb \in {"delete", "album"}, job[s].phase = "next", job[s].todo # <<>>,
         NEW i, i = Head(job[s].todo),
         DOMAIN pictures' = DOMAIN pictures \ {i.id}, pictures' \in [DOMAIN pictures' -> PicturesUpTo(made)],
         \A q \in DOMAIN pictures' : pictures'[q].media = pictures[q].media /\ pictures'[q].album = pictures[q].album,
         job' = [job EXCEPT ![s] = releaseUnreferencedMedia(Done1(s), i.media, albums, pictures', catalogue)],
         UNCHANGED <<albums, assets, catalogue, uploadDialog, made, started, left, covered, crossed>>
  PROVE  /\ StoresTyped' /\ JobsKnown' /\ FilesKnown'
         /\ \A u \in Surfaces : job'[u].verb = job[u].verb /\ job'[u].album = job[u].album
<1>1. job[s] \in Jobs /\ job \in [Surfaces -> Jobs] /\ StoresTyped /\ JobsKnown /\ JobKnown(s) /\ made \in Nat
  BY DEF ShowcaseInv, StoresTyped, JobsKnown
<1>2. job[s].todo \in Seq(Tasks)
  BY <1>1 DEF Jobs
<1>3. /\ i \in ItemsOf(job[s].todo) /\ Tail(job[s].todo) \in Seq(Tasks) /\ ItemsOf(Tail(job[s].todo)) \subseteq ItemsOf(job[s].todo)
  BY <1>1, RestOfJob
<1>4. i \in Tasks /\ i.media \in Nat /\ i.media <= made
  <2>1. i \in Tasks
    BY <1>2, <1>3, ListOf
  <2> QED
    BY <1>1, <1>3, <2>1 DEF Tasks, JobKnown
<1>5. PICK j : j = Done1(s)
  OBVIOUS
<1>6. /\ j \in Jobs /\ j.verb = job[s].verb /\ j.phase = "next" /\ j.todo = Tail(job[s].todo) /\ j.album = job[s].album
      /\ j.media = job[s].media /\ j.mine = job[s].mine
  <2>1. job[s].written + 1 \in Nat
    BY <1>1 DEF Jobs
  <2>2. j = [job[s] EXCEPT !.todo = Tail(job[s].todo), !.written = job[s].written + 1]
    BY <1>1, <1>5 DEF Done1, Jobs
  <2> QED
    BY <1>1, <1>3, <2>1, <2>2 DEF Jobs
<1>7. PICK x : x = releaseUnreferencedMedia(j, i.media, albums, pictures', catalogue)
  OBVIOUS
<1>8. job' = [job EXCEPT ![s] = x]
  BY <1>5, <1>7
<1>9. /\ x \in Jobs /\ x.verb = job[s].verb /\ x.todo = Tail(job[s].todo) /\ x.album = job[s].album /\ x.mine = job[s].mine
      /\ \/ x = j /\ (i.media = NoMedia \/ Named(i.media)' \/ i.media \notin assets)
         \/ x.phase = "freeing" /\ x.media = i.media /\ i.media # NoMedia /\ ~Named(i.media)'
  BY <1>4, <1>6, <1>7, ReleaseFits DEF Named
<1>10. job'[s] = x /\ job' \in [Surfaces -> Jobs] /\ \A t \in Surfaces \ {s} : job'[t] = job[t]
  BY <1>1, <1>8, <1>9
<1>11. i.id \in DOMAIN pictures => pictures[i.id].media = i.media
  BY <1>1, <1>3 DEF JobKnown
<1>12. /\ \A m : Named(m)' => Named(m)
       /\ \A m : Named(m) => Named(m)' \/ m = i.media
       /\ Risked' = Risked
  <2>1. \A m : (\E p \in DOMAIN pictures' : pictures'[p].media = m) => \E p \in DOMAIN pictures : pictures[p].media = m
    OBVIOUS
  <2>2. \A m : (\E p \in DOMAIN pictures : pictures[p].media = m) => m = i.media \/ \E p \in DOMAIN pictures' : pictures'[p].media = m
    BY <1>11
  <2>3. \A m : (\E a \in DOMAIN albums' : albums'[a] = m) <=> \E a \in DOMAIN albums : albums[a] = m
    OBVIOUS
  <2>4. \A m : (\E r \in DOMAIN catalogue' : catalogue'[r] = m) <=> \E r \in DOMAIN catalogue : catalogue[r] = m
    OBVIOUS
  <2>5. \A m : Named(m)' => Named(m)
    BY <2>1, <2>3, <2>4 DEF Named, mediaStillReferenced
  <2>6. \A m : Named(m) => Named(m)' \/ m = i.media
    BY <2>2, <2>3, <2>4 DEF Named, mediaStillReferenced
  <2> QED
    BY <2>5, <2>6 DEF Risked
<1>13. JobKnown(s)'
  <2>1. x.media <= made'
    BY <1>1, <1>4, <1>6, <1>9 DEF JobKnown
  <2>2. x.phase # "storing" /\ (x.phase = "freeing" => x.media # NoMedia /\ ~Named(x.media)')
    BY <1>6, <1>9
  <2>3. \A p \in DOMAIN pictures' :
           p \in DOMAIN pictures /\ p # i.id /\ pictures'[p].media = pictures[p].media /\ pictures'[p].album = pictures[p].album
    OBVIOUS
  <2> QED
    BY <1>1, <1>9, <1>10, <2>1, <2>2, <2>3, TaskKnown
<1>14. ASSUME NEW t \in Surfaces \ {s}
       PROVE  /\ job[t].phase = "storing" =>
                   /\ job[t].media \in assets' /\ ~Named(job[t].media)'
                   /\ x.phase = "freeing" => x.media # job[t].media
                   /\ \A k \in ItemsOf(x.todo) : k.media # job[t].media
              /\ job[t].phase = "freeing" /\ Named(job[t].media)' => job[t].media \in Risked'
  <2>1. JobKnown(t) /\ StoresApart(t, s)
    BY <1>1 DEF JobsKnown
  <2>2. job[t].phase = "storing" =>
          /\ job[t].media \in assets /\ ~Named(job[t].media) /\ i.media # job[t].media
          /\ \A k \in ItemsOf(x.todo) : k.media # job[t].media
    BY <1>3, <1>9, <2>1 DEF JobKnown, StoresApart
  <2>3. job[t].phase = "freeing" => (Named(job[t].media) => job[t].media \in Risked)
    BY <2>1 DEF JobKnown
  <2>4. job[t].phase = "storing" => job[t].media \in assets' /\ ~Named(job[t].media)'
    BY <1>10, <1>12, <2>2
  <2>5. job[t].phase = "freeing" /\ Named(job[t].media)' => job[t].media \in Risked'
    BY <1>10, <1>12, <2>3
  <2>6. x.phase = "freeing" => x.media = i.media
    BY <1>6, <1>9
  <2> QED
    BY <2>2, <2>4, <2>5, <2>6
<1>15. JobsKnown'
  <2>1. /\ x.phase # "storing" /\ made' \in Nat /\ made <= made'
        /\ DOMAIN catalogue \subseteq DOMAIN catalogue' /\ DOMAIN crossed \subseteq DOMAIN crossed' /\ Risked \subseteq Risked'
        /\ \A p \in DOMAIN pictures' : p \in DOMAIN pictures /\ pictures'[p].media = pictures[p].media /\ pictures'[p].album = pictures[p].album
    BY <1>1, <1>6, <1>9, <1>12
  <2>2. JobKnown(s)' /\ job' = [job EXCEPT ![s] = x] /\ StoresTyped /\ JobsKnown
    BY <1>1, <1>8, <1>13
  <2>3. \A t \in Surfaces \ {s} :
           /\ job[t].phase = "storing" =>
                /\ job[t].media \in assets' /\ ~Named(job[t].media)'
                /\ x.phase = "freeing" => x.media # job[t].media
                /\ \A k \in ItemsOf(x.todo) : k.media # job[t].media
           /\ job[t].phase = "freeing" /\ Named(job[t].media)' => job[t].media \in Risked'
    BY <1>14
  <2> QED
    BY <2>1, <2>2, <2>3, OneGoesOn
<1>16. StoresTyped'
  <2>1. DOMAIN pictures' \subseteq 1..made
    BY <1>1 DEF StoresTyped
  <2> QED
    BY <1>1, <1>10, <2>1 DEF StoresTyped, PicturesUpTo
<1>17. FilesKnown'
  <2>1. \A m : Busy(m) => Busy(m)'
    BY <1>10 DEF Busy
  <2>2. \A m \in assets : m \in left \union covered \/ Named(m)' \/ Busy(m)'
    <3>1. 0 \notin assets
      BY <1>1 DEF StoresTyped
    <3>2. i.media \in assets => Named(i.media)' \/ Busy(i.media)'
      <4>1. x.phase = "freeing" => Busy(x.media)'
        BY <1>10 DEF Busy
      <4> QED
        BY <1>9, <3>1, <4>1 DEF NoMedia
    <3> QED
      BY <1>12, <2>1, <3>2 DEF ShowcaseInv, FilesKnown
  <2>3. PicturesAreFiledOnce'
    BY DEF ShowcaseInv, FilesKnown, PicturesAreFiledOnce
  <2> QED
    BY <1>12, <2>2, <2>3 DEF ShowcaseInv, FilesKnown
<1> QED
  BY <1>9, <1>10, <1>15, <1>16, <1>17

\* A listed picture is passed over.
LEMMA ItemPassed ==
  ASSUME ShowcaseInv, NEW s \in Surfaces, job[s].verb \in {"delete", "move"}, job[s].phase = "next", job[s].todo # <<>>,
         job' = [job EXCEPT ![s].todo = Tail(@)] \/ job' = [job EXCEPT ![s] = Failed1(s)],
         UNCHANGED <<albums, pictures, assets, catalogue, uploadDialog, made, started, left, covered, crossed>>
  PROVE  ShowcaseInv'
<1>1. job[s] \in Jobs /\ job \in [Surfaces -> Jobs] /\ StoresTyped /\ JobsKnown /\ JobKnown(s) /\ made \in Nat
  BY DEF ShowcaseInv, StoresTyped, JobsKnown
<1>2. Tail(job[s].todo) \in Seq(Tasks) /\ ItemsOf(Tail(job[s].todo)) \subseteq ItemsOf(job[s].todo)
  BY <1>1, RestOfJob
<1>3. PICK x : /\ x = [job[s] EXCEPT !.todo = Tail(job[s].todo)] \/ x = [job[s] EXCEPT !.todo = Tail(job[s].todo), !.failed = job[s].failed + 1]
               /\ job' = [job EXCEPT ![s] = x]
  <2>1. [job EXCEPT ![s].todo = Tail(@)] = [job EXCEPT ![s] = [job[s] EXCEPT !.todo = Tail(job[s].todo)]]
    BY <1>1
  <2>2. Failed1(s) = [job[s] EXCEPT !.todo = Tail(job[s].todo), !.failed = job[s].failed + 1]
    BY <1>1 DEF Failed1, Jobs
  <2> QED
    BY <2>1, <2>2
<1>4. /\ x \in Jobs /\ x.verb = job[s].verb /\ x.phase = "next" /\ x.todo = Tail(job[s].todo) /\ x.album = job[s].album
      /\ x.media = job[s].media /\ x.mine = job[s].mine
  <2>1. job[s].failed + 1 \in Nat
    BY <1>1 DEF Jobs
  <2> QED
    BY <1>1, <1>2, <1>3, <2>1 DEF Jobs
<1>5. job'[s] = x
  BY <1>1, <1>3
<1>6. JobKnown(s)'
  <2>1. x.media <= made'
    BY <1>1, <1>4 DEF JobKnown
  <2> QED
    BY <1>1, <1>4, <1>5, <2>1, TaskKnown
<1> QED
  BY <1>2, <1>3, <1>4, <1>6, OnlyTask

LEMMA ImageRemoved == ASSUME ShowcaseInv, NEW s \in Surfaces, removeImage(s) PROVE ShowcaseInv'
<1>1. PICK i : i = Head(job[s].todo)
  OBVIOUS
<1>2. /\ job[s].verb = "delete" /\ job[s].phase = "next" /\ job[s].todo # <<>>
      /\ UNCHANGED <<albums, assets, catalogue, uploadDialog, made, started, left, covered, crossed>>
  BY DEF removeImage, Next1, Stays
<1>3. CASE i.id \notin DOMAIN pictures
  <2>1. job' = [job EXCEPT ![s] = Failed1(s)] /\ UNCHANGED pictures
    BY <1>1, <1>3 DEF removeImage
  <2> QED
    BY <1>2, <2>1, ItemPassed
<1>4. CASE i.id \in DOMAIN pictures
  <2>1. /\ pictures' = Detached(i.id, pictures)
        /\ job' = [job EXCEPT ![s] = releaseUnreferencedMedia(Done1(s), i.media, albums, pictures', catalogue)]
    BY <1>1, <1>4 DEF removeImage
  <2>2. made \in Nat /\ pictures \in [DOMAIN pictures -> PicturesUpTo(made)] /\ DOMAIN pictures \subseteq 1..made
    BY DEF ShowcaseInv, StoresTyped, PicturesUpTo
  <2>3. PICK d : d = pictures'
    OBVIOUS
  <2>4. /\ DOMAIN d = DOMAIN pictures \ {i.id} /\ d \in [DOMAIN d -> PicturesUpTo(made)]
        /\ \A q \in DOMAIN d : d[q].media = pictures[q].media /\ d[q].album = pictures[q].album
        /\ \A b : InOrder(b, pictures) \/ b = pictures[i.id].album => InOrder(b, d)
    <3>1. PICK p, ps : p = i.id /\ ps = pictures
      OBVIOUS
    <3>2. p \in DOMAIN ps /\ d = Detached(p, ps) /\ made \in Nat /\ ps \in [DOMAIN ps -> PicturesUpTo(made)] /\ DOMAIN ps \subseteq 1..made
      BY <1>4, <2>1, <2>2, <2>3, <3>1
    <3>3. LeavesOut(p, ps, d, made)
      BY <3>2, DetachedRows
    <3> QED
      BY <3>1, <3>3 DEF LeavesOut
  <2>5. /\ StoresTyped' /\ JobsKnown' /\ FilesKnown'
        /\ \A u \in Surfaces : job'[u].verb = job[u].verb /\ job'[u].album = job[u].album
    <3>1. /\ DOMAIN pictures' = DOMAIN pictures \ {i.id} /\ pictures' \in [DOMAIN pictures' -> PicturesUpTo(made)]
          /\ \A q \in DOMAIN pictures' : pictures'[q].media = pictures[q].media /\ pictures'[q].album = pictures[q].album
      BY <2>3, <2>4
    <3> QED
      BY <1>1, <1>2, <2>1, <3>1, PictureRemoved
  <2>6. AlbumsAreContiguous'
    BY <1>2, <2>3, <2>4, <2>5 DEF ShowcaseInv, AlbumsAreContiguous, InOrder
  <2> QED
    BY <2>5, <2>6 DEF ShowcaseInv
<1> QED
  BY <1>3, <1>4

LEMMA AlbumEmptied == ASSUME ShowcaseInv, NEW s \in Surfaces, removeOfAlbum(s) PROVE ShowcaseInv'
<1>1. PICK i : i = Head(job[s].todo)
  OBVIOUS
<1>2. /\ job[s].verb = "album" /\ job[s].phase = "next" /\ job[s].todo # <<>>
      /\ UNCHANGED <<albums, assets, catalogue, uploadDialog, made, started, left, covered, crossed>>
      /\ pictures' = Restrict(pictures, DOMAIN pictures \ {i.id})
      /\ job' = [job EXCEPT ![s] = releaseUnreferencedMedia(Done1(s), i.media, albums, pictures', catalogue)]
  BY <1>1 DEF removeOfAlbum, Next1, Stays
<1>3. made \in Nat /\ pictures \in [DOMAIN pictures -> PicturesUpTo(made)] /\ job[s] \in Jobs /\ JobKnown(s)
  BY DEF ShowcaseInv, StoresTyped, PicturesUpTo, JobsKnown
<1>4. /\ DOMAIN pictures' = DOMAIN pictures \ {i.id} /\ pictures' \in [DOMAIN pictures' -> PicturesUpTo(made)]
      /\ \A q \in DOMAIN pictures' : pictures'[q] = pictures[q]
  BY <1>2, <1>3 DEF Restrict
<1>5. /\ StoresTyped' /\ JobsKnown' /\ FilesKnown'
      /\ \A u \in Surfaces : job'[u].verb = job[u].verb /\ job'[u].album = job[u].album
  BY <1>1, <1>2, <1>4, PictureRemoved
<1>6. i.id \in DOMAIN pictures => pictures[i.id].album = job[s].album
  <2>1. i \in ItemsOf(job[s].todo)
    BY <1>1, <1>2, <1>3, RestOfJob
  <2> QED
    BY <1>2, <1>3, <2>1 DEF JobKnown
<1>7. AlbumsAreContiguous'
  <2>1. ASSUME NEW a, a # job[s].album, InOrder(a, pictures) PROVE InOrder(a, pictures')
    <3>1. PicturesOf(a, pictures') = PicturesOf(a, pictures)
      BY <1>4, <1>6, <2>1 DEF PicturesOf
    <3>2. \A q \in PicturesOf(a, pictures) : pictures'[q].order = pictures[q].order
      BY <1>4, <1>6, <2>1 DEF PicturesOf
    <3> QED
      BY <2>1, <3>1, <3>2 DEF InOrder
  <2> QED
    <3> SUFFICES ASSUME NEW a \in DOMAIN albums, \A u \in Surfaces : job'[u].verb # "album" \/ job'[u].album # a
                 PROVE  InOrder(a, pictures')
      BY <1>2 DEF AlbumsAreContiguous, InOrder
    <3>1. a # job[s].album /\ \A u \in Surfaces : job[u].verb # "album" \/ job[u].album # a
      BY <1>2, <1>5
    <3>2. InOrder(a, pictures)
      BY <3>1 DEF ShowcaseInv, AlbumsAreContiguous, InOrder
    <3> QED
      BY <2>1, <3>1, <3>2
<1> QED
  BY <1>5, <1>7 DEF ShowcaseInv

LEMMA AlbumGone == ASSUME ShowcaseInv, NEW s \in Surfaces, albumRemoved(s) PROVE ShowcaseInv'
<1>1. PICK a : a = job[s].album
  OBVIOUS
<1>2. /\ job[s].verb = "album" /\ job[s].phase = "next" /\ job[s].todo = <<>>
      /\ albums' = Restrict(albums, DOMAIN albums \ {a}) /\ job' = [job EXCEPT ![s] = Resting]
      /\ UNCHANGED <<pictures, assets, catalogue, uploadDialog, made, started, left, covered, crossed>>
  BY <1>1 DEF albumRemoved
<1>3. job[s] \in Jobs /\ job \in [Surfaces -> Jobs] /\ StoresTyped /\ JobsKnown /\ JobKnown(s) /\ made \in Nat
  BY DEF ShowcaseInv, StoresTyped, JobsKnown
<1>4. job'[s] = Resting /\ job' \in [Surfaces -> Jobs] /\ \A t \in Surfaces \ {s} : job'[t] = job[t]
  BY <1>2, <1>3, RestingFits
<1>5. DOMAIN albums' = DOMAIN albums \ {a} /\ \A b \in DOMAIN albums' : albums'[b] = albums[b]
  BY <1>2 DEF Restrict
<1>6. /\ \A m : Named(m)' => Named(m)
      /\ \A m : Named(m) => Named(m)' \/ \E b \in DOMAIN albums : albums[b] = m
      /\ Risked' = Risked
  <2>1. \A m : (\E b \in DOMAIN albums' : albums'[b] = m) => \E b \in DOMAIN albums : albums[b] = m
    BY <1>5
  <2> QED
    BY <1>2, <2>1 DEF Named, mediaStillReferenced, Risked
<1>7. JobKnown(s)'
  BY <1>2, <1>3, <1>4, RestKnown
<1>8. ASSUME NEW t \in Surfaces \ {s}
      PROVE  /\ job[t].phase = "storing" => job[t].media \in assets' /\ ~Named(job[t].media)'
             /\ job[t].phase = "freeing" /\ Named(job[t].media)' => job[t].media \in Risked'
  <2>1. JobKnown(t)
    BY <1>3 DEF JobsKnown
  <2>2. job[t].phase = "storing" => job[t].media \in assets /\ ~Named(job[t].media)
    BY <2>1 DEF JobKnown
  <2>3. job[t].phase = "freeing" => (Named(job[t].media) => job[t].media \in Risked)
    BY <2>1 DEF JobKnown
  <2> QED
    BY <1>2, <1>4, <1>6, <2>2, <2>3
<1>9. JobsKnown'
  <2>1. /\ made' \in Nat /\ made <= made'
        /\ DOMAIN catalogue \subseteq DOMAIN catalogue' /\ DOMAIN crossed \subseteq DOMAIN crossed' /\ Risked \subseteq Risked'
        /\ \A p \in DOMAIN pictures' : p \in DOMAIN pictures /\ pictures'[p].media = pictures[p].media /\ pictures'[p].album = pictures[p].album
    BY <1>2, <1>3, <1>6
  <2>2. PICK x : x = Resting
    OBVIOUS
  <2>3. x.phase # "storing" /\ x.phase # "freeing" /\ ItemsOf(x.todo) = {} /\ job' = [job EXCEPT ![s] = x]
    BY <1>2, <2>2, RestingFits
  <2> QED
    BY <1>3, <1>7, <1>8, <2>1, <2>3, OneGoesOn
<1>10. StoresTyped'
  <2>1. albums' \in [DOMAIN albums' -> 0..made'] /\ DOMAIN albums' \subseteq 1..made'
    BY <1>2, <1>3 DEF StoresTyped, Restrict
  <2> QED
    BY <1>2, <1>3, <1>4, <2>1 DEF StoresTyped
<1>11. FilesKnown'
  <2>1. \A m : Busy(m) => Busy(m)'
    BY <1>2, <1>4 DEF Busy
  <2>2. \A m \in assets : m \in left \union covered \/ Named(m)' \/ Busy(m)'
    <3>1. 0 \notin assets
      BY <1>3 DEF StoresTyped
    <3>2. \A b \in DOMAIN albums : albums[b] \in assets => albums[b] \in covered
      BY <3>1 DEF ShowcaseInv, FilesKnown, NoMedia
    <3> QED
      BY <1>6, <2>1, <3>2 DEF ShowcaseInv, FilesKnown
  <2>3. PicturesAreFiledOnce'
    <3>1. ItemsOf(job[s].todo) = {}
      BY <1>2 DEF ItemsOf
    <3>2. \A p \in DOMAIN pictures \ DOMAIN crossed : pictures[p].album # a
      BY <1>1, <1>2, <1>3, <3>1 DEF JobKnown
    <3> QED
      BY <1>2, <1>5, <3>2 DEF ShowcaseInv, FilesKnown, PicturesAreFiledOnce
  <2>4. \A b \in DOMAIN albums' : albums'[b] \in covered \union {NoMedia}
    BY <1>5 DEF ShowcaseInv, FilesKnown
  <2> QED
    BY <1>2, <1>6, <2>2, <2>3, <2>4 DEF ShowcaseInv, FilesKnown
<1>12. AlbumsAreContiguous'
  BY <1>1, <1>2, <1>4, <1>5, PicturesStill DEF ShowcaseInv
<1> QED
  BY <1>9, <1>10, <1>11, <1>12 DEF ShowcaseInv

-----------------------------------------------------------------------------
(* The library.                                                            *)

\* The job of the library after its row: it frees a file that nothing names, or has nothing to do.
LEMMA SaveKnown ==
  ASSUME NEW x \in Jobs, job'["library"] = x, x.verb = "save", x.album = 0, x.mine = 0, ItemsOf(x.todo) = {},
         made' \in Nat, x.media <= made',
         x.phase = "next" \/ (x.phase = "freeing" /\ x.media # NoMedia /\ ~Named(x.media)')
  PROVE  JobKnown("library")'
<1>1. "library" \in Surfaces
  BY DEF Surfaces
<1> QED
  BY <1>1, Knows

LEMMA SaveRefused == ASSUME ShowcaseInv, saveRefused PROVE ShowcaseInv'
<1>1. PICK s : s = "library"
  OBVIOUS
<1>2. /\ s \in Surfaces /\ job[s].verb = "save" /\ job[s].phase = "storing"
      /\ UNCHANGED <<albums, pictures, assets, catalogue, uploadDialog, made, started, left, covered, crossed>>
  BY <1>1 DEF saveRefused, Stays, Surfaces
<1>3. job[s] \in Jobs /\ job \in [Surfaces -> Jobs] /\ StoresTyped /\ JobsKnown /\ JobKnown(s) /\ made \in Nat
  BY <1>2 DEF ShowcaseInv, StoresTyped, JobsKnown
<1>4. PICK m : m = job[s].media
  OBVIOUS
<1>5. m \in assets /\ ~Named(m) /\ m \in 1..made /\ m \in Nat
  BY <1>2, <1>3, <1>4 DEF JobKnown, StoresTyped
<1>6. PICK x : x = [Resting EXCEPT !.verb = "save", !.phase = "freeing", !.media = m]
  OBVIOUS
<1>7. job' = [job EXCEPT ![s] = x]
  <2>1. job' = [job EXCEPT ![s] = [[Resting EXCEPT !.verb = "save"] EXCEPT !.phase = "freeing", !.media = m]]
    BY <1>1, <1>4, <1>5 DEF saveRefused, releaseStagedMedia
  <2>2. [[Resting EXCEPT !.verb = "save"] EXCEPT !.phase = "freeing", !.media = m] = x
    BY <1>6, RestingFits DEF Jobs
  <2> QED
    BY <2>1, <2>2
<1>8. x \in Jobs /\ x.verb = "save" /\ x.phase = "freeing" /\ x.todo = <<>> /\ x.album = 0 /\ x.media = m /\ x.mine = 0
      /\ ItemsOf(x.todo) = {}
  BY <1>5, <1>6, RestingFits DEF Jobs, Verbs, Phases
<1>9. JobKnown(s)'
  <2>1. job'[s] = x
    BY <1>2, <1>3, <1>7
  <2>2. x.media # NoMedia /\ ~Named(x.media)' /\ x.media <= made' /\ made' \in Nat
    BY <1>2, <1>3, <1>5, <1>8 DEF Named, mediaStillReferenced, NoMedia
  <2> QED
    BY <1>1, <1>8, <2>1, <2>2, SaveKnown
<1> QED
  BY <1>2, <1>4, <1>7, <1>8, <1>9, OnlyTask

\* What holds after the row is written, whatever row it is.
\* What a save leaves named: the row's new file, and not the one it named alone.
Renames(m, old) ==
  /\ \A k : Named(k)' => Named(k) \/ k = m
  /\ \A k : Named(k) \/ k = m => Named(k)' \/ k = old

LEMMA RowSaved ==
  ASSUME ShowcaseInv, NEW s, s = "library", job[s].verb = "save", job[s].phase = "storing", NEW m, m = job[s].media,
         NEW x \in Jobs, job' = [job EXCEPT ![s] = x], x.verb = "save", x.album = 0, x.mine = 0, ItemsOf(x.todo) = {},
         made' \in made..MaxIds, catalogue' \in [DOMAIN catalogue' -> 0..made'], DOMAIN catalogue' \subseteq 1..made',
         DOMAIN catalogue \subseteq DOMAIN catalogue', NEW old \in 0..made,
         Renames(m, old),
         old = NoMedia \/ Named(old),
         \/ x.phase = "next" /\ x.media = 0 /\ (old = NoMedia \/ Named(old)' \/ old \notin assets)
         \/ x.phase = "freeing" /\ x.media = old /\ old # NoMedia /\ ~Named(old)',
         UNCHANGED <<albums, pictures, assets, uploadDialog, started, left, covered, crossed>>
  PROVE  ShowcaseInv'
<1> USE DEF Renames
<1>1. s \in Surfaces /\ made' \in Nat /\ made \in Nat /\ made <= made' /\ made' <= MaxIds
  BY ShowcaseAssumption DEF ShowcaseInv, StoresTyped, Surfaces, ShowcaseAssumption
<1>2. job[s] \in Jobs /\ job \in [Surfaces -> Jobs] /\ StoresTyped /\ JobsKnown /\ JobKnown(s)
  BY <1>1 DEF ShowcaseInv, StoresTyped, JobsKnown
<1>3. m \in assets /\ ~Named(m) /\ m \in 1..made /\ Risked' = Risked
  BY <1>2 DEF JobKnown, StoresTyped, Risked
<1>4. job'[s] = x /\ job' \in [Surfaces -> Jobs] /\ \A t \in Surfaces \ {s} : job'[t] = job[t]
  BY <1>1, <1>2
<1>5. JobKnown(s)'
  <2>1. x.media <= made' /\ (x.phase = "next" \/ (x.phase = "freeing" /\ x.media # NoMedia /\ ~Named(x.media)'))
    BY <1>1
  <2> QED
    BY <1>1, <1>4, <2>1, SaveKnown
<1>6. ASSUME NEW t \in Surfaces \ {s}
      PROVE  /\ job[t].phase = "storing" =>
                  /\ job[t].media \in assets' /\ ~Named(job[t].media)'
                  /\ x.phase = "freeing" => x.media # job[t].media
             /\ job[t].phase = "freeing" /\ Named(job[t].media)' => job[t].media \in Risked'
  <2>1. JobKnown(t) /\ StoresApart(t, s) /\ StoresApart(s, t)
    BY <1>1, <1>2 DEF JobsKnown
  <2>2. job[t].phase = "storing" => job[t].media \in assets /\ ~Named(job[t].media) /\ m # job[t].media
    BY <2>1 DEF JobKnown, StoresApart
  <2>3. job[t].phase = "freeing" => m # job[t].media /\ (Named(job[t].media) => job[t].media \in Risked)
    BY <2>1 DEF JobKnown, StoresApart
  <2>4. job[t].phase = "storing" => job[t].media \in assets' /\ ~Named(job[t].media)'
    BY <1>4, <2>2
  <2>5. job[t].phase = "freeing" /\ Named(job[t].media)' => job[t].media \in Risked'
    BY <1>3, <1>4, <2>3
  <2>6. job[t].phase = "storing" /\ x.phase = "freeing" => x.media # job[t].media
    BY <2>2
  <2> QED
    BY <2>4, <2>5, <2>6
<1>7. JobsKnown'
  <2>1. /\ x.phase # "storing" /\ DOMAIN crossed \subseteq DOMAIN crossed' /\ Risked \subseteq Risked'
        /\ \A p \in DOMAIN pictures' : p \in DOMAIN pictures /\ pictures'[p].media = pictures[p].media /\ pictures'[p].album = pictures[p].album
        /\ \A t : \A i \in ItemsOf(x.todo) : i.media # job[t].media
    BY <1>3
  <2> QED
    BY <1>1, <1>2, <1>5, <1>6, <2>1, OneGoesOn
<1>8. StoresTyped'
  <2>1. 1..made \subseteq 1..made' /\ 0..made \subseteq 0..made' /\ made' \in 0..MaxIds
    BY <1>1
  <2>2. /\ albums' \in [DOMAIN albums' -> 0..made'] /\ DOMAIN albums' \subseteq 1..made'
        /\ uploadDialog' \in [open : BOOLEAN, album : 0..made'] /\ started' \in 0..MaxJobs
    BY <1>2, <2>1 DEF StoresTyped
  <2>3. /\ pictures' \in [DOMAIN pictures' -> [album : 1..made', media : 1..made', order : Nat]] /\ DOMAIN pictures' \subseteq 1..made'
        /\ assets' \subseteq 1..made' /\ left' \subseteq 1..made' /\ covered' \subseteq 1..made'
        /\ crossed' \in [DOMAIN crossed' -> 1..made'] /\ DOMAIN crossed' \subseteq 1..made'
    BY <1>2, <2>1 DEF StoresTyped
  <2> QED
    BY <1>4, <2>1, <2>2, <2>3 DEF StoresTyped
<1>9. FilesKnown'
  <2>1. \A k : Busy(k) => k = m \/ Busy(k)'
    BY <1>4 DEF Busy
  <2>2. \A k \in 1..made' : Named(k)' => k \in assets' \union Risked'
    <3> TAKE k \in 1..made'
    <3> HAVE Named(k)'
    <3>1. k \in 1..made
      BY <1>2, <1>3, NewFile DEF NoMedia
    <3> QED
      BY <1>3, <3>1 DEF ShowcaseInv, FilesKnown
  <2>3. \A k \in assets : k \in left \union covered \/ Named(k)' \/ Busy(k)'
    <3>1. 0 \notin assets
      BY <1>2 DEF StoresTyped
    <3>2. old \in assets => Named(old)' \/ Busy(old)'
      <4>1. x.phase = "freeing" => Busy(x.media)'
        BY <1>1, <1>4 DEF Busy
      <4> QED
        BY <3>1, <4>1 DEF NoMedia
    <3> QED
      BY <2>1, <3>2 DEF ShowcaseInv, FilesKnown
  <2> QED
    BY <2>2, <2>3 DEF ShowcaseInv, FilesKnown, PicturesAreFiledOnce
<1>10. AlbumsAreContiguous'
  BY <1>4, PicturesStill DEF ShowcaseInv
<1> QED
  BY <1>7, <1>8, <1>9, <1>10 DEF ShowcaseInv

LEMMA ItemSaved == ASSUME ShowcaseInv, saveItem PROVE ShowcaseInv'
<1>1. PICK s, m, r : s = "library" /\ m = job[s].media /\ r = Head(job[s].todo).id
  OBVIOUS
<1>2. /\ s \in Surfaces /\ job[s].verb = "save" /\ job[s].phase = "storing"
      /\ UNCHANGED <<albums, pictures, assets, uploadDialog, started, left, covered, crossed>>
  BY <1>1 DEF saveItem, Surfaces, galleryRows
<1>3. job[s] \in Jobs /\ job \in [Surfaces -> Jobs] /\ StoresTyped /\ JobsKnown /\ JobKnown(s) /\ made \in Nat
  BY <1>2 DEF ShowcaseInv, StoresTyped, JobsKnown
<1>4. m \in assets /\ ~Named(m) /\ m \in 1..made /\ job[s].todo # <<>>
  BY <1>1, <1>2, <1>3 DEF JobKnown, StoresTyped
<1>5. r \in DOMAIN catalogue \union {0}
  <2>1. Head(job[s].todo) \in ItemsOf(job[s].todo)
    BY <1>3, <1>4, RestOfJob
  <2> QED
    BY <1>1, <1>2, <1>3, <2>1 DEF JobKnown
<1>6. catalogue \in [DOMAIN catalogue -> 0..made] /\ DOMAIN catalogue \subseteq 1..made
  BY <1>3 DEF StoresTyped
<1>7. PICK e : e = [Resting EXCEPT !.verb = "save", !.phase = "next", !.media = 0]
  OBVIOUS
<1>8. /\ e \in Jobs /\ e.verb = "save" /\ e.phase = "next" /\ e.todo = <<>> /\ e.album = 0 /\ e.media = 0 /\ e.mine = 0
      /\ ItemsOf(e.todo) = {}
  BY <1>7, RestingFits DEF Jobs, Verbs, Phases
<1>9. e = [Resting EXCEPT !.verb = "save", !.phase = "next"]
  BY <1>7, RestingFits DEF Jobs
<1>10. CASE r = 0
  <2>1. made' = made + 1 /\ made + 1 <= MaxIds /\ catalogue' = WithRow(made', m, catalogue) /\ job' = [job EXCEPT ![s] = e]
    BY <1>1, <1>9, <1>10 DEF saveItem, Fresh
  <2>2. made' \in made..MaxIds /\ made' \in Nat
    BY <1>3, <2>1, ShowcaseAssumption DEF ShowcaseAssumption
  <2>3. catalogue' = [q \in DOMAIN catalogue \union {made'} |-> IF q = made' THEN m ELSE catalogue[q]]
    BY <2>1 DEF WithRow
  <2>4. /\ DOMAIN catalogue' = DOMAIN catalogue \union {made'} /\ made' \notin DOMAIN catalogue
        /\ catalogue'[made'] = m /\ \A q \in DOMAIN catalogue : catalogue'[q] = catalogue[q]
    <3>1. made' \notin DOMAIN catalogue
      BY <1>3, <1>6, <2>1
    <3> QED
      BY <2>3, <3>1
  <2>5. DOMAIN catalogue' \subseteq 1..made' /\ \A q \in DOMAIN catalogue' : catalogue'[q] \in 0..made'
    BY <1>3, <1>4, <1>6, <2>1, <2>4
  <2>6. catalogue' \in [DOMAIN catalogue' -> 0..made']
    BY <2>3, <2>5
  <2>7. \A k : Named(k)' <=> Named(k) \/ k = m
    <3>1. \A k : (\E q \in DOMAIN catalogue' : catalogue'[q] = k) <=> (\E q \in DOMAIN catalogue : catalogue[q] = k) \/ k = m
      BY <2>4
    <3> QED
      BY <1>2, <3>1 DEF Named, mediaStillReferenced
  <2>8. PICK old : old = 0
    OBVIOUS
  <2>9. old \in 0..made /\ old = NoMedia
    BY <1>3, <2>8 DEF NoMedia
  <2> QED
    <3>1. \A k : Named(k)' => Named(k) \/ k = m
      BY <2>7
    <3>2. \A k : Named(k) \/ k = m => Named(k)' \/ k = old
      BY <2>7
    <3>3. DOMAIN catalogue \subseteq DOMAIN catalogue'
      BY <2>4
    <3>4. Renames(m, old)
      BY <3>1, <3>2 DEF Renames
    <3> QED
      BY <1>1, <1>2, <1>8, <2>1, <2>2, <2>5, <2>6, <2>9, <3>3, <3>4, RowSaved
<1>11. CASE r # 0
  <2>1. PICK old : old = catalogue[r]
    OBVIOUS
  <2>2. r \in DOMAIN catalogue /\ old \in 0..made
    BY <1>5, <1>6, <1>11, <2>1
  <2>3. /\ catalogue' = [catalogue EXCEPT ![r] = m] /\ made' = made
        /\ job' = [job EXCEPT ![s] = releaseUnreferencedMedia(e, old, albums, pictures, catalogue')]
    BY <1>1, <1>9, <1>11, <2>1 DEF saveItem
  <2>4. DOMAIN catalogue' = DOMAIN catalogue /\ \A q \in DOMAIN catalogue : catalogue'[q] = IF q = r THEN m ELSE catalogue[q]
    BY <2>3
  <2>5. /\ \A k : Named(k)' => Named(k) \/ k = m
        /\ \A k : Named(k) \/ k = m => Named(k)' \/ k = old
        /\ Named(old)
    <3>1. /\ \A k : (\E q \in DOMAIN catalogue' : catalogue'[q] = k) => (\E q \in DOMAIN catalogue : catalogue[q] = k) \/ k = m
          /\ \A k : (\E q \in DOMAIN catalogue : catalogue[q] = k) \/ k = m => k = old \/ \E q \in DOMAIN catalogue' : catalogue'[q] = k
      BY <2>1, <2>2, <2>4
    <3> QED
      BY <1>2, <2>1, <2>2, <3>1 DEF Named, mediaStillReferenced
  <2>6. PICK x : x = releaseUnreferencedMedia(e, old, albums, pictures, catalogue')
    OBVIOUS
  <2>7. /\ x \in Jobs /\ x.verb = e.verb /\ x.todo = e.todo /\ x.album = e.album /\ x.mine = e.mine
        /\ \/ x = e /\ (old = NoMedia \/ mediaStillReferenced(old, albums, pictures, catalogue') \/ old \notin assets)
           \/ x.phase = "freeing" /\ x.media = old /\ old # NoMedia /\ ~mediaStillReferenced(old, albums, pictures, catalogue')
    <3>1. old \in Nat
      BY <1>3, <2>2
    <3>2. PICK c : c = catalogue'
      OBVIOUS
    <3> QED
      BY <1>8, <2>6, <3>1, <3>2, ReleaseFits
  <2>8. Named(old)' <=> mediaStillReferenced(old, albums, pictures, catalogue')
    BY <1>2 DEF Named, mediaStillReferenced
  <2>9. /\ x.verb = "save" /\ x.album = 0 /\ x.mine = 0 /\ ItemsOf(x.todo) = {} /\ job' = [job EXCEPT ![s] = x]
        /\ \/ x.phase = "next" /\ x.media = 0 /\ (old = NoMedia \/ Named(old)' \/ old \notin assets)
           \/ x.phase = "freeing" /\ x.media = old /\ old # NoMedia /\ ~Named(old)'
    BY <1>8, <2>3, <2>6, <2>7, <2>8
  <2>10. /\ made' \in made..MaxIds /\ catalogue' \in [DOMAIN catalogue' -> 0..made'] /\ DOMAIN catalogue' \subseteq 1..made'
         /\ DOMAIN catalogue \subseteq DOMAIN catalogue'
    <3>1. made' \in made..MaxIds
      BY <1>3, <2>3, ShowcaseAssumption DEF ShowcaseAssumption, StoresTyped
    <3>2. catalogue' \in [DOMAIN catalogue' -> 0..made']
      <4>1. m \in 0..made
        BY <1>3, <1>4
      <4>2. [catalogue EXCEPT ![r] = m] \in [DOMAIN catalogue -> 0..made]
        BY <1>6, <4>1
      <4> QED
        BY <2>3, <2>4, <4>2
    <3> QED
      BY <1>6, <2>3, <2>4, <3>1, <3>2
  <2>11. Renames(m, old)
    BY <2>5 DEF Renames
  <2>12. x \in Jobs /\ old \in 0..made /\ Named(old)
    BY <2>2, <2>5, <2>7
  <2> QED
    BY <1>1, <1>2, <2>9, <2>10, <2>11, <2>12, RowSaved
<1> QED
  BY <1>10, <1>11

-----------------------------------------------------------------------------
(* A picture is moved.                                                     *)

\* The row is filed anew and the old one, if it is still there, removed.
LEMMA ImageFiledAnew ==
  ASSUME ShowcaseInv, NEW s \in Surfaces, moveImage(s), NEW i, i = Head(job[s].todo), i.album # job[s].album,
         job[s].album \in DOMAIN albums, i.media \in assets
  PROVE  ShowcaseInv'
<1>1. PICK a, m0, p, o : a = job[s].album /\ m0 = i.media /\ p = made + 1 /\ o = i.id
  OBVIOUS
<1>2. /\ job[s].verb = "move" /\ job[s].phase = "next" /\ job[s].todo # <<>> /\ made' = p /\ p <= MaxIds
      /\ pictures' = (IF o \in DOMAIN pictures THEN Detached(o, Filed(p, a, m0, pictures)) ELSE Filed(p, a, m0, pictures))
      /\ job' = [job EXCEPT ![s] = Done1(s)] \/ job' = [job EXCEPT ![s] = Failed1(s)]
      /\ crossed' = IF Going(a, m0) THEN WithRow(p, m0, crossed) ELSE crossed
      /\ UNCHANGED <<albums, assets, catalogue, uploadDialog, started, left, covered>>
  BY <1>1 DEF moveImage, Next1, Stays, Fresh
<1>3. job[s] \in Jobs /\ job \in [Surfaces -> Jobs] /\ StoresTyped /\ JobsKnown /\ JobKnown(s) /\ made \in Nat
  BY DEF ShowcaseInv, StoresTyped, JobsKnown
<1>4. job[s].todo \in Seq(Tasks)
  BY <1>3 DEF Jobs
<1>5. /\ i \in ItemsOf(job[s].todo) /\ Tail(job[s].todo) \in Seq(Tasks) /\ ItemsOf(Tail(job[s].todo)) \subseteq ItemsOf(job[s].todo)
      /\ (\A k, l \in DOMAIN job[s].todo : k # l => job[s].todo[k].media # job[s].todo[l].media) =>
           \A k \in ItemsOf(Tail(job[s].todo)) : k.media # i.media
  BY <1>2, <1>3, RestOfJob
<1>6. /\ \A k \in ItemsOf(Tail(job[s].todo)) : k.media # m0
      /\ \A q \in DOMAIN pictures : pictures[q].media = m0 => q = o
      /\ o \in DOMAIN pictures => pictures[o].media = m0
      /\ o <= made /\ s = "batch"
  BY <1>1, <1>2, <1>3, <1>5 DEF JobKnown
<1>7. m0 \in 1..made /\ a \in 1..made /\ a \in DOMAIN albums /\ m0 \in assets /\ o \in 0..made
  <2>1. i \in Tasks
    BY <1>4, <1>5, ListOf
  <2> QED
    BY <1>1, <1>3, <1>6, <2>1 DEF StoresTyped, Tasks
<1>8. PICK d : d = pictures'
  OBVIOUS
<1>9. /\ DOMAIN d = (DOMAIN pictures \ {o}) \union {p} /\ p \notin DOMAIN pictures /\ d \in [DOMAIN d -> PicturesUpTo(p)] /\ DOMAIN d \subseteq 1..p
      /\ d[p].media = m0 /\ d[p].album = a
      /\ \A q \in DOMAIN d \ {p} : d[q].media = pictures[q].media /\ d[q].album = pictures[q].album
      /\ \A b : InOrder(b, pictures) => InOrder(b, d)
  <2>1. PICK fs : fs = Filed(p, a, m0, pictures)
    OBVIOUS
  <2>2. /\ DOMAIN fs = DOMAIN pictures \union {p} /\ p \notin DOMAIN pictures
        /\ fs \in [DOMAIN fs -> [album : 1..p, media : 1..p, order : Nat]] /\ DOMAIN fs \subseteq 1..p
        /\ fs[p] = [album |-> a, media |-> m0, order |-> Cardinality(PicturesOf(a, pictures))]
        /\ \A q \in DOMAIN pictures : fs[q] = pictures[q]
    <3>1. StoresTyped /\ p = made + 1 /\ a \in 1..made /\ m0 \in 1..made
      BY <1>1, <1>3, <1>7
    <3> QED
      BY <2>1, <3>1, FiledRows
  <2>3. \A b : InOrder(b, pictures) => InOrder(b, fs)
    BY <1>1, <1>3, <1>7, <2>1, FiledInOrder
  <2>4. fs \in [DOMAIN fs -> PicturesUpTo(p)] /\ fs[p].media = m0 /\ fs[p].album = a
    BY <2>2 DEF PicturesUpTo
  <2>5. p \in Nat /\ o # p
    BY <1>1, <1>3, <1>7
  <2>6. CASE o \notin DOMAIN pictures
    <3>1. d = fs
      BY <1>2, <1>8, <2>1, <2>6
    <3> QED
      BY <2>2, <2>3, <2>4, <2>6, <3>1
  <2>7. CASE o \in DOMAIN pictures
    <3>1. DOMAIN fs \subseteq 1..p /\ o \in DOMAIN fs /\ d = Detached(o, fs)
      BY <1>2, <1>8, <2>1, <2>2, <2>7
    <3>2. /\ DOMAIN d = DOMAIN fs \ {o} /\ d \in [DOMAIN d -> PicturesUpTo(p)]
          /\ \A q \in DOMAIN d : d[q].media = fs[q].media /\ d[q].album = fs[q].album
          /\ \A b : InOrder(b, fs) \/ b = fs[o].album => InOrder(b, d)
      <4>1. LeavesOut(o, fs, d, p)
        BY <2>4, <2>5, <3>1, DetachedRows
      <4> QED
        BY <4>1 DEF LeavesOut
    <3> QED
      BY <2>2, <2>3, <2>4, <2>5, <3>2
  <2> QED
    BY <2>6, <2>7
<1>10. PICK x : /\ x \in Jobs /\ x.verb = "move" /\ x.phase = "next" /\ x.todo = Tail(job[s].todo) /\ x.album = job[s].album
                /\ x.media = job[s].media /\ x.mine = job[s].mine /\ job' = [job EXCEPT ![s] = x]
  <2>1. job[s].failed + 1 \in Nat /\ job[s].written + 1 \in Nat
    BY <1>3 DEF Jobs
  <2>2. /\ Failed1(s) = [job[s] EXCEPT !.todo = Tail(job[s].todo), !.failed = job[s].failed + 1]
        /\ Done1(s) = [job[s] EXCEPT !.todo = Tail(job[s].todo), !.written = job[s].written + 1]
    BY <1>3 DEF Failed1, Done1, Jobs
  <2>3. \A x : x = Failed1(s) \/ x = Done1(s) =>
           /\ x \in Jobs /\ x.verb = "move" /\ x.phase = "next" /\ x.todo = Tail(job[s].todo) /\ x.album = job[s].album
           /\ x.media = job[s].media /\ x.mine = job[s].mine
    <3> TAKE x
    <3>1. CASE x = [job[s] EXCEPT !.todo = Tail(job[s].todo), !.failed = job[s].failed + 1]
      BY <1>2, <1>3, <1>5, <2>1, <3>1 DEF Jobs
    <3>2. CASE x = [job[s] EXCEPT !.todo = Tail(job[s].todo), !.written = job[s].written + 1]
      BY <1>2, <1>3, <1>5, <2>1, <3>2 DEF Jobs
    <3> QED
      BY <2>2, <3>1, <3>2
  <2> QED
    BY <1>2, <2>3
<1>11. job'[s] = x /\ job' \in [Surfaces -> Jobs] /\ \A t \in Surfaces \ {s} : job'[t] = job[t]
  BY <1>3, <1>10
<1>12. \A m : Named(m)' <=> Named(m) \/ m = m0
  <2>1. \A m : (\E q \in DOMAIN pictures' : pictures'[q].media = m) <=> (\E q \in DOMAIN pictures : pictures[q].media = m) \/ m = m0
    BY <1>6, <1>8, <1>9
  <2> QED
    BY <1>2, <2>1 DEF Named, mediaStillReferenced
<1>13. /\ crossed' \in [DOMAIN crossed' -> 1..p] /\ DOMAIN crossed' \subseteq 1..p /\ DOMAIN crossed \subseteq DOMAIN crossed'
       /\ Risked \subseteq Risked'
       /\ Going(a, m0) => p \in DOMAIN crossed' /\ m0 \in Risked'
  BY <1>1, <1>2, <1>3, <1>7, CrossedGrows
<1>14. p > made /\ made' \in Nat /\ made <= made'
  BY <1>1, <1>2, <1>3
<1>15. JobKnown(s)'
  <2>1. \A q \in DOMAIN pictures' :
           \/ q \in DOMAIN pictures /\ pictures'[q].media = pictures[q].media /\ pictures'[q].album = pictures[q].album
           \/ q > made /\ (x.verb = "move" => \A k \in ItemsOf(x.todo) : k.media # pictures'[q].media)
    BY <1>6, <1>8, <1>9, <1>10, <1>14
  <2>2. x.media <= made'
    BY <1>3, <1>10, <1>14 DEF JobKnown, Jobs
  <2> QED
    BY <1>2, <1>3, <1>10, <1>11, <1>13, <1>14, <2>1, <2>2, TaskKnown
<1>16. ASSUME NEW t \in Surfaces \ {s}
       PROVE  /\ job[t].phase = "storing" => /\ job[t].media \in assets' /\ ~Named(job[t].media)'
                                             /\ \A k \in ItemsOf(x.todo) : k.media # job[t].media
              /\ job[t].phase = "freeing" /\ Named(job[t].media)' => job[t].media \in Risked'
  <2>1. JobKnown(t) /\ StoresApart(t, s)
    BY <1>3 DEF JobsKnown
  <2>2. job[t].phase = "storing" =>
          /\ job[t].media \in assets /\ ~Named(job[t].media) /\ m0 # job[t].media
          /\ \A k \in ItemsOf(x.todo) : k.media # job[t].media
    BY <1>1, <1>5, <1>10, <2>1 DEF JobKnown, StoresApart
  <2>3. job[t].phase = "freeing" =>
          /\ Named(job[t].media) => job[t].media \in Risked
          /\ job[t].media = m0 => Going(a, m0)
    BY <2>1 DEF JobKnown, Going
  <2>4. job[t].phase = "storing" => job[t].media \in assets' /\ ~Named(job[t].media)'
    BY <1>2, <1>11, <1>12, <2>2
  <2>5. job[t].phase = "freeing" /\ Named(job[t].media)' => job[t].media \in Risked'
    BY <1>11, <1>12, <1>13, <2>3
  <2> QED
    BY <2>2, <2>4, <2>5
<1>17. ASSUME NEW t \in Surfaces \ {s}, NEW q \in DOMAIN pictures'
       PROVE  \/ q \in DOMAIN pictures /\ pictures'[q].media = pictures[q].media /\ pictures'[q].album = pictures[q].album
              \/ /\ q > made
                 /\ job[t].verb = "album" /\ job[t].album = pictures'[q].album => q \in DOMAIN crossed'
                 /\ job[t].verb = "move" => \A k \in ItemsOf(job[t].todo) : k.media # pictures'[q].media
  <2>1. CASE q # p
    BY <1>8, <1>9, <2>1
  <2>2. CASE q = p
    <3>1. job[t].verb = "album" /\ job[t].album = a => Going(a, m0)
      BY DEF Going
    <3>2. job[t].verb # "move"
      BY <1>3, <1>6 DEF JobsKnown, JobKnown
    <3> QED
      BY <1>8, <1>9, <1>13, <1>14, <2>2, <3>1, <3>2
  <2> QED
    BY <2>1, <2>2
<1>18. JobsKnown'
  <2>1. x.phase # "storing" /\ x.phase # "freeing" /\ DOMAIN catalogue \subseteq DOMAIN catalogue'
    BY <1>2, <1>10
  <2> QED
    BY <1>3, <1>10, <1>13, <1>14, <1>15, <1>16, <1>17, <2>1, OneGoesOn
<1>19. StoresTyped'
  <2>1. 1..made \subseteq 1..made' /\ 0..made \subseteq 0..made' /\ made' \in 0..MaxIds
    BY <1>1, <1>2, <1>3
  <2>2. /\ albums' \in [DOMAIN albums' -> 0..made'] /\ DOMAIN albums' \subseteq 1..made'
        /\ catalogue' \in [DOMAIN catalogue' -> 0..made'] /\ DOMAIN catalogue' \subseteq 1..made'
        /\ uploadDialog' \in [open : BOOLEAN, album : 0..made'] /\ started' \in 0..MaxJobs
        /\ assets' \subseteq 1..made' /\ left' \subseteq 1..made' /\ covered' \subseteq 1..made'
    BY <1>2, <1>3, <2>1 DEF StoresTyped
  <2>3. pictures' \in [DOMAIN pictures' -> [album : 1..made', media : 1..made', order : Nat]] /\ DOMAIN pictures' \subseteq 1..made'
    BY <1>2, <1>8, <1>9 DEF PicturesUpTo
  <2> QED
    BY <1>2, <1>11, <1>13, <2>1, <2>2, <2>3 DEF StoresTyped
<1>20. FilesKnown'
  <2>1. \A m : Busy(m) => Busy(m)'
    BY <1>2, <1>11 DEF Busy
  <2>2. \A m \in 1..made' : Named(m) \/ m = m0 => m \in assets' \union Risked'
    <3> TAKE m \in 1..made'
    <3> HAVE Named(m) \/ m = m0
    <3>1. m \in 1..made
      BY <1>3, <1>7, NewFile DEF NoMedia
    <3> QED
      BY <1>2, <1>7, <1>13, <3>1 DEF ShowcaseInv, FilesKnown
  <2>3. \A m \in assets' : m \in left \union covered \/ Named(m)' \/ Busy(m)'
    BY <1>2, <1>12, <2>1 DEF ShowcaseInv, FilesKnown
  <2>4. PicturesAreFiledOnce'
    <3>1. \A q, r \in DOMAIN pictures' : pictures'[q].media = pictures'[r].media => q = r
      BY <1>6, <1>8, <1>9 DEF ShowcaseInv, FilesKnown, PicturesAreFiledOnce
    <3>2. \A q \in DOMAIN pictures' \ DOMAIN crossed' : pictures'[q].album \in DOMAIN albums'
      BY <1>2, <1>7, <1>8, <1>9, <1>13 DEF ShowcaseInv, FilesKnown, PicturesAreFiledOnce
    <3> QED
      BY <3>1, <3>2 DEF PicturesAreFiledOnce
  <2> QED
    BY <1>2, <1>12, <2>2, <2>3, <2>4 DEF ShowcaseInv, FilesKnown
<1>21. AlbumsAreContiguous'
  <2>1. \A u \in Surfaces : job'[u].verb = job[u].verb /\ job'[u].album = job[u].album
    BY <1>2, <1>10, <1>11
  <2> QED
    BY <1>2, <1>8, <1>9, <2>1 DEF ShowcaseInv, AlbumsAreContiguous, InOrder
<1> QED
  BY <1>18, <1>19, <1>20, <1>21 DEF ShowcaseInv

LEMMA ImageMoved == ASSUME ShowcaseInv, NEW s \in Surfaces, moveImage(s) PROVE ShowcaseInv'
<1>1. PICK i : i = Head(job[s].todo)
  OBVIOUS
<1>2. CASE i.album = job[s].album \/ job[s].album \notin DOMAIN albums \/ i.media \notin assets
  <2>1. /\ job[s].verb = "move" /\ job[s].phase = "next" /\ job[s].todo # <<>>
        /\ UNCHANGED <<albums, assets, catalogue, uploadDialog, started, left, covered>>
    BY DEF moveImage, Next1, Stays
  <2>2. /\ job' = [job EXCEPT ![s].todo = Tail(@)] \/ job' = [job EXCEPT ![s] = Failed1(s)]
        /\ UNCHANGED <<pictures, made, crossed>>
    BY <1>1, <1>2 DEF moveImage
  <2> QED
    BY <2>1, <2>2, ItemPassed
<1> QED
  BY <1>1, <1>2, ImageFiledAnew

-----------------------------------------------------------------------------
(* A picture is put elsewhere in its album.                                *)

\* The store d is ps in another order, its albums in order where they were.
Rearranges(ps, d, n) ==
  /\ DOMAIN d = DOMAIN ps /\ d \in [DOMAIN d -> PicturesUpTo(n)]
  /\ \A q \in DOMAIN d : d[q].media = ps[q].media /\ d[q].album = ps[q].album
  /\ \A b : InOrder(b, ps) => InOrder(b, d)

LEMMA ReorderedRows ==
  ASSUME StoresTyped, NEW p \in DOMAIN pictures, NEW n \in Nat, reorderImage(p, n), NEW d, d = pictures'
  PROVE  Rearranges(pictures, d, made)
<1> DEFINE a == pictures[p].album
           S == PicturesOf(a, pictures)
           others == Restrict(pictures, DOMAIN pictures \ {p})
           T == PicturesOf(a, others)
           place(q) == IF q = p THEN n ELSE IF Place(q, others) < n THEN Place(q, others) ELSE Place(q, others) + 1
<1>1. made \in Nat /\ pictures \in [DOMAIN pictures -> PicturesUpTo(made)] /\ DOMAIN pictures \subseteq 1..made
  BY DEF StoresTyped, PicturesUpTo
<1>2. /\ n < Cardinality(S)
      /\ d = [q \in DOMAIN pictures |-> IF pictures[q].album = a THEN [pictures[q] EXCEPT !.order = place(q)] ELSE pictures[q]]
  BY DEF reorderImage
<1>3. DOMAIN others = DOMAIN pictures \ {p} /\ others \in [DOMAIN others -> PicturesUpTo(made)] /\ \A q \in DOMAIN others : others[q] = pictures[q]
  BY <1>1 DEF Restrict
<1> HIDE DEF others
<1>4. T = S \ {p} /\ p \in S /\ S \subseteq DOMAIN pictures
  BY <1>3 DEF PicturesOf
<1>5. /\ Cardinality(T) \in Nat
      /\ \A q \in T : Place(q, others) \in 0..(Cardinality(T) - 1)
      /\ \A k \in 0..(Cardinality(T) - 1) : \E q \in T : Place(q, others) = k
  <2>1. DOMAIN others \subseteq 1..made
    BY <1>1, <1>3
  <2> QED
    BY <1>1, <1>3, <2>1, PlacesFill
<1>6. Cardinality(S) = Cardinality(T) + 1
  <2>1. IsFiniteSet(1..made)
    BY <1>1, FS_Interval
  <2>2. IsFiniteSet(T)
    BY <1>1, <1>4, <2>1, FS_Subset
  <2>3. S = T \union {p} /\ p \notin T
    BY <1>4
  <2> QED
    BY <2>2, <2>3, FS_AddElement
<1>7. \A q \in S : place(q) \in Nat
  BY <1>4, <1>5
<1>8. \A q \in DOMAIN pictures : q \in S <=> pictures[q].album = a
  BY DEF PicturesOf
<1> HIDE DEF S, T, place
<1>9. DOMAIN d = DOMAIN pictures
  BY <1>2
<1>10. \A q \in DOMAIN pictures : /\ d[q] \in PicturesUpTo(made) /\ d[q].media = pictures[q].media /\ d[q].album = pictures[q].album
                                  /\ pictures[q].album = a => d[q].order = place(q)
                                  /\ pictures[q].album # a => d[q] = pictures[q]
  <2> TAKE q \in DOMAIN pictures
  <2>1. pictures[q] \in PicturesUpTo(made)
    BY <1>1
  <2>2. CASE pictures[q].album = a
    <3>1. d[q] = [pictures[q] EXCEPT !.order = place(q)] /\ place(q) \in Nat
      BY <1>2, <1>7, <1>8, <2>2
    <3> HIDE DEF a
    <3> QED
      BY <2>1, <2>2, <3>1 DEF PicturesUpTo
  <2>3. CASE pictures[q].album # a
    BY <1>2, <2>1, <2>3
  <2> QED
    BY <2>2, <2>3
<1>11. d \in [DOMAIN d -> PicturesUpTo(made)]
  <2>1. d = [q \in DOMAIN d |-> d[q]]
    BY <1>2
  <2> QED
    BY <1>9, <1>10, <2>1
<1>12. InOrder(a, d)
  <2>1. PicturesOf(a, d) = S
    BY <1>9, <1>10 DEF PicturesOf, S
  <2>2. \A q \in S : d[q].order = place(q)
    BY <1>4, <1>8, <1>10
  <2>3. \A q \in S : place(q) \in 0..(Cardinality(S) - 1)
    <3> TAKE q \in S
    <3>1. CASE q = p
      BY <1>2, <1>5, <1>6, <3>1 DEF place
    <3>2. CASE q # p
      <4>1. Place(q, others) \in 0..(Cardinality(T) - 1)
        BY <1>4, <1>5, <3>2
      <4> QED
        BY <1>2, <1>5, <1>6, <3>2, <4>1 DEF place
    <3> QED
      BY <3>1, <3>2
  <2>4. \A k \in 0..(Cardinality(S) - 1) : \E q \in S : place(q) = k
    <3> TAKE k \in 0..(Cardinality(S) - 1)
    <3>1. CASE k = n
      BY <1>4, <3>1 DEF place
    <3>2. CASE k < n
      <4>1. k \in 0..(Cardinality(T) - 1)
        BY <1>2, <1>5, <1>6, <3>2
      <4>2. PICK q \in T : Place(q, others) = k
        BY <1>5, <4>1
      <4> QED
        BY <1>4, <3>2, <4>2 DEF place
    <3>3. CASE k > n
      <4>1. k - 1 \in 0..(Cardinality(T) - 1) /\ ~(k - 1 < n) /\ k - 1 + 1 = k
        BY <1>2, <1>5, <1>6, <3>3
      <4>2. PICK q \in T : Place(q, others) = k - 1
        BY <1>5, <4>1
      <4> QED
        BY <1>4, <4>1, <4>2 DEF place
    <3> QED
      BY <1>5, <1>6, <3>1, <3>2, <3>3
  <2>5. {d[q].order : q \in S} = 0..(Cardinality(S) - 1)
    BY <2>2, <2>3, <2>4
  <2> QED
    BY <2>1, <2>5 DEF InOrder
<1>13. ASSUME NEW b, b # a, InOrder(b, pictures) PROVE InOrder(b, d)
  <2>1. PicturesOf(b, d) = PicturesOf(b, pictures)
    BY <1>9, <1>10 DEF PicturesOf
  <2>2. \A q \in PicturesOf(b, pictures) : d[q].order = pictures[q].order
    BY <1>10, <1>13 DEF PicturesOf
  <2> QED
    BY <1>13, <2>1, <2>2 DEF InOrder
<1> QED
  BY <1>9, <1>10, <1>11, <1>12, <1>13 DEF Rearranges

LEMMA ImageReordered == ASSUME ShowcaseInv, NEW p \in DOMAIN pictures, NEW n \in Nat, reorderImage(p, n) PROVE ShowcaseInv'
<1>1. UNCHANGED <<albums, assets, catalogue, uploadDialog, job, made, left, covered, crossed>> /\ Counts
  BY DEF reorderImage
<1>2. StoresTyped /\ JobsKnown /\ started' \in 0..MaxJobs /\ made \in Nat
  BY <1>1, ShowcaseAssumption DEF ShowcaseInv, StoresTyped, Counts, ShowcaseAssumption
<1>3. PICK d : d = pictures'
  OBVIOUS
<1>4. Rearranges(pictures, d, made)
  BY <1>2, <1>3, ReorderedRows
<1>5. /\ DOMAIN pictures' = DOMAIN pictures /\ pictures' \in [DOMAIN pictures' -> PicturesUpTo(made)]
      /\ \A q \in DOMAIN pictures' : pictures'[q].media = pictures[q].media /\ pictures'[q].album = pictures[q].album
      /\ \A b : InOrder(b, pictures) => InOrder(b, pictures')
  BY <1>3, <1>4 DEF Rearranges
<1>6. (\A m : Named(m)' <=> Named(m)) /\ Risked' = Risked
  BY <1>1, <1>5 DEF Named, mediaStillReferenced, Risked
<1>7. StoresTyped'
  BY <1>1, <1>2, <1>5 DEF StoresTyped, PicturesUpTo
<1>8. JobsKnown'
  <2>1. ASSUME NEW t \in Surfaces PROVE JobKnown(t)'
    <3>1. JobKnown(t)
      BY <1>2 DEF JobsKnown
    <3>2. /\ job[t].phase = "storing" => job[t].media \in assets' /\ ~Named(job[t].media)'
          /\ job[t].phase = "freeing" /\ Named(job[t].media)' => job[t].media \in Risked'
      BY <1>1, <1>6, <3>1 DEF JobKnown
    <3>3. /\ made' \in Nat /\ made <= made' /\ job'[t] = job[t] /\ Risked \subseteq Risked'
          /\ DOMAIN catalogue \subseteq DOMAIN catalogue' /\ DOMAIN crossed \subseteq DOMAIN crossed'
          /\ \A q \in DOMAIN pictures' : q \in DOMAIN pictures /\ pictures'[q].media = pictures[q].media /\ pictures'[q].album = pictures[q].album
      BY <1>1, <1>2, <1>5, <1>6
    <3> QED
      BY <1>2, <3>1, <3>2, <3>3, OthersKnown
  <2> QED
    BY <1>1, <1>2, <2>1 DEF JobsKnown, StoresApart
<1>9. FilesKnown'
  <2>1. \A m : Busy(m) <=> Busy(m)'
    BY <1>1 DEF Busy
  <2>2. PicturesAreFiledOnce'
    BY <1>1, <1>5 DEF ShowcaseInv, FilesKnown, PicturesAreFiledOnce
  <2> QED
    BY <1>1, <1>6, <2>1, <2>2 DEF ShowcaseInv, FilesKnown
<1>10. AlbumsAreContiguous'
  BY <1>1, <1>5 DEF ShowcaseInv, AlbumsAreContiguous, InOrder
<1> QED
  BY <1>7, <1>8, <1>9, <1>10 DEF ShowcaseInv

-----------------------------------------------------------------------------
(* The start, and the whole.                                               *)

LEMMA AtRest ==
  ASSUME job = [s \in Surfaces |-> Resting], made \in Nat
  PROVE  job \in [Surfaces -> Jobs] /\ JobsKnown /\ (\A m : ~Busy(m)) /\ \A s \in Surfaces : job[s].verb # "album"
<1>1. \A s \in Surfaces : job[s] = Resting
  OBVIOUS
<1>2. \A s \in Surfaces : JobKnown(s)
  BY <1>1, RestingFits DEF JobKnown
<1>3. \A s, t \in Surfaces : StoresApart(s, t)
  BY <1>1, RestingFits DEF StoresApart
<1> QED
  BY <1>1, <1>2, <1>3, RestingFits DEF JobsKnown, Busy

LEMMA EmptyStart == ASSUME ShowcaseStart(<<>>, <<>>, <<>>, {}, 0) PROVE ShowcaseInv
<1>1. /\ uploadDialog = NoUpload /\ job = [s \in Surfaces |-> Resting] /\ started = 0 /\ left = {} /\ crossed = <<>>
      /\ covered \subseteq {albums[a] : a \in DOMAIN albums}
      /\ albums = <<>> /\ pictures = <<>> /\ catalogue = <<>> /\ assets = {} /\ made = 0
  BY DEF ShowcaseStart
<1>2. \A f : f = <<>> => DOMAIN f = {} /\ \A T : f \in [DOMAIN f -> T]
  OBVIOUS
<1>3. DOMAIN albums = {} /\ DOMAIN pictures = {} /\ DOMAIN catalogue = {} /\ DOMAIN crossed = {} /\ covered = {}
  BY <1>1, <1>2
<1>4. job \in [Surfaces -> Jobs] /\ JobsKnown
  BY <1>1, AtRest
<1>5. StoresTyped
  <2>1. albums \in [DOMAIN albums -> 0..made] /\ catalogue \in [DOMAIN catalogue -> 0..made] /\ crossed \in [DOMAIN crossed -> 1..made]
        /\ pictures \in [DOMAIN pictures -> [album : 1..made, media : 1..made, order : Nat]]
    BY <1>1, <1>2
  <2> QED
    BY <1>1, <1>3, <1>4, <2>1, ShowcaseAssumption DEF StoresTyped, ShowcaseAssumption, NoUpload, NoAlbum
<1>6. FilesKnown
  BY <1>1, <1>3 DEF FilesKnown, PicturesAreFiledOnce, Named, mediaStillReferenced
<1>7. AlbumsAreContiguous
  BY <1>3 DEF AlbumsAreContiguous
<1> QED
  BY <1>4, <1>5, <1>6, <1>7 DEF ShowcaseInv

LEMMA FilledStart ==
  ASSUME ShowcaseStart([a \in {1, 2} |-> NoMedia], [p \in {5, 6} |-> At1(1, p - 2, p - 5)], [r \in {7} |-> 4], {3, 4}, 7)
  PROVE  ShowcaseInv
<1>1. /\ uploadDialog = NoUpload /\ job = [s \in Surfaces |-> Resting] /\ started = 0 /\ left = {} /\ crossed = <<>>
      /\ albums = [a \in {1, 2} |-> NoMedia] /\ pictures = [p \in {5, 6} |-> At1(1, p - 2, p - 5)]
      /\ catalogue = [r \in {7} |-> 4] /\ assets = {3, 4} /\ made = 7
      /\ covered = {[a \in {1, 2} |-> NoMedia][c] : c \in DOMAIN [a \in {1, 2} |-> NoMedia]} \ {NoMedia}
  BY DEF ShowcaseStart
<1>2. DOMAIN crossed = {} /\ crossed \in [DOMAIN crossed -> 1..made]
  BY <1>1
<1>3. /\ DOMAIN albums = {1, 2} /\ albums[1] = 0 /\ albums[2] = 0 /\ covered = {}
      /\ DOMAIN catalogue = {7} /\ catalogue[7] = 4 /\ DOMAIN pictures = {5, 6}
      /\ pictures[5].album = 1 /\ pictures[5].media = 3 /\ pictures[5].order = 0
      /\ pictures[6].album = 1 /\ pictures[6].media = 4 /\ pictures[6].order = 1
  <2>1. pictures[5] = At1(1, 5 - 2, 5 - 5) /\ pictures[6] = At1(1, 6 - 2, 6 - 5)
    BY <1>1
  <2> QED
    BY <1>1, <2>1 DEF At1, NoMedia
<1>4. job \in [Surfaces -> Jobs] /\ JobsKnown /\ \A s \in Surfaces : job[s].verb # "album"
  BY <1>1, AtRest
<1>5. StoresTyped
  <2>1. albums \in [DOMAIN albums -> 0..made] /\ DOMAIN albums \subseteq 1..made
    BY <1>1, <1>3 DEF NoMedia
  <2>2. catalogue \in [DOMAIN catalogue -> 0..made] /\ DOMAIN catalogue \subseteq 1..made
    BY <1>1, <1>3
  <2>3. pictures \in [DOMAIN pictures -> [album : 1..made, media : 1..made, order : Nat]] /\ DOMAIN pictures \subseteq 1..made
    BY <1>1, <1>3 DEF At1
  <2>4. assets \subseteq 1..made /\ left \subseteq 1..made /\ covered \subseteq 1..made /\ DOMAIN crossed \subseteq 1..made
    BY <1>1, <1>2, <1>3
  <2>5. uploadDialog \in [open : BOOLEAN, album : 0..made]
    BY <1>1 DEF NoUpload, NoAlbum
  <2>6. made \in 0..MaxIds /\ started \in 0..MaxJobs
    BY <1>1, ShowcaseAssumption DEF ShowcaseAssumption
  <2> QED
    BY <1>2, <1>4, <2>1, <2>2, <2>3, <2>4, <2>5, <2>6 DEF StoresTyped
<1>6. FilesKnown
  <2>1. \A m : Named(m) <=> m \in {0, 3, 4}
    BY <1>3 DEF Named, mediaStillReferenced
  <2>2. PicturesAreFiledOnce
    BY <1>3 DEF PicturesAreFiledOnce
  <2> QED
    BY <1>1, <1>3, <2>1, <2>2 DEF FilesKnown, NoMedia
<1>7. AlbumsAreContiguous
  <2>1. PicturesOf(1, pictures) = {5, 6} /\ PicturesOf(2, pictures) = {}
    BY <1>3 DEF PicturesOf
  <2>2. Cardinality({}) = 0 /\ Cardinality({5, 6}) = 2
    <3>1. IsFiniteSet({}) /\ Cardinality({}) = 0
      BY FS_EmptySet
    <3>2. IsFiniteSet({} \union {5}) /\ Cardinality({} \union {5}) = 1
      BY <3>1, FS_AddElement
    <3>3. Cardinality(({} \union {5}) \union {6}) = 2
      BY <3>2, FS_AddElement
    <3>4. ({} \union {5}) \union {6} = {5, 6}
      OBVIOUS
    <3> QED
      BY <3>1, <3>3, <3>4
  <2>3. {pictures[p].order : p \in {5, 6}} = 0..(2 - 1) /\ {pictures[p].order : p \in {}} = 0..(0 - 1)
    BY <1>3
  <2> QED
    BY <1>3, <2>1, <2>2, <2>3 DEF AlbumsAreContiguous
<1> QED
  BY <1>4, <1>5, <1>6, <1>7 DEF ShowcaseInv

LEMMA ShowcaseStays == ASSUME ShowcaseInv, UNCHANGED showcaseVars PROVE ShowcaseInv'
<1>1. UNCHANGED <<albums, pictures, assets, catalogue, uploadDialog, job, made, started, left, covered, crossed>>
  BY DEF showcaseVars
<1>2. RowsGrow
  BY <1>1, RowsStay DEF ShowcaseInv, StoresTyped, galleryRows
<1>3. job' \in [Surfaces -> Jobs] /\ \A u \in Surfaces : job'[u] = job[u]
  BY <1>1 DEF ShowcaseInv, StoresTyped
<1> QED
  BY <1>2, <1>3, JobsTurn

LEMMA ShowcaseGoesOn == ASSUME ShowcaseInv, ShowcaseNext PROVE ShowcaseInv'
<1>1. ASSUME NEW s \in Surfaces,
             \/ Freed(s) \/ FreeingFails(s) \/ StoreBytes(s) \/ BytesRefused(s) \/ addImage(s)
             \/ uploadEnds(s) \/ removeImage(s) \/ moveImage(s) \/ removeOfAlbum(s) \/ albumRemoved(s) \/ listEnds(s)
      PROVE  ShowcaseInv'
  <2>1. CASE Freed(s) \/ FreeingFails(s)
    BY <2>1, BytesGone
  <2>2. CASE StoreBytes(s)
    BY <2>2, BytesStored
  <2>3. CASE BytesRefused(s)
    BY <2>3, RefusedKnown
  <2>4. CASE addImage(s)
    BY <2>4, ImageAdded, ImageRefused
  <2>5. CASE uploadEnds(s) \/ listEnds(s)
    BY <2>5, JobEnds
  <2>6. CASE removeImage(s)
    BY <2>6, ImageRemoved
  <2>7. CASE moveImage(s)
    BY <2>7, ImageMoved
  <2>8. CASE removeOfAlbum(s)
    BY <2>8, AlbumEmptied
  <2>9. CASE albumRemoved(s)
    BY <2>9, AlbumGone
  <2> QED
    BY <1>1, <2>1, <2>2, <2>3, <2>4, <2>5, <2>6, <2>7, <2>8, <2>9
<1>2. CASE openUploader \/ closeUploader
  BY <1>2, DialogKnown
<1>3. CASE createAlbum \/ registerItem
  BY <1>3, RowMadeKnown
<1>4. CASE saveItem
  BY <1>4, ItemSaved
<1>5. CASE saveRefused
  BY <1>5, SaveRefused
<1>6. CASE itemEnds
  BY <1>6, JobEnds DEF Surfaces
<1>7. CASE \E n \in 1..MaxUpload : submitUpload(n)
  BY <1>7, UploadBegins
<1>8. CASE \E a \in DOMAIN albums : chooseAlbum(a)
  BY <1>8, DialogKnown
<1>9. CASE (\E a \in DOMAIN albums : uploadOne(a)) \/ \E p \in DOMAIN pictures : removePicture(p)
  BY <1>9, PanelBegins
<1>10. CASE \E a \in DOMAIN albums : deleteAlbum(a)
  BY <1>10, DeletionBegins
<1>11. ASSUME NEW ps \in SUBSET DOMAIN pictures, runBatch("delete", ps, NoAlbum) PROVE ShowcaseInv'
  <2>1. NoAlbum \in 0..made
    BY DEF NoAlbum, ShowcaseInv, StoresTyped
  <2> QED
    BY <1>11, <2>1, BatchBegins
<1>12. ASSUME NEW ps \in SUBSET DOMAIN pictures, NEW a \in DOMAIN albums, runBatch("move", ps, a) PROVE ShowcaseInv'
  <2>1. a \in 0..made
    BY DEF ShowcaseInv, StoresTyped
  <2> QED
    BY <1>12, <2>1, BatchBegins
<1>13. CASE \E p \in DOMAIN pictures : setAlbumCover(p)
  BY <1>13, CoverKnown
<1>14. ASSUME NEW p \in DOMAIN pictures, NEW n \in 0..Cardinality(DOMAIN pictures), reorderImage(p, n) PROVE ShowcaseInv'
  <2>1. n \in Nat
    <3>1. made \in Nat /\ DOMAIN pictures \subseteq 1..made
      BY DEF ShowcaseInv, StoresTyped
    <3>2. IsFiniteSet(1..made)
      BY <3>1, FS_Interval
    <3>3. Cardinality(DOMAIN pictures) \in Nat
      BY <3>1, <3>2, FS_Subset, FS_CardinalityType
    <3> QED
      BY <3>3
  <2> QED
    BY <1>14, <2>1, ImageReordered
<1>15. CASE \E r \in DOMAIN catalogue \union {0} : submitItem(r)
  BY <1>15, ItemBegins
<1> QED
  BY <1>1, <1>2, <1>3, <1>4, <1>5, <1>6, <1>7, <1>8, <1>9, <1>10, <1>11, <1>12, <1>13, <1>14, <1>15 DEF ShowcaseNext

\* What the gallery and the library promise follows from what is known of the jobs.
LEMMA ShowcaseKeeps == ASSUME ShowcaseInv PROVE ShowcaseHolds
<1>1. ShownFilesStay
  <2>1. \A m \in 1..made : Named(m) => m \in assets \union Risked
    BY DEF ShowcaseInv, FilesKnown
  <2>2. \A p \in DOMAIN pictures : pictures[p].media \in assets \union Risked
    BY <2>1 DEF ShowcaseInv, StoresTyped, Named, mediaStillReferenced
  <2>3. \A a \in DOMAIN albums : albums[a] \in assets \union {NoMedia} \union Risked
    BY <2>1 DEF ShowcaseInv, StoresTyped, Named, mediaStillReferenced, NoMedia
  <2>4. \A r \in DOMAIN catalogue : catalogue[r] \in assets \union {NoMedia} \union Risked
    BY <2>1 DEF ShowcaseInv, StoresTyped, Named, mediaStillReferenced, NoMedia
  <2> QED
    BY <2>2, <2>3, <2>4 DEF ShownFilesStay, Risked
<1>2. NoFileIsForgotten
  <2>1. (\A s \in Surfaces : job[s] = Resting) => \A m : ~Busy(m)
    BY RestingFits DEF Busy
  <2> QED
    BY <2>1 DEF NoFileIsForgotten, ShowcaseInv, FilesKnown, Named
<1> QED
  BY <1>1, <1>2 DEF ShowcaseHolds, ShowcaseInv, FilesKnown

LEMMA ShowcaseTyped == ASSUME ShowcaseInv PROVE ShowcaseTypeOK
<1>1. made \in Nat /\ MaxIds \in Nat /\ made \in 0..MaxIds /\ made <= MaxIds /\ 1..made \subseteq 0..MaxIds /\ 0..made \subseteq 0..MaxIds
  BY ShowcaseAssumption DEF ShowcaseInv, StoresTyped, ShowcaseAssumption
<1>2. /\ \A f \in {albums, catalogue} : DOMAIN f \subseteq 0..MaxIds /\ \A x \in DOMAIN f : f[x] \in 0..MaxIds
      /\ DOMAIN pictures \subseteq 0..MaxIds
      /\ assets \union left \union covered \union DOMAIN crossed \subseteq 0..MaxIds
      /\ uploadDialog \in [open : BOOLEAN, album : 0..MaxIds] /\ started \in 0..MaxJobs
  BY <1>1 DEF ShowcaseInv, StoresTyped
<1>3. \A p \in DOMAIN pictures : pictures[p] \in [album : 0..MaxIds, media : 0..MaxIds, order : Nat]
  BY <1>1 DEF ShowcaseInv, StoresTyped
<1>4. ASSUME NEW s \in Surfaces
      PROVE  /\ job[s].verb \in {"none", "upload", "save", "delete", "move", "album"}
             /\ job[s].phase \in {"rest", "next", "storing", "freeing"}
             /\ \A i \in DOMAIN job[s].todo : job[s].todo[i] \in [id : 0..MaxIds, album : 0..MaxIds, media : 0..MaxIds]
  <2>1. job[s] \in Jobs /\ JobKnown(s)
    BY DEF ShowcaseInv, StoresTyped, JobsKnown
  <2>2. job[s].todo \in Seq(Tasks)
    BY <2>1 DEF Jobs
  <2>3. ASSUME NEW k \in ItemsOf(job[s].todo) PROVE k \in [id : 0..MaxIds, album : 0..MaxIds, media : 0..MaxIds]
    <3>1. k \in Tasks /\ k.id <= made /\ k.album <= made /\ k.media <= made
      BY <2>1, <2>2, ListOf DEF JobKnown
    <3> QED
      BY <1>1, <3>1 DEF Tasks
  <2>4. \A i \in DOMAIN job[s].todo : job[s].todo[i] \in ItemsOf(job[s].todo)
    BY DEF ItemsOf
  <2> QED
    BY <2>1, <2>3, <2>4 DEF Jobs, Verbs, Phases
<1> QED
  BY <1>1, <1>2, <1>3, <1>4 DEF ShowcaseTypeOK

LEMMA ShowcaseKept == ShowcaseSpec => []ShowcaseInv
<1>1. ShowcaseInit => ShowcaseInv
  BY EmptyStart, FilledStart DEF ShowcaseInit
<1>2. ShowcaseInv /\ [ShowcaseNext]_showcaseVars => ShowcaseInv'
  BY ShowcaseGoesOn, ShowcaseStays
<1> QED
  BY <1>1, <1>2, PTL DEF ShowcaseSpec

(* Whatever the surfaces do side by side, a file that a picture, a cover or *)
(* a library row shows is there, unless it was filed again while another    *)
(* surface removed it; none is left that nothing names when all rest; the   *)
(* pictures of an album stand at 0, 1, 2, ...; none is filed twice.         *)
THEOREM ShowcaseAlwaysHolds == ShowcaseSpec => []ShowcaseHolds
  BY ShowcaseKept, ShowcaseKeeps, PTL

(* The rows, the files and the jobs of the gallery and the library keep     *)
(* their types.                                                             *)
THEOREM ShowcaseTypeCorrect == ShowcaseSpec => []ShowcaseTypeOK
  BY ShowcaseKept, ShowcaseTyped, PTL

=============================================================================
