----------------------------- MODULE PageReads -----------------------------
(***************************************************************************)
(* A page of derived figures and its reads (the hooks over useResource.ts  *)
(* that a view calls): each read answers, fails and is repeated on its     *)
(* own, while this window and other clients write and the academy clock    *)
(* moves.  A read holds one page of the rows its query matched and their   *)
(* total; what is asked, and what is made of it, is in the page's module.  *)
(***************************************************************************)
EXTENDS Integers, FiniteSets, FiniteSetsExt, SequencesExt

CONSTANTS
    Stores,       \* for each page, the academies a write may lead to: rows by domain
    Ranges,       \* the date ranges of a filter, in days before today
    Noons,        \* the minutes of the day the clock shows
    NO_DATA,      \* the dash of a figure that is not known
    PerPage,      \* rows one page of a read carries at most, where that is a bound
    MaxTurns,     \* bound: writes, of this window and of others, reloads, ranges, ticks of the clock
    MaxFaults     \* bound: reads that fail

ASSUME PageBounds == MaxTurns \in Nat /\ MaxFaults \in Nat /\ \A s \in DOMAIN PerPage : PerPage[s] \in Nat

VARIABLES
    academy,    \* the stored records, by domain
    page,       \* the page that is open
    read,       \* each of its sources: the rows it holds, of so many, whether it is read (again), its error
    range,      \* the window of the calendar read
    minute,     \* the academy clock
    outdated,   \* history: sources another client's write came after
    turns,      \* writes, reloads, ranges and ticks so far
    faults      \* failed reads so far

pageVars == <<academy, page, read, range, minute, outdated, turns, faults>>

Errors == {"none", "fault", "unavailable"}
Reading == [rows |-> {}, total |-> 0, loading |-> TRUE, error |-> "none"]
IsRead(s) == ~read[s].loading /\ read[s].error = "none"
(* One page of a list, in the order of its ids.                            *)
PageOf(s, rows) ==
    {r \in rows : s \in DOMAIN PerPage => Cardinality({q \in rows : q.id < r.id}) < PerPage[s]}
(* The page of a read is all there is.                                     *)
Complete(S) == \A s \in S : Cardinality(read[s].rows) = read[s].total
(* A read that shows what is stored, unless another client changed it.     *)
Current(S) == \A s \in S : IsRead(s) /\ s \notin outdated

ReadsInit(p, sources) ==
    /\ page = p /\ academy \in Stores[p] /\ minute = Min(Noons)
    /\ range = (CHOOSE r \in Ranges : \A q \in Ranges : q.from <= r.from)
    /\ read = [s \in sources |-> Reading] /\ outdated = {} /\ turns = 0 /\ faults = 0

AnswerRead(s, matching) ==
    /\ read[s].loading
    /\ read' = [read EXCEPT ![s] = [rows |-> PageOf(s, matching), total |-> Cardinality(matching),
                                    loading |-> FALSE, error |-> "none"]]
    /\ outdated' = outdated \ {s} /\ UNCHANGED <<academy, page, range, minute, turns, faults>>
(* The rows of an earlier answer stay with the error.                      *)
Fault(s, e) ==
    /\ read[s].loading /\ e # "none" /\ (e = "unavailable" => s = "rooms") /\ faults < MaxFaults
    /\ read' = [read EXCEPT ![s].loading = FALSE, ![s].error = e]
    /\ faults' = faults + 1 /\ UNCHANGED <<academy, page, range, minute, outdated, turns>>
ReadAgain(S) == read' = [s \in DOMAIN read |-> IF s \in S THEN [read[s] EXCEPT !.loading = TRUE] ELSE read[s]]
PageTurn == turns < MaxTurns /\ turns' = turns + 1
(* A write of this window makes every read start over; another client's    *)
(* is not noticed.                                                         *)
OwnWrite(a) ==
    /\ a # academy /\ academy' = a /\ PageTurn
    /\ ReadAgain(DOMAIN read) /\ UNCHANGED <<page, range, minute, outdated, faults>>
ForeignWrite(a) ==
    /\ a # academy /\ academy' = a /\ PageTurn
    /\ outdated' = DOMAIN read /\ UNCHANGED <<page, read, range, minute, faults>>
ClockTicks(now) ==
    /\ now > minute /\ PageTurn /\ minute' = now
    /\ UNCHANGED <<academy, page, read, range, outdated, faults>>

ReadsNext ==
    \/ \E s \in DOMAIN read, e \in Errors : Fault(s, e)
    \/ \E a \in Stores[page] : OwnWrite(a) \/ ForeignWrite(a)
    \/ \E now \in Noons : ClockTicks(now)

PageTypeOK ==
    /\ page \in DOMAIN Stores /\ academy \in Stores[page] /\ range \in Ranges /\ minute \in Noons
    /\ outdated \subseteq DOMAIN read /\ turns \in 0 .. MaxTurns /\ faults \in 0 .. MaxFaults
    /\ \A s \in DOMAIN read :
          /\ read[s].loading \in BOOLEAN /\ read[s].error \in Errors /\ Cardinality(read[s].rows) <= read[s].total
          /\ s \in DOMAIN PerPage => Cardinality(read[s].rows) <= PerPage[s]
=============================================================================
