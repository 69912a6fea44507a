--------------------------- MODULE LearningLadder ---------------------------
(***************************************************************************)
(* Learning programs, the ladder of levels of each, the content linked to  *)
(* levels and the level each student stands on: the demo repository, the   *)
(* rule that decides what a student may open, and the settings panel that  *)
(* edits a ladder from the rows it last read.                              *)
(***************************************************************************)
EXTENDS Integers, FiniteSets, Sequences

CONSTANTS Programs, Levels, Contents, Pupils,   \* the ids that records may have
          Nothing,                              \* no level is open in the panel
          MaxLadderWrites                       \* bound on repository writes

ASSUME LadderAssumption == IsFiniteSet(Levels) /\ MaxLadderWrites \in Nat

VARIABLES program,     \* the programs that exist
          level,       \* the levels that exist: program, order and switches
          content,     \* the content that exists: "open", "teachers" or "inactive"
          link,        \* pairs <<level, content>>
          placement,   \* the placed students: program, level and the moves so far
          panel,       \* the settings panel: program, rows read, level being linked
          spent,       \* levels deleted: an id is never given twice
          writes       \* the number of writes
ladderVars == <<program, level, content, link, placement, panel, spent, writes>>

Standings == {"open", "teachers", "inactive"}
LevelRow(g, o, a, e) == [program |-> g, order |-> o, active |-> a, exclusive |-> e]
Siblings(g) == {l \in DOMAIN level : level[l].program = g}
Including(f, k, row) == [x \in DOMAIN f \union {k} |-> IF x = k THEN row ELSE f[x]]
Without(f, k) == [x \in DOMAIN f \ {k} |-> f[x]]
(* Sets the order of every level of ladder g to what `order` gives it.     *)
Renumbered(g, order) ==
    [l \in DOMAIN level |-> IF l \in Siblings(g) THEN [level[l] EXCEPT !.order = order[l]] ELSE level[l]]
Writes == writes < MaxLadderWrites /\ writes' = writes + 1

-----------------------------------------------------------------------------
(* What a student may open, and who may open a content                     *)

(* The level the student stands on, if the placement is consistent.        *)
Stands(s) == s \in DOMAIN placement /\ placement[s].level \in Siblings(placement[s].program)
Reaches(s, l) ==
    /\ Stands(s) /\ l \in Siblings(placement[s].program) /\ level[l].active
    /\ IF level[l].exclusive THEN l = placement[s].level
                             ELSE level[l].order <= level[placement[s].level].order
resolveEligibleContent(s) ==
    {x \in DOMAIN content : content[x] = "open" /\ \E l \in DOMAIN level : <<l, x>> \in link /\ Reaches(s, l)}
resolveLockedContent(s) ==
    {x \in DOMAIN content \ resolveEligibleContent(s) :
        content[x] = "open" /\ \E l \in DOMAIN level :
            <<l, x>> \in link /\ Stands(s) /\ level[l].active /\ level[l].program = placement[s].program
            /\ IF level[l].exclusive THEN l # placement[s].level
                                     ELSE level[l].order > level[placement[s].level].order}
(* From the content's side, for every placement at once: the exclusive     *)
(* levels it hangs on, and in each program the lowest of the others.       *)
resolveEligibleStudentIds(x) ==
    LET attached == {l \in DOMAIN level : <<l, x>> \in link /\ level[l].active}
        shared(g) == {level[l].order : l \in {k \in attached : level[k].program = g /\ ~level[k].exclusive}}
        threshold(g) == CHOOSE o \in shared(g) : \A p \in shared(g) : o <= p
    IN  {s \in DOMAIN placement :
            \/ placement[s].level \in {l \in attached : level[l].exclusive}
            \/ /\ shared(placement[s].program) # {} /\ placement[s].level \in DOMAIN level
               /\ level[placement[s].level].order >= threshold(placement[s].program)}

-----------------------------------------------------------------------------
(* The repository: each method is one step, for it waits for nothing that  *)
(* another task could delay.                                               *)

createProgram(g) == g \notin program /\ Writes /\ program' = program \union {g}
                    /\ UNCHANGED <<level, content, link, placement, panel, spent>>
deleteProgram(g) ==
    /\ g \in program /\ Writes
    /\ \A s \in DOMAIN placement : placement[s].program # g
    /\ Siblings(g) = {}
    /\ program' = program \ {g} /\ UNCHANGED <<level, content, link, placement, panel, spent>>

(* Inserts a level at a position and shifts the ones from there up.        *)
createLevel(l, g, o) ==
    /\ l \notin DOMAIN level \union spent /\ g \in program /\ o \in 1 .. (Cardinality(Siblings(g)) + 1) /\ Writes
    /\ level' = Including(Renumbered(g, [k \in Siblings(g) |-> level[k].order + (IF level[k].order >= o THEN 1 ELSE 0)]),
                          l, LevelRow(g, o, TRUE, FALSE))
    /\ UNCHANGED <<program, content, link, placement, panel, spent>>
updateLevel(l, a, e) ==
    /\ l \in DOMAIN level /\ Writes
    /\ level' = [level EXCEPT ![l].active = a, ![l].exclusive = e]
    /\ UNCHANGED <<program, content, link, placement, panel, spent>>
(* Takes the level out of its ladder and puts it back at position o.       *)
Moved(l, o) ==
    LET from == level[l].order
        ladder == level[l].program
    IN  Renumbered(ladder, [k \in Siblings(ladder) |->
            IF k = l THEN o
            ELSE IF from < level[k].order /\ level[k].order <= o THEN level[k].order - 1
            ELSE IF o <= level[k].order /\ level[k].order < from THEN level[k].order + 1
            ELSE level[k].order])
reorderLevel(l, o) ==
    /\ l \in DOMAIN level /\ o \in 1 .. Cardinality(Siblings(level[l].program)) /\ Writes
    /\ level' = Moved(l, o) /\ UNCHANGED <<program, content, link, placement, spent>>
GapClosed(l) ==
    Without(Renumbered(level[l].program, [k \in Siblings(level[l].program) |->
                level[k].order - (IF level[k].order > level[l].order THEN 1 ELSE 0)]), l)
deleteLevel(l) ==
    /\ l \in DOMAIN level /\ Writes
    /\ \A x \in Contents : <<l, x>> \notin link
    /\ \A s \in DOMAIN placement : placement[s].level # l
    /\ level' = GapClosed(l) /\ spent' = spent \union {l} /\ UNCHANGED <<program, content, link, placement>>

createContent(x) == x \notin DOMAIN content /\ Writes /\ content' = Including(content, x, "open")
                    /\ UNCHANGED <<program, level, link, placement, panel, spent>>
updateContent(x, v) == x \in DOMAIN content /\ Writes /\ content' = [content EXCEPT ![x] = v]
                       /\ UNCHANGED <<program, level, link, placement, panel, spent>>
(* The links of a content go with it.                                      *)
deleteContent(x) ==
    /\ x \in DOMAIN content /\ Writes
    /\ link' = {p \in link : p[2] # x} /\ content' = Without(content, x)
    /\ UNCHANGED <<program, level, placement, panel, spent>>
(* The caller names the program it resolved the level from.                *)
attachContent(l, x, g) ==
    /\ l \in DOMAIN level /\ x \in DOMAIN content /\ g \in program
    /\ level[l].program = g /\ <<l, x>> \notin link /\ Writes
    /\ link' = link \union {<<l, x>>} /\ UNCHANGED <<program, level, content, placement, spent>>
detachContent(l, x) == <<l, x>> \in link /\ Writes /\ link' = link \ {<<l, x>>}
                       /\ UNCHANGED <<program, level, content, placement, panel, spent>>

(* A first placement starts a history; a move adds both of its ends.       *)
assignPlacement(s, g, l) ==
    /\ l \in DOMAIN level /\ g \in program /\ level[l].program = g /\ level[l].active /\ Writes
    /\ placement' =
         IF s \notin DOMAIN placement
         THEN Including(placement, s, [program |-> g, level |-> l, history |-> <<>>])
         ELSE IF placement[s].level = l /\ placement[s].program = g THEN placement
         ELSE [placement EXCEPT ![s] =
                  [program |-> g, level |-> l,
                   history |-> Append(@.history, [from |-> @.level, to |-> l])]]
    /\ UNCHANGED <<program, level, content, link, panel, spent>>
removePlacement(s) == s \in DOMAIN placement /\ Writes /\ placement' = Without(placement, s)
                      /\ UNCHANGED <<program, level, content, link, panel, spent>>

-----------------------------------------------------------------------------
(* The panel: a program and, under it, its levels as they were last read.  *)
(* Another window may have changed them since.                             *)

Selected == IF panel.program \in program THEN panel.program ELSE CHOOSE g \in program : TRUE
RowsOf(g) == [l \in Siblings(g) |-> level[l].order]
(* The panel of another program shows nothing until its rows are read.     *)
selectProgram(g) ==
    /\ g \in program /\ g # panel.program
    /\ panel' = [program |-> g, rows |-> <<>>, open |-> Nothing]
    /\ UNCHANGED <<program, level, content, link, placement, spent, writes>>
openLevel(l) ==
    /\ l \in DOMAIN panel.rows
    /\ panel' = [panel EXCEPT !.open = IF @ = l THEN Nothing ELSE l]
    /\ UNCHANGED <<program, level, content, link, placement, spent, writes>>
readRows ==
    /\ program # {}
    /\ panel' = [program |-> Selected, rows |-> RowsOf(Selected),
                 open |-> IF Selected = panel.program THEN panel.open ELSE Nothing]
    /\ panel' # panel
    /\ UNCHANGED <<program, level, content, link, placement, spent, writes>>
(* The arrows of a row move it one up or down from the order it shows.     *)
moveLevel(l, d) ==
    /\ l \in DOMAIN panel.rows /\ (panel.rows[l] + d) \in 1 .. Cardinality(DOMAIN panel.rows)
    /\ reorderLevel(l, panel.rows[l] + d) /\ UNCHANGED panel
removeLevel(l) == l \in DOMAIN panel.rows /\ deleteLevel(l) /\ UNCHANGED panel
attach(x) == panel.open \in DOMAIN panel.rows /\ attachContent(panel.open, x, panel.program)
             /\ UNCHANGED panel

-----------------------------------------------------------------------------
(* The academy starts with two ladders.                                    *)
LadderStart(l1, l2, l3, g1, g2, x, s) ==
    /\ program = {g1, g2}
    /\ level = [l \in {l1, l2, l3} |-> LevelRow(IF l = l3 THEN g2 ELSE g1, IF l = l2 THEN 2 ELSE 1, TRUE, FALSE)]
    /\ content = [c \in {x} |-> "open"] /\ link = {<<l2, x>>}
    /\ placement = [p \in {s} |-> [program |-> g1, level |-> l2, history |-> <<>>]]
    /\ panel = [program |-> g1, rows |-> RowsOf(g1), open |-> Nothing] /\ writes = 0 /\ spent = {}
LadderNext ==
    \/ \E g \in Programs : createProgram(g) \/ deleteProgram(g) \/ selectProgram(g)
    \/ \E l \in Levels, g \in Programs, o \in 1 .. Cardinality(Levels) : createLevel(l, g, o)
    \/ \E l \in Levels, a, e \in BOOLEAN : updateLevel(l, a, e)
    \/ \E l \in Levels : openLevel(l) \/ removeLevel(l) \/ \E d \in {-1, 1} : moveLevel(l, d)
    \/ \E x \in Contents : createContent(x) \/ deleteContent(x) \/ attach(x)
    \/ \E x \in Contents, v \in Standings : updateContent(x, v)
    \/ \E l \in Levels, x \in Contents : detachContent(l, x)
    \/ \E s \in Pupils, g \in Programs, l \in Levels : assignPlacement(s, g, l)
    \/ \E s \in Pupils : removePlacement(s)
    \/ readRows

-----------------------------------------------------------------------------
LadderTypeOK ==
    /\ program \subseteq Programs /\ DOMAIN level \subseteq Levels /\ DOMAIN content \subseteq Contents
    /\ \A l \in DOMAIN level : level[l].order \in 1 .. Cardinality(Levels)
    /\ link \subseteq Levels \X Contents /\ DOMAIN placement \subseteq Pupils
    /\ panel.open \in Levels \union {Nothing} /\ writes \in 0 .. MaxLadderWrites

(* Each ladder is numbered 1 to N without a gap or a duplicate, whatever   *)
(* was inserted, moved or deleted, also from rows read before another      *)
(* window's change.                                                        *)
LaddersAreContiguous == \A g \in program : {level[l].order : l \in Siblings(g)} = 1 .. Cardinality(Siblings(g))
(* What hangs on something keeps it: levels their program, links their     *)
(* level and content, a placed student the level and its program.          *)
LaddersKeepTheirParents ==
    /\ \A l \in DOMAIN level : level[l].program \in program
    /\ \A p \in link : p[1] \in DOMAIN level /\ p[2] \in DOMAIN content
    /\ \A s \in DOMAIN placement : Stands(s)
(* A student's history is one path that ends at the present level.         *)
HistoriesArePaths ==
    \A s \in DOMAIN placement : LET h == placement[s].history IN
        /\ \A i \in 1 .. (Len(h) - 1) : h[i].to = h[i + 1].from
        /\ h # <<>> => h[Len(h)].to = placement[s].level
(* The rows of the panel are rows of the program it names.                 *)
PanelListsItsProgram ==
    \A l \in DOMAIN panel.rows \cap DOMAIN level : level[l].program = panel.program
LaddersStand == LaddersAreContiguous /\ LaddersKeepTheirParents /\ HistoriesArePaths /\ PanelListsItsProgram

(* The two readings of the rule agree: the students an open content counts *)
(* are those whose list has it; and no list has a content twice, opened    *)
(* and locked.                                                             *)
EligibilityAgrees ==
    /\ \A x \in DOMAIN content : content[x] = "open" =>
         resolveEligibleStudentIds(x) = {s \in DOMAIN placement : x \in resolveEligibleContent(s)}
    /\ \A s \in DOMAIN placement : resolveEligibleContent(s) \cap resolveLockedContent(s) = {}

(* The ladders stand, and say the same from both ends.                     *)
LaddersHold == LaddersStand /\ EligibilityAgrees
=============================================================================
