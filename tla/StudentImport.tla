---------------------------- MODULE StudentImport ----------------------------
(***************************************************************************)
(* The import wizard of students and the exports beside it: a file is      *)
(* read, its columns are mapped, its rows are checked against what is      *)
(* stored, and a confirmed report is written row by row, while the user    *)
(* starts over or leaves and other clients enroll students.                *)
(* Left out: the fields of a row besides the three below, the text formats *)
(* apart from what a file is refused for, and the wording of issues.       *)
(***************************************************************************)
EXTENDS Naturals, Sequences, FiniteSets

CONSTANTS
    Files,         \* files a user has: [format, ends, rows], cells by column
    Columns,
    NationalIds,   \* cells that pass the checksum
    Personal,      \* cells that are names of people
    Formulas,      \* cells that a spreadsheet would evaluate
    Empty,         \* an empty cell
    Staff,         \* names of teachers that exist
    PageCap,       \* students on one page of the store
    MAX_ROWS,
    Null,
    MaxSteps       \* bound on operations, failures, and what others write

ASSUME ImportAssumption ==
    /\ \A f \in Files : /\ f.format \in {"csv", "xlsx", "neither"} /\ f.ends \in BOOLEAN
                        /\ f.rows \in Seq([Columns -> NationalIds \union Personal \union Formulas \union {Empty}])
    /\ Null \notin Columns /\ Staff \subseteq Personal /\ {MAX_ROWS, PageCap, MaxSteps} \subseteq Nat

Fields == {"nationalId", "name", "teacher"}
Required == {"nationalId", "name"}
Unmapped == [k \in Fields |-> Null]

VARIABLES
    enrolled,    \* the students that are stored, oldest first
    step, sheet, mapping, report, result, atomic, parseError, busy,
    wizard,      \* which visit of the settings shows the wizard
    ops,         \* what was asked for and is not answered
    turned,      \* history: while a report was made its file was dropped or its columns were changed
    twice,       \* history: a file was chosen while something was on its way
    committed,   \* history: the reports that were confirmed
    born,        \* history: what imports wrote, with the place of its report in these
    count

importVars == <<enrolled, step, sheet, mapping, report, result, atomic, parseError, busy, wizard, ops,
                turned, twice, committed, born, count>>
wizardVars == <<step, sheet, mapping, report, result, atomic, parseError, busy, wizard>>

Goes == count < MaxSteps /\ count' = count + 1
EnrolledIds == {enrolled[i] : i \in DOMAIN enrolled}
Mine(op) == op.wizard = wizard

-----------------------------------------------------------------------------
(* Reading a file, and checking its rows                                   *)

(* Lines are counted as they end, before the last one if nothing ends it,  *)
(* rows of a workbook as they are read; the headers count.                 *)
parseCsv(f) == IF Len(f.rows) + (IF f.ends THEN 1 ELSE 0) <= MAX_ROWS + 1 THEN f.rows ELSE Null
parseXlsx(f) == IF Len(f.rows) + 1 <= MAX_ROWS + 1 THEN f.rows ELSE Null
parseSpreadsheet(f) == CASE f.format = "csv" -> parseCsv(f) [] f.format = "xlsx" -> parseXlsx(f) [] OTHER -> Null

(* A column is recognised by its header: column k is headed by field k.    *)
autoMapColumns(headed) == [k \in Fields |-> IF k \in headed THEN k ELSE Null]
missingRequired == {k \in Required : mapping[k] = Null}

cellAt(row, map, field) == IF map[field] = Null THEN Empty ELSE row[map[field]]
isFormulaLike(cell) == cell \in Formulas

(* The row is free of errors but for what other rows and the store hold.   *)
FieldsPass(row, map, staff) ==
    /\ \A k \in Fields : ~isFormulaLike(cellAt(row, map, k))
    /\ cellAt(row, map, "name") \in Personal
    /\ cellAt(row, map, "nationalId") \in NationalIds
    /\ cellAt(row, map, "teacher") \in staff \union {Empty} /\ staff # {}

(* A number counts as taken by an earlier row even if that row fails.      *)
validateStudentRows(rows, map, context) ==
    LET id(i) == cellAt(rows[i], map, "nationalId")
        fresh(i) == id(i) \notin context.ids /\ \A j \in 1 .. i - 1 : id(j) # id(i)
        valid == {i \in DOMAIN rows : FieldsPass(rows[i], map, context.staff) /\ fresh(i)}
    IN  [rows |-> rows, mapping |-> map, valid |-> valid, failed |-> DOMAIN rows \ valid,
         value |-> [i \in valid |-> [nationalId |-> id(i), name |-> cellAt(rows[i], map, "name")]]]

-----------------------------------------------------------------------------
(* The wizard                                                              *)

Launch(op) == ops' = ops \union {op} /\ busy' = TRUE
Returns(op) == ops' = ops \ {op}
(* What an answer does to the wizard that asked; another one has forgotten *)
(* it.                                                                     *)
Lands(op, change) == IF Mine(op) THEN change /\ busy' = FALSE ELSE UNCHANGED wizardVars

(* The button waits while something is on its way, the input behind it     *)
(* does not.                                                               *)
onFile ==
    /\ step = "upload" /\ Goes
    /\ twice' = (twice \/ busy)
    /\ \E f \in Files : Launch([is |-> "read", wizard |-> wizard, file |-> f])
    /\ parseError' = FALSE
    /\ UNCHANGED <<enrolled, step, sheet, mapping, report, result, atomic, wizard, turned, committed, born>>

FileRead ==
    \E op \in ops :
        /\ op.is = "read" /\ Returns(op)
        /\ LET rows == parseSpreadsheet(op.file)
           IN  Lands(op, /\ IF rows = Null THEN parseError' = TRUE /\ UNCHANGED <<step, sheet, mapping>>
                            ELSE /\ step' = "map" /\ sheet' = rows /\ mapping' = autoMapColumns(Columns)
                                 /\ UNCHANGED parseError
                         /\ UNCHANGED <<report, result, atomic, wizard>>)
        /\ UNCHANGED <<enrolled, turned, twice, committed, born, count>>

setMapping ==
    /\ step = "map" /\ sheet # Null /\ Goes
    /\ \E k \in Fields, c \in Columns \union {Null} : mapping' = [mapping EXCEPT ![k] = c]
    /\ turned' = (turned \/ busy)
    /\ UNCHANGED <<enrolled, step, sheet, report, result, atomic, parseError, busy, wizard, ops, twice, committed, born>>

(* The rows and columns are those of the click; what is stored is read now.*)
runValidation ==
    /\ step = "map" /\ sheet # Null /\ ~busy /\ missingRequired = {}
    /\ Launch([is |-> "validate", wizard |-> wizard, rows |-> sheet, mapping |-> mapping, ids |-> Null])
    /\ turned' = FALSE
    /\ UNCHANGED <<enrolled, step, sheet, mapping, report, result, atomic, parseError, wizard, twice, committed, born, count>>

(* The students come as one page.                                          *)
loadStudentImportContext ==
    \E op \in ops :
        /\ op.is = "validate" /\ op.ids = Null
        /\ ops' = (ops \ {op}) \union {[op EXCEPT !.ids = {enrolled[i] : i \in {j \in DOMAIN enrolled : j <= PageCap}}]}
        /\ UNCHANGED <<enrolled, wizardVars, turned, twice, committed, born, count>>

Validated ==
    \E op \in ops :
        /\ op.is = "validate" /\ op.ids # Null /\ Returns(op)
        /\ Lands(op, /\ step' = "review"
                     /\ report' = validateStudentRows(op.rows, op.mapping, [ids |-> op.ids, staff |-> Staff])
                     /\ UNCHANGED <<sheet, mapping, result, atomic, parseError, wizard>>)
        /\ UNCHANGED <<enrolled, turned, twice, committed, born, count>>

ValidationFails ==
    \E op \in ops :
        /\ op.is \in {"validate", "export"} /\ Goes /\ Returns(op)
        /\ Lands(op, /\ parseError' = (parseError \/ op.is = "validate")
                     /\ UNCHANGED <<step, sheet, mapping, report, result, atomic, wizard>>)
        /\ UNCHANGED <<enrolled, turned, twice, committed, born>>

Back ==
    /\ step = "review" /\ step' = "map"
    /\ UNCHANGED <<enrolled, sheet, mapping, report, result, atomic, parseError, busy, wizard, ops, turned, twice, committed, born, count>>

setAtomic ==
    /\ step = "review" /\ Goes /\ atomic' = ~atomic
    /\ UNCHANGED <<enrolled, step, sheet, mapping, report, result, parseError, busy, wizard, ops, turned, twice, committed, born>>

commit ==
    /\ step = "review" /\ report # Null /\ ~busy /\ report.valid # {} /\ ~(atomic /\ report.failed # {})
    /\ Launch([is |-> "commit", wizard |-> wizard, report |-> report, atomic |-> atomic, nth |-> Len(committed) + 1,
            left |-> report.valid, imported |-> {}, lost |-> {}])
    /\ committed' = Append(committed, report)
    /\ UNCHANGED <<enrolled, step, sheet, mapping, report, result, atomic, parseError, wizard, turned, twice, born, count>>

(* The rows are created one after another.  A number that is taken is      *)
(* refused; an answer may be lost, with or without the write.              *)
commitStudentImport ==
    \E op \in ops :
        /\ op.is = "commit" /\ op.left # {}
        /\ LET i == CHOOSE j \in op.left : \A k \in op.left : j <= k
               new == op.report.value[i]
               free == new.nationalId \notin EnrolledIds
               Next(told, lost) == ops' = (ops \ {op}) \union
                   {[op EXCEPT !.left = @ \ {i}, !.imported = @ \union told, !.lost = @ \union lost]}
               Write == /\ enrolled' = Append(enrolled, new.nationalId)
                        /\ born' = born \union {[id |-> new.nationalId, name |-> new.name, row |-> i, nth |-> op.nth,
                                                 whole |-> op.atomic]}
           IN  \/ free /\ Write /\ Next({i}, {}) /\ UNCHANGED count
               \/ ~free /\ Next({}, {}) /\ UNCHANGED <<enrolled, born, count>>
               \/ free /\ Goes /\ Write /\ Next({}, {i})
               \/ Goes /\ Next({}, {}) /\ UNCHANGED <<enrolled, born>>
        /\ UNCHANGED <<wizardVars, turned, twice, committed>>

Committed ==
    \E op \in ops :
        /\ op.is = "commit" /\ op.left = {} /\ Returns(op)
        /\ Lands(op, /\ step' = "done"
                     /\ result' = [imported |-> Cardinality(op.imported), nth |-> op.nth, lost |-> op.lost,
                                   failed |-> Cardinality(op.report.failed)
                                              + (Cardinality(op.report.valid) - Cardinality(op.imported))]
                     /\ UNCHANGED <<sheet, mapping, report, atomic, parseError, wizard>>)
        /\ UNCHANGED <<enrolled, turned, twice, committed, born, count>>

(* An export shares the lock; the table that is downloaded is left out.    *)
runExport ==
    /\ ~busy /\ Goes
    /\ Launch([is |-> "export", wizard |-> wizard])
    /\ UNCHANGED <<enrolled, step, sheet, mapping, report, result, atomic, parseError, wizard, turned, twice, committed, born>>
exportEntity ==
    \E op \in ops :
        /\ op.is = "export" /\ Returns(op)
        /\ Lands(op, UNCHANGED <<step, sheet, mapping, report, result, atomic, parseError, wizard>>)
        /\ UNCHANGED <<enrolled, turned, twice, committed, born, count>>

(* Starting over is offered while something is on its way, too.            *)
reset ==
    /\ step # "upload"
    /\ step' = "upload" /\ sheet' = Null /\ mapping' = Unmapped /\ report' = Null /\ result' = Null /\ parseError' = FALSE
    /\ turned' = (turned \/ busy)
    /\ UNCHANGED <<enrolled, atomic, busy, wizard, ops, twice, committed, born, count>>

(* The settings are left and opened again.                                 *)
LeaveSettings ==
    /\ Goes
    /\ wizard' = wizard + 1 /\ step' = "upload" /\ sheet' = Null /\ mapping' = Unmapped
    /\ report' = Null /\ result' = Null /\ parseError' = FALSE /\ atomic' = TRUE /\ busy' = FALSE
    /\ turned' = FALSE /\ twice' = FALSE
    /\ UNCHANGED <<enrolled, ops, committed, born>>

(* Another client enrolls somebody, or removes somebody.                   *)
OthersEnroll ==
    /\ Goes
    /\ \E id \in NationalIds : enrolled' = IF id \in EnrolledIds THEN SelectSeq(enrolled, LAMBDA x : x # id)
                                           ELSE Append(enrolled, id)
    /\ UNCHANGED <<wizardVars, ops, turned, twice, committed, born>>

ImportInit ==
    /\ enrolled \in {<<>>} \union {<<id>> : id \in NationalIds}
    /\ step = "upload" /\ sheet = Null /\ mapping = Unmapped /\ report = Null /\ result = Null
    /\ atomic = TRUE /\ parseError = FALSE /\ busy = FALSE /\ wizard = 0 /\ ops = {}
    /\ turned = FALSE /\ twice = FALSE /\ committed = <<>> /\ born = {} /\ count = 0
ImportNext ==
    \/ onFile \/ FileRead \/ setMapping \/ runValidation \/ loadStudentImportContext \/ Validated \/ ValidationFails
    \/ Back \/ setAtomic \/ commit \/ commitStudentImport \/ Committed \/ runExport \/ exportEntity \/ reset
    \/ LeaveSettings \/ OthersEnroll
ImportSpec == ImportInit /\ [][ImportNext]_importVars

-----------------------------------------------------------------------------
(* Only one thing of a wizard is under way, and it knows: what a button    *)
(* starts cannot meet the answer of another button (the shared busy).      *)
OneAtATime == ~twice => /\ busy <=> \E op \in ops : Mine(op)
                        /\ Cardinality({op \in ops : Mine(op)}) <= 1

(* The report on review is about the file and the columns on the screen,   *)
(* unless the user dropped or changed them while it was made.              *)
ReviewShowsTheFile ==
    step = "review" /\ ~turned /\ ~twice => report.rows = sheet /\ report.mapping = mapping

(* What is written was confirmed on review: a row whose cells pass under   *)
(* the columns of its report, none of them a formula, each number once; in *)
(* the default mode nothing of a file with an invalid row.                 *)
OnlyConfirmedRows ==
    \A b \in born :
        LET of == committed[b.nth]
        IN  /\ b.row \in of.valid /\ FieldsPass(of.rows[b.row], of.mapping, Staff)
            /\ b.whole => of.failed = {}
            /\ \A c \in born : c.nth = b.nth /\ c.id = b.id => c = b

(* The result accounts for every row of the file, and claims a row only    *)
(* if it was written; a row it does not claim was not, unless the answer   *)
(* of its request was lost.                                                *)
ResultsTellTheStore ==
    step = "done" =>
        /\ result.imported + result.failed = Len(committed[result.nth].rows)
        /\ result.imported + Cardinality(result.lost) <= Cardinality({b \in born : b.nth = result.nth})

(* A sheet has at most one row above the limit (MAX_ROWS).                 *)
SheetsAreBounded == sheet # Null => Len(sheet) <= MAX_ROWS + 1

ImportHolds == OneAtATime /\ ReviewShowsTheFile /\ OnlyConfirmedRows /\ ResultsTellTheStore /\ SheetsAreBounded
ImportTypeOK ==
    /\ step \in {"upload", "map", "review", "done"} /\ {atomic, parseError, busy, turned, twice} \subseteq BOOLEAN
    /\ mapping \in [Fields -> Columns \union {Null}] /\ enrolled \in Seq(NationalIds)
    /\ wizard \in 0 .. MaxSteps /\ count \in 0 .. MaxSteps /\ \A op \in ops : op.wizard \in 0 .. wizard

=============================================================================
