--------------------------- MODULE DemoEnvironment ---------------------------
(***************************************************************************)
(* The data of one browser: which environment it is (nothing chosen yet,   *)
(* the customer's own, the showcase), whose records it holds, and the      *)
(* delivery that removes the showcase for good.  Marker, dataset and       *)
(* delivery state are three keys of localStorage, written one after the    *)
(* other by several windows; a window runs a block of JavaScript alone,    *)
(* but may die, or meet the quota, between two writes of a block.          *)
(***************************************************************************)
EXTENDS Naturals, Sequences, FiniteSets

CONSTANTS Windows

VARIABLES disk,      \* localStorage: marker, data, delivery
          work,      \* what a window awaits the end of
          vault,     \* a backup file on the computer, or none
          overtaken  \* history: awaiting windows whose environment was relabelled

demoVars == <<disk, work, vault, overtaken>>

(* Records: the first account, showcase rows, what was entered while the   *)
(* marker said sample, and what was entered while it said empty.           *)
Records == {"admin", "seed", "trial", "own"}
Stamps == {"absent", "demo", "customer"}
Dataset == [rows : SUBSET Records, stamp : Stamps, whole : BOOLEAN]
NoData == [rows |-> {}, stamp |-> "absent", whole |-> FALSE]   \* nothing under the key
Data(rows, stamp) == [rows |-> rows, stamp |-> stamp, whole |-> TRUE]

Disk == [marker : {"none", "empty", "sample", "demo"}, data : Dataset,
         delivery : {"demo_active", "removing", "delivered", "locked"}]
Backups == [environment : {"demo", "empty"}, data : Dataset]
NoBackup == [environment |-> "demo", data |-> NoData]

createEmptyEnvironment == {"admin"}
createSeedDataset == {"seed"}
createEmptyDataset == {}

-----------------------------------------------------------------------------
(* What is read.  "demo" is an old name of sample.                         *)
canonicalLifecycleMarker(d) == IF d.marker = "demo" THEN "sample" ELSE d.marker
isInitialized(d) == d.data # NoData
isDemoCapabilityAvailable(d) == d.delivery = "demo_active"
isDestructiveOperationAllowed(d) == d.delivery # "removing"

readLifecycleState(d) ==
    IF ~isInitialized(d) THEN "uninitialized"
    ELSE IF d.marker # "none" THEN canonicalLifecycleMarker(d)
    ELSE IF isDemoCapabilityAvailable(d) THEN "sample" ELSE "empty"

(* provenanceForLifecycle and the ownership that marker and stamp agree on. *)
Owner(mode) == IF mode = "sample" THEN "demo" ELSE "customer"
evaluateDeliveryOwnershipMutant(d) ==
    CASE ~isInitialized(d) -> "no-environment"
      [] isInitialized(d) /\ d.marker = "none" -> "unproven"
      [] OTHER -> Owner(canonicalLifecycleMarker(d))
evaluateDeliveryOwnership(d) ==
    CASE ~isInitialized(d) -> "no-environment"
      [] isInitialized(d) /\ d.marker = "none" -> "unproven"
      [] OTHER -> LET owner == Owner(canonicalLifecycleMarker(d))
                  IN IF d.data.stamp \in {"absent", owner} THEN owner ELSE "unproven"

(* snapshot: a dataset of an older build is completed from the seed.       *)
migrateDataset(d) == IF isInitialized(d) /\ ~d.data.whole
                     THEN [d EXCEPT !.data.whole = TRUE, !.data.rows = @ \cup {"seed"}]
                     ELSE d
isPristineEmpty(d) == /\ isInitialized(d) /\ d.marker = "empty"
                      /\ migrateDataset(d).data.rows = createEmptyEnvironment

-----------------------------------------------------------------------------
(* What is written: the successive contents of the disk.  A block leaves   *)
(* the last of them, or an earlier one if it is cut short.                 *)
Cut(blocks) == disk' \in {blocks[i] : i \in DOMAIN blocks}
Final(blocks) == blocks[Len(blocks)]

MarkedMutant(d, mode) == [d EXCEPT !.marker = readLifecycleState(d)]
Marked(d, mode) == [d EXCEPT !.marker = mode]
Replace(d, data) ==
    LET creating == d.marker = "none"
        labelled == IF creating THEN Marked(d, "empty") ELSE d
        stamped == IF creating /\ data.stamp = "absent" THEN [data EXCEPT !.stamp = "customer"] ELSE data
    IN <<labelled, [labelled EXCEPT !.data = stamped]>>

initializeEnvironment(d, mode, rows) ==
    <<Marked(d, mode), [Marked(d, mode) EXCEPT !.data = Data(rows, Owner(mode))]>>

Reset(d) == <<[d EXCEPT !.data = NoData], [d EXCEPT !.data = NoData, !.marker = "none"]>>

(* applyDataset: a safety copy is read first; a mode installs its stamp    *)
(* with the data and its marker after them.                                *)
applyDataset(d, data) == Replace(migrateDataset(d), data)
applyDatasetAs(d, rows, mode) ==
    LET written == Replace(migrateDataset(d), Data(rows, Owner(mode)))
    IN Append(written, Marked(Final(written), mode))

(* deliverProduction from the boot state on: an environment, then the lock. *)
Lock(blocks) ==
    LET d == Final(blocks)
        boot == IF isInitialized(d) THEN blocks
                ELSE blocks \o initializeEnvironment(d, "empty", createEmptyEnvironment)
        ready == Final(boot)
    IN boot \o <<[ready EXCEPT !.delivery = "delivered"], [ready EXCEPT !.delivery = "locked"]>>

-----------------------------------------------------------------------------
DemoTypeOK ==
    /\ disk \in Disk /\ vault \in Backups
    /\ work \in [Windows -> {"none", "deliver", "clean", "wipe"}]
    /\ overtaken \subseteq {w \in Windows : work[w] # "none"}

(* A new browser, one of a build without markers or stamps, and a          *)
(* customer's of a build with fewer collections.                           *)
Start(marker, data) == [marker |-> marker, data |-> data, delivery |-> "demo_active"]
Older(rows, stamp) == [rows |-> rows, stamp |-> stamp, whole |-> FALSE]
DemoInit ==
    /\ disk \in {Start("none", NoData), Start("none", Older({"seed", "trial"}, "absent")),
                 Start("demo", Data({"seed", "trial"}, "absent")),
                 Start("empty", Older({"admin", "own"}, "customer"))}
    /\ work = [w \in Windows |-> "none"] /\ vault = NoBackup /\ overtaken = {}

(* Another window relabels the environment while w awaits something.       *)
Labels(d) == <<d.marker, d.data.stamp, d.data = NoData>>
Overtake(w) == overtaken' = {u \in Windows : work'[u] # "none" /\
                                (u \in overtaken \/ (u # w /\ Labels(disk') # Labels(disk)))}
Free(w) == work[w] = "none"
Done(w) == work' = [work EXCEPT ![w] = "none"] /\ Overtake(w)
Await(w, op) == work' = [work EXCEPT ![w] = op] /\ Overtake(w)
Now(w) == UNCHANGED <<work, vault>> /\ Overtake(w)

(* First run: refused once an environment exists.                          *)
ChooseEmpty(w) == /\ Free(w) /\ ~isInitialized(disk)
                  /\ Cut(initializeEnvironment(disk, "empty", createEmptyEnvironment)) /\ Now(w)
ChooseDemo(w) == /\ Free(w) /\ isDemoCapabilityAvailable(disk) /\ ~isInitialized(disk)
                 /\ Cut(initializeEnvironment(disk, "sample", createSeedDataset)) /\ Now(w)

(* persistLifecycleAdoption at the boot of a window.                       *)
Adopt(w) == /\ isInitialized(disk) /\ disk.marker = "none" /\ isDemoCapabilityAvailable(disk)
            /\ disk' = Marked(disk, "sample") /\ Now(w)

(* A read completes an old dataset.                                        *)
Snapshot(w) == disk' = migrateDataset(disk) /\ disk' # disk /\ Now(w)

(* mutate: a repository enters records, or deletes those entered.          *)
Entered(d) == IF canonicalLifecycleMarker(d) = "sample" THEN "trial" ELSE "own"
Mutate(w) ==
    LET d == migrateDataset(disk)
        data == IF isInitialized(d) THEN d.data ELSE Data(createEmptyDataset, "absent")
    IN /\ Cut(Replace(d, [data EXCEPT !.rows = @ \cup {Entered(d)}])) /\ Now(w)
DeleteRecords(w) ==
    /\ isInitialized(disk)
    /\ Cut(Replace(migrateDataset(disk), [migrateDataset(disk).data EXCEPT !.rows = @ \ {"own", "trial"}]))
    /\ Now(w)

-----------------------------------------------------------------------------
(* The operations of the settings panel that answer at once.               *)
resetToSeedMutant(w) == /\ Free(w)
                        /\ Cut(applyDatasetAs(disk, createSeedDataset, "sample")) /\ Now(w)
resetToSeed(w) == /\ Free(w) /\ isDemoCapabilityAvailable(disk)
                  /\ Cut(applyDatasetAs(disk, createSeedDataset, "sample")) /\ Now(w)

Clear(w) == /\ Free(w) /\ isDestructiveOperationAllowed(disk)
            /\ Cut(applyDataset(disk, Data(createEmptyDataset, "absent"))) /\ Now(w)

(* importSample: not over a customer's records, nor where nothing is proven. *)
Ownership == evaluateDeliveryOwnership(disk)
SampleInstalled(d) == migrateDataset(d).data.rows = createSeedDataset
importSample(w) ==
    /\ Free(w) /\ isDemoCapabilityAvailable(disk)
    /\ \/ ~isInitialized(disk) /\ \/ Cut(initializeEnvironment(disk, "sample", createSeedDataset))
                                  \/ disk' = Marked(disk, "none")   \* the write failed
       \/ Ownership = "demo" /\ SampleInstalled(disk) /\ disk.marker = "demo"
          /\ disk' = Marked(migrateDataset(disk), "sample")
       \/ /\ isInitialized(disk)
          /\ \/ Ownership = "demo" /\ ~SampleInstalled(disk)
             \/ Ownership = "customer" /\ isPristineEmpty(disk)
          /\ Cut(applyDatasetAs(disk, createSeedDataset, "sample"))
    /\ Now(w)

exportBackup(w) ==
    LET d == migrateDataset(disk)
    IN /\ isInitialized(d)
       /\ vault' = [environment |-> IF readLifecycleState(d) = "empty" THEN "empty" ELSE "demo", data |-> d.data]
       /\ disk' = d /\ UNCHANGED work /\ Overtake(w)

(* restoreBackup keeps the marker; the stamp comes with the data.          *)
restoreBackup(w) ==
    /\ Free(w) /\ vault # NoBackup /\ isDestructiveOperationAllowed(disk)
    /\ isDemoCapabilityAvailable(disk) \/ vault.environment = "empty"
    /\ Cut(applyDataset(disk, vault.data)) /\ Now(w)

(* uninitializeEnvironment: the data at once, the stored files later.      *)
uninitializeEnvironment(w) ==
    /\ Free(w) /\ isDemoCapabilityAvailable(disk)
    /\ Cut(Reset(disk)) /\ Await(w, "wipe") /\ UNCHANGED vault
FilesWiped(w) == work[w] = "wipe" /\ UNCHANGED <<disk, vault>> /\ Done(w)

(* resetToClean: the verdict, the files of the showcase, then the data; a  *)
(* file that cannot be removed stops it.                                   *)
resetToClean(w) ==
    /\ Free(w) /\ isDemoCapabilityAvailable(disk)
    /\ isInitialized(disk) /\ ~isPristineEmpty(disk) /\ Ownership = "demo"
    /\ disk' = migrateDataset(disk) /\ Await(w, "clean") /\ UNCHANGED vault
FilesCleaned(w) ==
    /\ work[w] = "clean"
    /\ disk' = disk \/ Cut(applyDatasetAs(disk, createEmptyEnvironment, "empty"))
    /\ Done(w) /\ UNCHANGED vault

(* deliverProduction: the waypoint, the verdict, the files of the          *)
(* showcase; then data, credentials (which may refuse to go), a boot       *)
(* state and the lock.                                                     *)
Waypoint == [disk EXCEPT !.delivery = "removing"]
deliverProduction(w) ==
    /\ Free(w) /\ UNCHANGED vault
    /\ \/ disk.delivery = "delivered" /\ disk' = [disk EXCEPT !.delivery = "locked"] /\ Done(w)
       \/ /\ disk.delivery \in {"demo_active", "removing"}
          /\ \/ Ownership = "unproven" /\ disk' = Waypoint /\ Done(w)
             \/ Ownership = "demo" /\ disk' = Waypoint /\ Await(w, "deliver")
             \/ Ownership \in {"customer", "no-environment"} /\ Cut(Lock(<<Waypoint>>)) /\ Done(w)
FilesDelivered(w) ==
    /\ work[w] = "deliver"
    /\ disk' = disk \/ Cut(Lock(Reset(disk)))
    /\ Done(w) /\ UNCHANGED vault

(* A window is closed or loaded anew.                                      *)
Close(w) == ~Free(w) /\ UNCHANGED <<disk, vault>> /\ Done(w)

DemoNext == \E w \in Windows :
    \/ ChooseEmpty(w) \/ ChooseDemo(w) \/ Adopt(w) \/ Snapshot(w) \/ Mutate(w) \/ DeleteRecords(w)
    \/ resetToSeed(w) \/ Clear(w) \/ importSample(w) \/ exportBackup(w) \/ restoreBackup(w)
    \/ uninitializeEnvironment(w) \/ FilesWiped(w) \/ resetToClean(w) \/ FilesCleaned(w)
    \/ deliverProduction(w) \/ FilesDelivered(w) \/ Close(w)
DemoSpec == DemoInit /\ [][DemoNext]_demoVars

-----------------------------------------------------------------------------
(* Records that marker or stamp call the customer's stay so, unless a      *)
(* person deletes, clears, replaces or restores them: no first-run choice, *)
(* sample import, clean reset or delivery takes them, however these are    *)
(* cut short, save one whose environment another window relabelled while   *)
(* it awaited the removal of files.  Windows meet between these steps and  *)
(* awaits: a check and the writes after it are one synchronous block.      *)
Customers(d) == "own" \in d.data.rows /\ (d.marker = "empty" \/ d.data.stamp = "customer")
Explicit(w) == \/ DeleteRecords(w) \/ resetToSeed(w) \/ Clear(w) \/ restoreBackup(w)
               \/ uninitializeEnvironment(w)
CustomerRecordsSurvive ==
    [][Customers(disk) /\ ~Customers(disk')
        => \E w \in Windows : Explicit(w) \/ (w \in overtaken /\ (FilesCleaned(w) \/ FilesDelivered(w)))]_demoVars

(* Delivered is delivered: no backup, import, late answer or crash makes   *)
(* the environment a showcase again.                                       *)
LockedMeansProduction ==
    disk.delivery \in {"delivered", "locked"} => readLifecycleState(disk) # "sample"
=============================================================================
