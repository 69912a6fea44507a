----------------------------- MODULE ClientProofs -----------------------------
(* Proofs about what a browser keeps: the demo environment (the customer's *)
(* records survive, a delivered environment stays one), the signed-in      *)
(* session of its tabs, the role matrix that its controls follow, the      *)
(* academy's records, the brake of the sign-in form, the shell around the  *)
(* pages, and the ladders of levels.                                       *)
EXTENDS ClientSession, DemoEnvironment, Access, Academy, LoginThrottle, Shell,
        LearningLadder, SequenceTheorems, FiniteSetTheorems, WellFoundedInduction, TLAPS

-----------------------------------------------------------------------------
(* A block of writes, as the set of what the disk may be left with.        *)

Left(blocks) == {blocks[i] : i \in DOMAIN blocks}

LEMMA LeftOne == ASSUME NEW S, NEW a \in S
                 PROVE  <<a>> \in Seq(S) /\ <<a>> # <<>> /\ Left(<<a>>) = {a} /\ Final(<<a>>) = a
  BY DEF Left, Final

LEMMA LeftTwo == ASSUME NEW S, NEW a \in S, NEW b \in S
                 PROVE  /\ <<a, b>> \in Seq(S) /\ <<a, b>> # <<>>
                        /\ Left(<<a, b>>) = {a, b} /\ Final(<<a, b>>) = b
  BY DEF Left, Final

LEMMA LeftAppend == ASSUME NEW S, NEW s \in Seq(S), NEW x \in S
                    PROVE  /\ Append(s, x) \in Seq(S) /\ Append(s, x) # <<>>
                           /\ Left(Append(s, x)) = Left(s) \cup {x}
                           /\ Final(Append(s, x)) = x
  BY AppendProperties DEF Left, Final

LEMMA LeftConcat == ASSUME NEW S, NEW s \in Seq(S), NEW t \in Seq(S), t # <<>>
                    PROVE  /\ s \o t \in Seq(S) /\ s \o t # <<>>
                           /\ Left(s \o t) \subseteq Left(s) \cup Left(t)
                           /\ Final(s \o t) = Final(t)
<1>1. /\ s \o t \in Seq(S) /\ Len(s \o t) = Len(s) + Len(t)
      /\ \A i \in 1 .. Len(s) + Len(t) :
           (s \o t)[i] = IF i <= Len(s) THEN s[i] ELSE t[i - Len(s)]
  BY ConcatProperties
<1>2. Len(s) \in Nat /\ Len(t) \in Nat /\ Len(t) > 0
  BY EmptySeq, LenProperties
<1>3. Final(s \o t) = Final(t)
  BY <1>1, <1>2 DEF Final
<1>4. ASSUME NEW i \in DOMAIN (s \o t) PROVE (s \o t)[i] \in Left(s) \cup Left(t)
  <2>1. i \in 1 .. Len(s) + Len(t) /\ DOMAIN s = 1 .. Len(s) /\ DOMAIN t = 1 .. Len(t)
    BY <1>1, LenProperties
  <2>2. CASE i <= Len(s)
    BY <1>1, <1>2, <2>1, <2>2 DEF Left
  <2>3. CASE ~(i <= Len(s))
    <3>1. i - Len(s) \in 1 .. Len(t) /\ (s \o t)[i] = t[i - Len(s)]
      BY <1>1, <1>2, <2>1, <2>3
    <3> QED
      BY <2>1, <3>1 DEF Left
  <2> QED
    BY <2>2, <2>3
<1>5. s \o t # <<>>
  BY <1>1, <1>2, EmptySeq
<1>6. Left(s \o t) \subseteq Left(s) \cup Left(t)
  <2>1. \A y \in Left(s \o t) : \E i \in DOMAIN (s \o t) : y = (s \o t)[i]
    BY DEF Left
  <2> QED
    BY <1>4, <2>1
<1> QED
  BY <1>1, <1>3, <1>5, <1>6

-----------------------------------------------------------------------------
(* What the writes of the demo environment do to marker, data and delivery. *)

LEMMA DiskFields ==
  ASSUME NEW d \in Disk
  PROVE  /\ d.marker \in {"none", "empty", "sample", "demo"} /\ d.data \in Dataset
         /\ d.delivery \in {"demo_active", "removing", "delivered", "locked"}
         /\ d.data.rows \subseteq Records /\ d.data.stamp \in Stamps /\ d.data.whole \in BOOLEAN
  BY DEF Disk, Dataset

LEMMA DataFields ==
  /\ NoData \in Dataset /\ NoData.rows = {} /\ NoData.stamp = "absent" /\ ~NoData.whole
  /\ \A rows \in SUBSET Records, stamp \in Stamps :
       /\ Data(rows, stamp) \in Dataset /\ Data(rows, stamp) # NoData
       /\ Data(rows, stamp).rows = rows /\ Data(rows, stamp).stamp = stamp /\ Data(rows, stamp).whole
<1>1. ASSUME NEW rows \in SUBSET Records, NEW stamp \in Stamps
      PROVE  /\ Data(rows, stamp) \in Dataset
             /\ Data(rows, stamp).rows = rows /\ Data(rows, stamp).stamp = stamp
             /\ Data(rows, stamp).whole
  BY DEF Data, Dataset
<1>2. NoData \in Dataset /\ NoData.rows = {} /\ NoData.stamp = "absent" /\ ~NoData.whole
  BY DEF NoData, Dataset, Stamps, Records
<1> QED
  BY <1>1, <1>2

LEMMA MarkedShape ==
  ASSUME NEW d \in Disk, NEW m \in {"none", "empty", "sample", "demo"}
  PROVE  /\ Marked(d, m) \in Disk /\ Marked(d, m).marker = m
         /\ Marked(d, m).data = d.data /\ Marked(d, m).delivery = d.delivery
  BY DEF Marked, Disk

\* A read completes an old dataset; it removes nothing and relabels nothing.
LEMMA MigratedShape ==
  ASSUME NEW d \in Disk
  PROVE  /\ migrateDataset(d) \in Disk
         /\ migrateDataset(d).marker = d.marker /\ migrateDataset(d).delivery = d.delivery
         /\ migrateDataset(d).data.stamp = d.data.stamp
         /\ d.data.rows \subseteq migrateDataset(d).data.rows
         /\ migrateDataset(d).data = NoData <=> d.data = NoData
         /\ d.data # NoData => migrateDataset(d).data.whole
<1>1. CASE isInitialized(d) /\ ~d.data.whole
  <2> DEFINE m == [[d EXCEPT !.data.whole = TRUE] EXCEPT !.data.rows = @ \cup {"seed"}]
  <2>1. migrateDataset(d) = m
    BY <1>1, Zenon DEF migrateDataset
  <2>2. m.marker = d.marker /\ m.delivery = d.delivery /\ m.data.stamp = d.data.stamp
        /\ m.data.rows = d.data.rows \cup {"seed"} /\ m.data.whole /\ m \in Disk
    BY DEF Disk, Dataset, Records
  <2>3. m.data # NoData
    BY <2>2, DataFields
  <2> HIDE DEF m
  <2> QED
    BY <1>1, <2>1, <2>2, <2>3 DEF isInitialized
<1>2. CASE ~(isInitialized(d) /\ ~d.data.whole)
  <2>1. migrateDataset(d) = d
    BY <1>2 DEF migrateDataset
  <2> QED
    BY <1>2, <2>1 DEF isInitialized
<1> QED
  BY <1>1, <1>2

\* The marker and the stamp after data were replaced.
MarkerOf(d) == IF d.marker = "none" THEN "empty" ELSE d.marker
StampOf(d, data) == IF d.marker = "none" /\ data.stamp = "absent" THEN "customer" ELSE data.stamp

LEMMA ReplaceShape ==
  ASSUME NEW d \in Disk, NEW data \in Dataset
  PROVE  /\ Replace(d, data) \in Seq(Disk) /\ Replace(d, data) # <<>>
         /\ \A x \in Left(Replace(d, data)) :
              /\ x \in Disk /\ x.delivery = d.delivery /\ x.marker = MarkerOf(d)
              /\ \/ x.data = d.data
                 \/ /\ x.data.rows = data.rows /\ x.data.whole = data.whole
                    /\ x.data.stamp = StampOf(d, data)
         /\ LET last == Final(Replace(d, data))
            IN  /\ last \in Disk /\ last.delivery = d.delivery /\ last.marker = MarkerOf(d)
                /\ last.data.rows = data.rows /\ last.data.whole = data.whole
                /\ last.data.stamp = StampOf(d, data)
<1> DEFINE labelled == IF d.marker = "none" THEN Marked(d, "empty") ELSE d
           stamped == IF d.marker = "none" /\ data.stamp = "absent"
                      THEN [data EXCEPT !.stamp = "customer"] ELSE data
           written == [labelled EXCEPT !.data = stamped]
<1>1. /\ labelled \in Disk /\ labelled.marker = MarkerOf(d)
      /\ labelled.data = d.data /\ labelled.delivery = d.delivery
  BY MarkedShape DEF MarkerOf
<1>2. /\ stamped \in Dataset /\ stamped.rows = data.rows /\ stamped.whole = data.whole
      /\ stamped.stamp = StampOf(d, data)
  BY DEF Dataset, Stamps, StampOf
<1> HIDE DEF labelled, stamped
<1>3. /\ written \in Disk /\ written.marker = MarkerOf(d)
      /\ written.data = stamped /\ written.delivery = d.delivery
  BY <1>1, <1>2 DEF Disk
<1>4. Replace(d, data) = <<labelled, written>>
  BY DEF Replace, labelled, stamped
<1> HIDE DEF written
<1>5. /\ <<labelled, written>> \in Seq(Disk) /\ <<labelled, written>> # <<>>
      /\ Left(<<labelled, written>>) = {labelled, written} /\ Final(<<labelled, written>>) = written
  BY <1>1, <1>3, LeftTwo
<1> QED
  BY <1>1, <1>2, <1>3, <1>4, <1>5

LEMMA OwnerIsStamp == \A m : Owner(m) \in {"demo", "customer"}
  BY DEF Owner

LEMMA InitializeShape ==
  ASSUME NEW d \in Disk, NEW mode \in {"empty", "sample"}, NEW rows \in SUBSET Records
  PROVE  /\ initializeEnvironment(d, mode, rows) \in Seq(Disk)
         /\ initializeEnvironment(d, mode, rows) # <<>>
         /\ \A x \in Left(initializeEnvironment(d, mode, rows)) :
              /\ x \in Disk /\ x.delivery = d.delivery /\ x.marker = mode
              /\ x.data = d.data \/ x.data = Data(rows, Owner(mode))
         /\ LET last == Final(initializeEnvironment(d, mode, rows))
            IN  /\ last \in Disk /\ last.delivery = d.delivery /\ last.marker = mode
                /\ last.data = Data(rows, Owner(mode))
<1> DEFINE a == Marked(d, mode)
           b == [Marked(d, mode) EXCEPT !.data = Data(rows, Owner(mode))]
<1>1. a \in Disk /\ a.marker = mode /\ a.data = d.data /\ a.delivery = d.delivery
  BY MarkedShape
<1>2. Data(rows, Owner(mode)) \in Dataset
  BY DataFields, OwnerIsStamp DEF Stamps
<1>3. /\ b \in Disk /\ b.marker = mode /\ b.data = Data(rows, Owner(mode))
      /\ b.delivery = d.delivery
  BY <1>1, <1>2 DEF Disk
<1>4. initializeEnvironment(d, mode, rows) = <<a, b>>
  BY DEF initializeEnvironment
<1> HIDE DEF a, b
<1>5. <<a, b>> \in Seq(Disk) /\ <<a, b>> # <<>> /\ Left(<<a, b>>) = {a, b} /\ Final(<<a, b>>) = b
  BY <1>1, <1>3, LeftTwo
<1> QED
  BY <1>1, <1>3, <1>4, <1>5

LEMMA ResetShape ==
  ASSUME NEW d \in Disk
  PROVE  /\ Reset(d) \in Seq(Disk) /\ Reset(d) # <<>>
         /\ \A x \in Left(Reset(d)) : /\ x \in Disk /\ x.delivery = d.delivery /\ x.data = NoData
                                      /\ x.marker \in {d.marker, "none"}
         /\ LET last == Final(Reset(d))
            IN  /\ last \in Disk /\ last.delivery = d.delivery /\ last.data = NoData
                /\ last.marker = "none"
<1> DEFINE a == [d EXCEPT !.data = NoData]
           b == [[d EXCEPT !.data = NoData] EXCEPT !.marker = "none"]
<1>1. a \in Disk /\ a.marker = d.marker /\ a.data = NoData /\ a.delivery = d.delivery
  BY DataFields DEF Disk
<1>2. b \in Disk /\ b.marker = "none" /\ b.data = NoData /\ b.delivery = d.delivery
  BY DataFields DEF Disk
<1>3. Reset(d) = <<a, b>>
  BY Zenon DEF Reset
<1> HIDE DEF a, b
<1>4. <<a, b>> \in Seq(Disk) /\ <<a, b>> # <<>> /\ Left(<<a, b>>) = {a, b} /\ Final(<<a, b>>) = b
  BY <1>1, <1>2, LeftTwo
<1> QED
  BY <1>1, <1>2, <1>3, <1>4

LEMMA ApplyAsShape ==
  ASSUME NEW d \in Disk, NEW rows \in SUBSET Records, NEW mode \in {"empty", "sample"}
  PROVE  \A x \in Left(applyDatasetAs(d, rows, mode)) :
           /\ x \in Disk /\ x.delivery = d.delivery /\ x.marker \in {MarkerOf(d), mode}
           /\ \/ x.data = migrateDataset(d).data
              \/ x.data.rows = rows /\ x.data.stamp = Owner(mode)
           /\ x.marker = MarkerOf(d) \/ x.data.rows = rows
<1> DEFINE m == migrateDataset(d)
           new == Data(rows, Owner(mode))
           written == Replace(m, new)
<1>1. m \in Disk /\ m.marker = d.marker /\ m.delivery = d.delivery /\ MarkerOf(m) = MarkerOf(d)
  BY MigratedShape DEF MarkerOf
<1>2. new \in Dataset /\ new.rows = rows /\ new.stamp = Owner(mode) /\ StampOf(m, new) = Owner(mode)
  BY DataFields, OwnerIsStamp DEF Stamps, StampOf
<1> HIDE DEF m, new
<1>3. /\ written \in Seq(Disk) /\ written # <<>>
      /\ \A x \in Left(written) :
           /\ x \in Disk /\ x.delivery = d.delivery /\ x.marker = MarkerOf(d)
           /\ x.data = m.data \/ (x.data.rows = rows /\ x.data.stamp = Owner(mode))
      /\ Final(written) \in Disk /\ Final(written).delivery = d.delivery
      /\ Final(written).data.rows = rows /\ Final(written).data.stamp = Owner(mode)
  BY <1>1, <1>2, ReplaceShape
<1> HIDE DEF written
<1> DEFINE last == Marked(Final(written), mode)
<1>4. /\ last \in Disk /\ last.delivery = d.delivery /\ last.marker = mode
      /\ last.data.rows = rows /\ last.data.stamp = Owner(mode)
  BY <1>3, MarkedShape
<1>5. applyDatasetAs(d, rows, mode) = Append(written, last)
  BY DEF applyDatasetAs, m, new, written
<1> HIDE DEF last
<1>6. Left(Append(written, last)) = Left(written) \cup {last}
  BY <1>3, <1>4, LeftAppend
<1> QED
  BY <1>3, <1>4, <1>5, <1>6 DEF m

LEMMA LockShape ==
  ASSUME NEW blocks \in Seq(Disk), blocks # <<>>, NEW d \in Disk, d = Final(blocks)
  PROVE  \A x \in Left(Lock(blocks)) :
           \/ x \in Left(blocks)
           \/ /\ x \in Disk
              /\ isInitialized(d) => x.marker = d.marker /\ x.data = d.data
              /\ ~isInitialized(d) => x.marker = "empty"
<1> DEFINE more == initializeEnvironment(d, "empty", createEmptyEnvironment)
           boot == IF isInitialized(d) THEN blocks ELSE blocks \o more
           ready == Final(boot)
           a == [ready EXCEPT !.delivery = "delivered"]
           b == [ready EXCEPT !.delivery = "locked"]
<1>1. createEmptyEnvironment \in SUBSET Records
  BY DEF createEmptyEnvironment, Records
<1>2. /\ more \in Seq(Disk) /\ more # <<>>
      /\ \A x \in Left(more) : x \in Disk /\ x.marker = "empty"
      /\ Final(more) \in Disk /\ Final(more).marker = "empty"
  BY <1>1, InitializeShape
<1> HIDE DEF more
<1>3. /\ blocks \o more \in Seq(Disk) /\ blocks \o more # <<>>
      /\ Left(blocks \o more) \subseteq Left(blocks) \cup Left(more)
      /\ Final(blocks \o more) = Final(more)
  BY <1>2, LeftConcat
<1>4. /\ boot \in Seq(Disk) /\ boot # <<>>
      /\ \A x \in Left(boot) : x \in Left(blocks) \/ (~isInitialized(d) /\ x \in Disk /\ x.marker = "empty")
  BY <1>2, <1>3
<1>5. /\ ready \in Disk
      /\ isInitialized(d) => ready = d
      /\ ~isInitialized(d) => ready.marker = "empty"
  BY <1>2, <1>3
<1>6. Lock(blocks) = boot \o <<a, b>>
  BY DEF Lock, more
<1> HIDE DEF boot, ready
<1>7. /\ a \in Disk /\ a.marker = ready.marker /\ a.data = ready.data
      /\ b \in Disk /\ b.marker = ready.marker /\ b.data = ready.data
  <2>1. ready \in Disk
    BY <1>5
  <2> QED
    BY <2>1 DEF Disk
<1> HIDE DEF a, b
<1>8. <<a, b>> \in Seq(Disk) /\ <<a, b>> # <<>> /\ Left(<<a, b>>) = {a, b}
  BY <1>7, LeftTwo
<1>9. Left(boot \o <<a, b>>) \subseteq Left(boot) \cup {a, b}
  BY <1>4, <1>8, LeftConcat
<1> QED
  BY <1>4, <1>5, <1>6, <1>7, <1>9

-----------------------------------------------------------------------------
(***************************************************************************)
(* Delivered is delivered.  The lock is only written over an environment   *)
(* whose marker does not say sample, and from then on no operation writes  *)
(* that marker: each of those that do asks for the capability first.       *)
(***************************************************************************)

Sealed(d) == d.delivery \in {"delivered", "locked"} => d.marker \notin {"sample", "demo"}

\* The environment is the showcase: no record in it is the customer's.
ShowcaseOf(d) ==
  d.data # NoData /\ d.marker \in {"sample", "demo"} /\ d.data.stamp \in {"absent", "demo"}

\* A window removes files for a showcase, unless another relabelled it.
Clearing(w) == work[w] \in {"clean", "deliver"}
ClearsShowcase == \A w \in Windows : Clearing(w) /\ w \notin overtaken => ShowcaseOf(disk)

DemoInv == DemoTypeOK /\ Sealed(disk) /\ ClearsShowcase

\* What every step owes: typed, sealed, and the customer's records kept; what
\* the window that takes it does to a showcase keeps it one.
Saves(x) ==
  /\ x \in Disk
  /\ Sealed(disk) => Sealed(x)
  /\ ShowcaseOf(disk) => ShowcaseOf(x)
  /\ Customers(disk) => Customers(x)

LEMMA OwnershipIs ==
  ASSUME disk \in Disk
  PROVE  /\ Ownership = "no-environment" <=> disk.data = NoData
         /\ Ownership = "demo" <=> ShowcaseOf(disk)
         /\ Ownership = "customer" => disk.marker = "empty" /\ disk.data # NoData
         /\ Customers(disk) => disk.data # NoData /\ ~ShowcaseOf(disk)
<1>1. Customers(disk) => disk.data # NoData
  BY DataFields DEF Customers
<1>2. disk.marker \in {"none", "empty", "sample", "demo"}
  BY DiskFields
<1> QED
  BY <1>1, <1>2
  DEF Ownership, evaluateDeliveryOwnership, isInitialized, Owner, canonicalLifecycleMarker,
      ShowcaseOf, Customers

\* Reads and the repositories' own writes.
LEMMA RepositoriesKeep ==
  ASSUME disk \in Disk, NEW w \in Windows, Snapshot(w) \/ Mutate(w) \/ exportBackup(w)
  PROVE  Saves(disk')
<1> DEFINE d == migrateDataset(disk)
<1>1. /\ d \in Disk /\ d.marker = disk.marker /\ d.delivery = disk.delivery
      /\ d.data.stamp = disk.data.stamp /\ disk.data.rows \subseteq d.data.rows
      /\ d.data = NoData <=> disk.data = NoData
      /\ disk.data # NoData => d.data.whole
  BY MigratedShape
<1>2. CASE Snapshot(w) \/ exportBackup(w)
  <2>1. disk' = d
    BY <1>2 DEF Snapshot, exportBackup
  <2> QED
    BY <1>1, <2>1 DEF Saves, Sealed, ShowcaseOf, Customers
<1>3. CASE Mutate(w)
  <2> DEFINE old == IF isInitialized(disk) THEN d.data ELSE Data(createEmptyDataset, "absent")
             data == [old EXCEPT !.rows = @ \cup {Entered(d)}]
  <2>1. Cut(Replace(d, data))
    <3>1. isInitialized(d) <=> isInitialized(disk)
      BY <1>1 DEF isInitialized
    <3> QED
      BY <1>3, <3>1 DEF Mutate
  <2>2. old \in Dataset /\ old.whole /\ disk.data.rows \subseteq old.rows
        /\ (disk.data # NoData => old.stamp = disk.data.stamp)
    BY <1>1, DataFields, DiskFields DEF isInitialized, createEmptyDataset, Stamps
  <2> HIDE DEF old
  <2>3. Entered(d) \in Records
    BY DEF Entered, Records
  <2>4. /\ data \in Dataset /\ data.whole /\ data.stamp = old.stamp
        /\ disk.data.rows \subseteq data.rows
    BY <2>2, <2>3 DEF Dataset
  <2> HIDE DEF data, d
  <2>5. /\ disk' \in Disk /\ disk'.delivery = d.delivery /\ disk'.marker = MarkerOf(d)
        /\ \/ disk'.data = d.data
           \/ disk'.data.rows = data.rows /\ disk'.data.whole /\ disk'.data.stamp = StampOf(d, data)
    BY <1>1, <2>1, <2>4, ReplaceShape, ZenonT(60) DEF Cut, Left
  <2>6. disk.data # NoData => disk'.data # NoData
    BY <1>1, <2>5, DataFields
  <2>7. Sealed(disk) => Sealed(disk')
    BY <1>1, <2>5 DEF Sealed, MarkerOf
  <2>8. ShowcaseOf(disk) => ShowcaseOf(disk')
    BY <1>1, <2>2, <2>4, <2>5, <2>6 DEF ShowcaseOf, MarkerOf, StampOf
  <2>9. Customers(disk) => Customers(disk')
    <3>1. Customers(disk) => disk.data # NoData
      BY DataFields DEF Customers
    <3> QED
      BY <1>1, <2>2, <2>4, <2>5, <3>1 DEF Customers, MarkerOf, StampOf
  <2> QED
    BY <2>5, <2>7, <2>8, <2>9 DEF Saves
<1> QED
  BY <1>2, <1>3

\* A first-run choice, an adoption and an import of the sample.
LEMMA ChoicesKeep ==
  ASSUME disk \in Disk, NEW w \in Windows,
         ChooseEmpty(w) \/ ChooseDemo(w) \/ Adopt(w) \/ importSample(w)
  PROVE  /\ disk' \in Disk /\ Sealed(disk')
         /\ Customers(disk) => Customers(disk')
         /\ Adopt(w) => ~ShowcaseOf(disk)
<1>1. /\ createEmptyEnvironment \in SUBSET Records /\ createSeedDataset \in SUBSET Records
  BY DEF createEmptyEnvironment, createSeedDataset, Records
<1>2. disk.marker = "none" => ~ShowcaseOf(disk)
  BY DEF ShowcaseOf
<1>3. isInitialized(disk) <=> disk.data # NoData
  BY DEF isInitialized
<1>4. CASE ChooseEmpty(w)
  <2>1. disk' \in Left(initializeEnvironment(disk, "empty", createEmptyEnvironment))
    BY <1>4 DEF ChooseEmpty, Cut, Left
  <2>2. disk' \in Disk /\ disk'.marker = "empty"
    BY <1>1, <2>1, InitializeShape
  <2>3. ~Customers(disk)
    BY <1>3, <1>4, OwnershipIs DEF ChooseEmpty
  <2>4. Adopt(w) => ~ShowcaseOf(disk)
    BY <1>2 DEF Adopt
  <2> QED
    BY <2>2, <2>3, <2>4 DEF Sealed
<1>5. CASE ChooseDemo(w)
  <2>1. disk' \in Left(initializeEnvironment(disk, "sample", createSeedDataset))
    BY <1>5 DEF ChooseDemo, Cut, Left
  <2>2. disk' \in Disk /\ disk'.delivery = "demo_active"
    <3>1. disk.delivery = "demo_active"
      BY <1>5 DEF ChooseDemo, isDemoCapabilityAvailable
    <3> QED
      BY <1>1, <2>1, <3>1, InitializeShape
  <2>3. ~Customers(disk)
    BY <1>3, <1>5, OwnershipIs DEF ChooseDemo
  <2>4. Adopt(w) => ~ShowcaseOf(disk)
    BY <1>2 DEF Adopt
  <2> QED
    BY <2>2, <2>3, <2>4 DEF Sealed
<1>6. CASE Adopt(w)
  <2>1. disk' = Marked(disk, "sample") /\ disk.marker = "none" /\ disk.delivery = "demo_active"
    BY <1>6 DEF Adopt, isDemoCapabilityAvailable
  <2>2. disk' \in Disk /\ disk'.data = disk.data /\ disk'.delivery = "demo_active"
    BY <2>1, MarkedShape
  <2> QED
    BY <1>2, <2>1, <2>2 DEF Sealed, Customers
<1>7. CASE importSample(w)
  <2>1. disk.delivery = "demo_active"
    BY <1>7 DEF importSample, isDemoCapabilityAvailable
  <2>2. \/ disk' \in Left(initializeEnvironment(disk, "sample", createSeedDataset))
        \/ disk' = Marked(disk, "none")
        \/ disk' = Marked(migrateDataset(disk), "sample")
        \/ disk' \in Left(applyDatasetAs(disk, createSeedDataset, "sample"))
    BY <1>7 DEF importSample, Cut, Left
  <2>3. migrateDataset(disk) \in Disk /\ migrateDataset(disk).delivery = "demo_active"
    BY <2>1, MigratedShape
  <2>4. disk' \in Disk /\ disk'.delivery = "demo_active"
    <3>1. CASE disk' \in Left(initializeEnvironment(disk, "sample", createSeedDataset))
      BY <1>1, <2>1, <3>1, InitializeShape
    <3>2. CASE disk' = Marked(disk, "none")
      BY <2>1, <3>2, MarkedShape
    <3>3. CASE disk' = Marked(migrateDataset(disk), "sample")
      BY <2>3, <3>3, MarkedShape
    <3>4. CASE disk' \in Left(applyDatasetAs(disk, createSeedDataset, "sample"))
      BY <1>1, <2>1, <3>4, ApplyAsShape
    <3> QED
      BY <2>2, <3>1, <3>2, <3>3, <3>4
  <2>5. ~Customers(disk)
    <3>1. ~isInitialized(disk) \/ Ownership = "demo" \/ isPristineEmpty(disk)
      BY <1>7 DEF importSample
    <3>2. CASE ~isInitialized(disk) \/ Ownership = "demo"
      BY <1>3, <3>2, OwnershipIs
    <3>3. CASE isPristineEmpty(disk)
      <4>1. migrateDataset(disk).data.rows = {"admin"}
        BY <3>3 DEF isPristineEmpty, createEmptyEnvironment
      <4>2. "own" \notin disk.data.rows
        BY <4>1, MigratedShape
      <4> QED
        BY <4>2 DEF Customers
    <3> QED
      BY <3>1, <3>2, <3>3
  <2>6. Adopt(w) => ~ShowcaseOf(disk)
    BY <1>2 DEF Adopt
  <2> QED
    BY <2>4, <2>5, <2>6 DEF Sealed
<1> QED
  BY <1>4, <1>5, <1>6, <1>7

\* What a person asks for: it may take the customer's records, but it does not
\* make a showcase of a delivered environment.
LEMMA ReplacementsSeal ==
  ASSUME disk \in Disk, vault \in Backups, Sealed(disk), NEW w \in Windows, Explicit(w)
  PROVE  /\ disk' \in Disk /\ Sealed(disk')
         /\ DeleteRecords(w) /\ ShowcaseOf(disk) => ShowcaseOf(disk')
<1> DEFINE m == migrateDataset(disk)
           kept == [m.data EXCEPT !.rows = @ \ {"own", "trial"}]
<1>1. /\ m \in Disk /\ m.marker = disk.marker /\ m.delivery = disk.delivery
      /\ m.data.stamp = disk.data.stamp
      /\ m.data = NoData <=> disk.data = NoData
      /\ disk.data # NoData => m.data.whole
  BY MigratedShape
<1>2. /\ kept \in Dataset /\ kept.stamp = disk.data.stamp /\ kept.whole = m.data.whole
  <2>1. m.data \in Dataset /\ m.data.rows \subseteq Records
    BY <1>1, DiskFields
  <2> HIDE DEF m
  <2> QED
    BY <1>1, <2>1 DEF Dataset
<1> HIDE DEF kept
<1>3. ASSUME NEW data \in Dataset, NEW x \in Left(Replace(m, data))
      PROVE  x \in Disk /\ Sealed(x)
  <2>1. x \in Disk /\ x.delivery = disk.delivery /\ x.marker = MarkerOf(m)
    BY <1>1, <1>3, ReplaceShape
  <2> QED
    BY <1>1, <2>1 DEF Sealed, MarkerOf
<1>4. CASE DeleteRecords(w)
  <2>1. disk' \in Left(Replace(m, kept)) /\ disk.data # NoData
    BY <1>4 DEF DeleteRecords, Cut, Left, isInitialized, m, kept
  <2>2. disk' \in Disk /\ Sealed(disk')
    BY <1>2, <1>3, <2>1
  <2>3. /\ disk'.marker = MarkerOf(m)
        /\ \/ disk'.data = m.data
           \/ disk'.data.whole = kept.whole /\ disk'.data.stamp = StampOf(m, kept)
    BY <1>1, <1>2, <2>1, ReplaceShape
  <2>4. disk'.data # NoData
    BY <1>1, <1>2, <2>1, <2>3, DataFields
  <2>5. ShowcaseOf(disk) => ShowcaseOf(disk')
    BY <1>1, <1>2, <2>3, <2>4 DEF ShowcaseOf, MarkerOf, StampOf
  <2> QED
    BY <2>2, <2>5
<1>5. ASSUME ~DeleteRecords(w) PROVE disk' \in Disk /\ Sealed(disk')
  <2>1. CASE resetToSeed(w)
    <3>1. createSeedDataset \in SUBSET Records
      BY DEF createSeedDataset, Records
    <3>2. disk.delivery = "demo_active"
      BY <2>1 DEF resetToSeed, isDemoCapabilityAvailable
    <3>3. disk' \in Left(applyDatasetAs(disk, createSeedDataset, "sample"))
      BY <2>1 DEF resetToSeed, Cut, Left
    <3>4. disk' \in Disk /\ disk'.delivery = "demo_active"
      BY <3>1, <3>2, <3>3, ApplyAsShape
    <3> QED
      BY <3>4 DEF Sealed
  <2>2. CASE Clear(w)
    <3>1. disk' \in Left(Replace(m, Data(createEmptyDataset, "absent")))
      BY <2>2 DEF Clear, applyDataset, Cut, Left, m
    <3>2. Data(createEmptyDataset, "absent") \in Dataset
      BY DataFields DEF createEmptyDataset, Stamps
    <3> QED
      BY <1>3, <3>1, <3>2
  <2>3. CASE restoreBackup(w)
    <3>1. disk' \in Left(Replace(m, vault.data))
      BY <2>3 DEF restoreBackup, applyDataset, Cut, Left, m
    <3>2. vault.data \in Dataset
      BY DEF Backups
    <3> QED
      BY <1>3, <3>1, <3>2
  <2>4. CASE uninitializeEnvironment(w)
    <3>1. disk' \in Left(Reset(disk))
      BY <2>4 DEF uninitializeEnvironment, Cut, Left
    <3>2. disk' \in Disk /\ disk'.delivery = disk.delivery /\ disk'.marker \in {disk.marker, "none"}
      BY <3>1, ResetShape
    <3> QED
      BY <3>2 DEF Sealed
  <2> QED
    BY <1>5, <2>1, <2>2, <2>3, <2>4 DEF Explicit
<1> QED
  BY <1>4, <1>5

\* The clean reset and the delivery: each begins only over a showcase or over
\* what the customer keeps, and ends in an environment that is not a showcase.
LEMMA RemovalsKeep ==
  ASSUME disk \in Disk, Sealed(disk), NEW w \in Windows,
         resetToClean(w) \/ FilesCleaned(w) \/ deliverProduction(w) \/ FilesDelivered(w)
  PROVE  /\ disk' \in Disk /\ Sealed(disk')
         /\ resetToClean(w) => ShowcaseOf(disk') /\ (Customers(disk) => Customers(disk'))
         /\ deliverProduction(w) => /\ ShowcaseOf(disk') \/ work' = [work EXCEPT ![w] = "none"]
                                    /\ Customers(disk) => Customers(disk')
<1>1. CASE resetToClean(w)
  <2>1. disk' = migrateDataset(disk) /\ ShowcaseOf(disk)
    BY <1>1, OwnershipIs DEF resetToClean
  <2>2. /\ disk' \in Disk /\ disk'.marker = disk.marker /\ disk'.delivery = disk.delivery
        /\ disk'.data.stamp = disk.data.stamp /\ disk.data.rows \subseteq disk'.data.rows
        /\ disk'.data = NoData <=> disk.data = NoData
    BY <2>1, MigratedShape
  <2>3. Sealed(disk') /\ ShowcaseOf(disk') /\ (Customers(disk) => Customers(disk'))
    BY <2>1, <2>2 DEF Sealed, ShowcaseOf, Customers
  <2>4. deliverProduction(w) => /\ ShowcaseOf(disk')
                                /\ Customers(disk) => Customers(disk')
    BY <2>3
  <2> QED
    BY <2>2, <2>3, <2>4
<1>2. CASE deliverProduction(w)
  <2> DEFINE way == [disk EXCEPT !.delivery = "removing"]
             shut == [disk EXCEPT !.delivery = "locked"]
  <2>1. /\ way \in Disk /\ way.marker = disk.marker /\ way.data = disk.data
        /\ way.delivery = "removing"
    BY DEF Disk
  <2>2. shut \in Disk /\ shut.marker = disk.marker /\ shut.data = disk.data
    BY DEF Disk
  <2>3. \/ disk.delivery = "delivered" /\ disk' = shut /\ Done(w)
        \/ Ownership = "unproven" /\ disk' = way /\ Done(w)
        \/ Ownership = "demo" /\ disk' = way
        \/ Ownership \in {"customer", "no-environment"} /\ Cut(Lock(<<way>>)) /\ Done(w)
    BY <1>2 DEF deliverProduction, Waypoint
  <2> HIDE DEF way, shut
  <2>4. Done(w) => work' = [work EXCEPT ![w] = "none"]
    BY DEF Done
  <2>5. resetToClean(w) => ShowcaseOf(disk') /\ (Customers(disk) => Customers(disk'))
    <3> SUFFICES ASSUME resetToClean(w) PROVE ShowcaseOf(disk') /\ (Customers(disk) => Customers(disk'))
      OBVIOUS
    <3>1. disk' = migrateDataset(disk) /\ ShowcaseOf(disk)
      BY OwnershipIs DEF resetToClean
    <3>2. /\ disk'.marker = disk.marker /\ disk'.data.stamp = disk.data.stamp
          /\ disk.data.rows \subseteq disk'.data.rows
          /\ disk'.data = NoData <=> disk.data = NoData
      BY <3>1, MigratedShape
    <3> QED
      BY <3>1, <3>2 DEF ShowcaseOf, Customers
  <2>6. CASE disk.delivery = "delivered" /\ disk' = shut /\ Done(w)
    <3>1. Sealed(disk') /\ (Customers(disk) => Customers(disk'))
      BY <2>2, <2>6 DEF Sealed, Customers
    <3> QED
      BY <2>2, <2>4, <2>5, <2>6, <3>1
  <2>7. CASE (Ownership = "unproven" /\ disk' = way /\ Done(w)) \/ (Ownership = "demo" /\ disk' = way)
    <3>1. Sealed(disk') /\ (Customers(disk) => Customers(disk'))
      BY <2>1, <2>7 DEF Sealed, Customers
    <3>2. Ownership = "demo" => ShowcaseOf(disk')
      BY <2>1, <2>7, OwnershipIs DEF ShowcaseOf
    <3> QED
      BY <2>1, <2>4, <2>5, <2>7, <3>1, <3>2
  <2>8. CASE Ownership \in {"customer", "no-environment"} /\ Cut(Lock(<<way>>)) /\ Done(w)
    <3>1. /\ <<way>> \in Seq(Disk) /\ <<way>> # <<>> /\ Left(<<way>>) = {way} /\ Final(<<way>>) = way
      BY <2>1, LeftOne
    <3>2. disk' \in Left(Lock(<<way>>))
      BY <2>8 DEF Cut, Left
    <3>3. \/ disk' = way
          \/ /\ disk' \in Disk
             /\ isInitialized(way) => disk'.marker = way.marker /\ disk'.data = way.data
             /\ ~isInitialized(way) => disk'.marker = "empty"
      BY <2>1, <3>1, <3>2, LockShape
    <3>4. CASE Ownership = "customer"
      <4>1. disk.marker = "empty" /\ disk.data # NoData
        BY <3>4, OwnershipIs
      <4>2. disk' \in Disk /\ disk'.marker = "empty" /\ disk'.data = disk.data
        BY <2>1, <3>3, <4>1 DEF isInitialized
      <4>3. Sealed(disk') /\ (Customers(disk) => Customers(disk'))
        BY <4>1, <4>2 DEF Sealed, Customers
      <4> QED
        BY <2>4, <2>5, <2>8, <4>2, <4>3
    <3>5. CASE Ownership = "no-environment"
      <4>1. disk.data = NoData /\ ~Customers(disk)
        BY <3>5, OwnershipIs
      <4>2. disk' = way \/ (disk' \in Disk /\ disk'.marker = "empty")
        BY <2>1, <3>3, <4>1 DEF isInitialized
      <4>3. disk' \in Disk /\ Sealed(disk')
        BY <2>1, <4>2 DEF Sealed
      <4> QED
        BY <2>4, <2>5, <2>8, <4>1, <4>3
    <3> QED
      BY <2>8, <3>4, <3>5
  <2> QED
    BY <2>3, <2>6, <2>7, <2>8
<1>3. ASSUME FilesCleaned(w) \/ FilesDelivered(w) PROVE disk' \in Disk /\ Sealed(disk')
  <2>1. CASE disk' = disk
    BY <2>1
  <2>2. CASE FilesCleaned(w) /\ disk' # disk
    <3>1. createEmptyEnvironment \in SUBSET Records
      BY DEF createEmptyEnvironment, Records
    <3>2. disk' \in Left(applyDatasetAs(disk, createEmptyEnvironment, "empty"))
      BY <2>2 DEF FilesCleaned, Cut, Left
    <3>3. /\ disk' \in Disk /\ disk'.delivery = disk.delivery
          /\ disk'.marker \in {MarkerOf(disk), "empty"}
      BY <3>1, <3>2, ApplyAsShape
    <3> QED
      BY <3>3 DEF Sealed, MarkerOf
  <2>3. CASE FilesDelivered(w) /\ disk' # disk
    <3>1. disk' \in Left(Lock(Reset(disk)))
      BY <2>3 DEF FilesDelivered, Cut, Left
    <3>2. /\ Reset(disk) \in Seq(Disk) /\ Reset(disk) # <<>>
          /\ \A x \in Left(Reset(disk)) : /\ x \in Disk /\ x.delivery = disk.delivery
                                          /\ x.marker \in {disk.marker, "none"}
          /\ Final(Reset(disk)) \in Disk /\ Final(Reset(disk)).data = NoData
      BY ResetShape
    <3>3. disk' \in Left(Reset(disk)) \/ (disk' \in Disk /\ disk'.marker = "empty")
      BY <3>1, <3>2, LockShape DEF isInitialized
    <3> QED
      BY <3>2, <3>3 DEF Sealed
  <2> QED
    BY <1>3, <2>1, <2>2, <2>3
<1>4. ASSUME FilesCleaned(w) \/ FilesDelivered(w), ~Free(w)
      PROVE  ~resetToClean(w) /\ ~deliverProduction(w)
  BY <1>4 DEF resetToClean, deliverProduction
<1>5. FilesCleaned(w) \/ FilesDelivered(w) => ~Free(w)
  BY DEF FilesCleaned, FilesDelivered, Free
<1> QED
  BY <1>1, <1>2, <1>3, <1>4, <1>5

\* What a step does to work: the window that takes it goes on, has done, or
\* begins to remove files; the others hear of a new label.
LEMMA WorkShape ==
  ASSUME DemoTypeOK, NEW w \in Windows,
         \/ ChooseEmpty(w) \/ ChooseDemo(w) \/ Adopt(w) \/ Snapshot(w) \/ Mutate(w)
         \/ DeleteRecords(w) \/ resetToSeed(w) \/ Clear(w) \/ importSample(w) \/ exportBackup(w)
         \/ restoreBackup(w) \/ uninitializeEnvironment(w) \/ FilesWiped(w) \/ resetToClean(w)
         \/ FilesCleaned(w) \/ deliverProduction(w) \/ FilesDelivered(w) \/ Close(w)
  PROVE  /\ work' \in [Windows -> {"none", "deliver", "clean", "wipe"}]
         /\ Overtake(w)
         /\ \A u \in Windows \ {w} : work'[u] = work[u]
         /\ \/ work'[w] \in {"none", "wipe"}
            \/ resetToClean(w) \/ deliverProduction(w)
            \/ /\ work'[w] = work[w]
               /\ ~Free(w) => Adopt(w) \/ Snapshot(w) \/ Mutate(w) \/ DeleteRecords(w) \/ exportBackup(w)
<1>1. work \in [Windows -> {"none", "deliver", "clean", "wipe"}]
  BY DEF DemoTypeOK
<1>2. ASSUME UNCHANGED work, Overtake(w),
             ~Free(w) => Adopt(w) \/ Snapshot(w) \/ Mutate(w) \/ DeleteRecords(w) \/ exportBackup(w)
      PROVE  /\ work' \in [Windows -> {"none", "deliver", "clean", "wipe"}]
             /\ Overtake(w)
             /\ \A u \in Windows \ {w} : work'[u] = work[u]
             /\ work'[w] = work[w]
             /\ ~Free(w) => Adopt(w) \/ Snapshot(w) \/ Mutate(w) \/ DeleteRecords(w) \/ exportBackup(w)
  BY <1>1, <1>2
<1>3. ASSUME NEW op \in {"none", "deliver", "clean", "wipe"},
             work' = [work EXCEPT ![w] = op], Overtake(w)
      PROVE  /\ work' \in [Windows -> {"none", "deliver", "clean", "wipe"}]
             /\ Overtake(w)
             /\ \A u \in Windows \ {w} : work'[u] = work[u]
             /\ work'[w] = op
  BY <1>1, <1>3
<1>4. CASE Adopt(w) \/ Snapshot(w) \/ Mutate(w) \/ DeleteRecords(w) \/ exportBackup(w)
  <2>1. UNCHANGED work /\ Overtake(w)
    BY <1>4 DEF Adopt, Snapshot, Mutate, DeleteRecords, exportBackup, Now
  <2> QED
    BY <1>2, <1>4, <2>1
<1>5. CASE ChooseEmpty(w) \/ ChooseDemo(w) \/ resetToSeed(w) \/ Clear(w) \/ importSample(w) \/ restoreBackup(w)
  <2>1. UNCHANGED work /\ Overtake(w) /\ Free(w)
    BY <1>5 DEF ChooseEmpty, ChooseDemo, resetToSeed, Clear, importSample, restoreBackup, Now
  <2> QED
    BY <1>2, <2>1
<1>6. CASE uninitializeEnvironment(w)
  <2>1. work' = [work EXCEPT ![w] = "wipe"] /\ Overtake(w)
    BY <1>6 DEF uninitializeEnvironment, Await
  <2> QED
    BY <1>3, <2>1
<1>7. CASE FilesWiped(w) \/ FilesCleaned(w) \/ FilesDelivered(w) \/ Close(w)
  <2>1. work' = [work EXCEPT ![w] = "none"] /\ Overtake(w)
    BY <1>7 DEF FilesWiped, FilesCleaned, FilesDelivered, Close, Done
  <2> QED
    BY <1>3, <2>1
<1>8. CASE resetToClean(w)
  <2>1. work' = [work EXCEPT ![w] = "clean"] /\ Overtake(w)
    BY <1>8 DEF resetToClean, Await
  <2> QED
    BY <1>3, <1>8, <2>1
<1>9. CASE deliverProduction(w)
  <2>1. Done(w) \/ Await(w, "deliver")
    BY <1>9 DEF deliverProduction
  <2>2. (work' = [work EXCEPT ![w] = "none"] \/ work' = [work EXCEPT ![w] = "deliver"]) /\ Overtake(w)
    BY <2>1 DEF Done, Await
  <2> QED
    BY <1>3, <1>9, <2>2
<1> QED
  BY <1>4, <1>5, <1>6, <1>7, <1>8, <1>9

LEMMA VaultShape ==
  ASSUME disk \in Disk, vault \in Backups, NEW w \in Windows,
         \/ ChooseEmpty(w) \/ ChooseDemo(w) \/ Adopt(w) \/ Snapshot(w) \/ Mutate(w)
         \/ DeleteRecords(w) \/ resetToSeed(w) \/ Clear(w) \/ importSample(w) \/ exportBackup(w)
         \/ restoreBackup(w) \/ uninitializeEnvironment(w) \/ FilesWiped(w) \/ resetToClean(w)
         \/ FilesCleaned(w) \/ deliverProduction(w) \/ FilesDelivered(w) \/ Close(w)
  PROVE  vault' \in Backups
<1>1. CASE exportBackup(w)
  <2> DEFINE m == migrateDataset(disk)
  <2>1. m.data \in Dataset
    BY MigratedShape, DiskFields
  <2>2. vault' = [environment |-> IF readLifecycleState(m) = "empty" THEN "empty" ELSE "demo",
                  data |-> m.data]
    BY <1>1 DEF exportBackup
  <2> HIDE DEF m
  <2> QED
    BY <2>1, <2>2 DEF Backups
<1>2. CASE ~exportBackup(w)
  <2>1. UNCHANGED vault
    BY <1>2 DEF ChooseEmpty, ChooseDemo, Adopt, Snapshot, Mutate, DeleteRecords, resetToSeed, Clear,
       importSample, restoreBackup, uninitializeEnvironment, FilesWiped, resetToClean,
       FilesCleaned, deliverProduction, FilesDelivered, Close, Now
  <2> QED
    BY <2>1
<1> QED
  BY <1>1, <1>2

\* One step: the disk is typed and sealed, and who asked for nothing of the
\* kind takes no record of the customer.
LEMMA DemoStep ==
  ASSUME DemoInv, NEW w \in Windows,
         \/ ChooseEmpty(w) \/ ChooseDemo(w) \/ Adopt(w) \/ Snapshot(w) \/ Mutate(w)
         \/ DeleteRecords(w) \/ resetToSeed(w) \/ Clear(w) \/ importSample(w) \/ exportBackup(w)
         \/ restoreBackup(w) \/ uninitializeEnvironment(w) \/ FilesWiped(w) \/ resetToClean(w)
         \/ FilesCleaned(w) \/ deliverProduction(w) \/ FilesDelivered(w) \/ Close(w)
  PROVE  /\ disk' \in Disk /\ Sealed(disk')
         /\ \/ Customers(disk) => Customers(disk')
            \/ Explicit(w)
            \/ w \in overtaken /\ (FilesCleaned(w) \/ FilesDelivered(w))
         /\ ShowcaseOf(disk) => \/ ShowcaseOf(disk')
                                \/ ~(Adopt(w) \/ Snapshot(w) \/ Mutate(w) \/ DeleteRecords(w) \/ exportBackup(w))
         /\ work'[w] \in {"clean", "deliver"} /\ (resetToClean(w) \/ deliverProduction(w)) => ShowcaseOf(disk')
<1>1. /\ disk \in Disk /\ vault \in Backups /\ Sealed(disk)
      /\ work \in [Windows -> {"none", "deliver", "clean", "wipe"}]
  BY DEF DemoInv, DemoTypeOK
<1>2. work'[w] \in {"clean", "deliver"} /\ (resetToClean(w) \/ deliverProduction(w)) => ShowcaseOf(disk')
  <2>1. resetToClean(w) => ShowcaseOf(disk')
    BY <1>1, RemovalsKeep
  <2>2. deliverProduction(w) => ShowcaseOf(disk') \/ work' = [work EXCEPT ![w] = "none"]
    BY <1>1, RemovalsKeep
  <2> QED
    BY <1>1, <2>1, <2>2
<1>3. CASE ChooseEmpty(w) \/ ChooseDemo(w) \/ Adopt(w) \/ importSample(w)
  <2>1. /\ disk' \in Disk /\ Sealed(disk')
        /\ Customers(disk) => Customers(disk')
        /\ Adopt(w) => ~ShowcaseOf(disk)
    BY <1>1, <1>3, ChoicesKeep
  <2>2. ASSUME ShowcaseOf(disk), Snapshot(w) \/ Mutate(w) \/ exportBackup(w) PROVE ShowcaseOf(disk')
    BY <1>1, <2>2, RepositoriesKeep DEF Saves
  <2>3. ASSUME ShowcaseOf(disk), DeleteRecords(w) PROVE ShowcaseOf(disk')
    BY <1>1, <2>3, ReplacementsSeal DEF Explicit
  <2> QED
    BY <1>2, <2>1, <2>2, <2>3
<1>4. CASE Snapshot(w) \/ Mutate(w) \/ exportBackup(w)
  <2>1. Saves(disk')
    BY <1>1, <1>4, RepositoriesKeep
  <2> QED
    BY <1>1, <1>2, <2>1 DEF Saves
<1>5. CASE Explicit(w)
  <2>1. /\ disk' \in Disk /\ Sealed(disk')
        /\ DeleteRecords(w) /\ ShowcaseOf(disk) => ShowcaseOf(disk')
    BY <1>1, <1>5, ReplacementsSeal
  <2>2. ASSUME ShowcaseOf(disk), Snapshot(w) \/ Mutate(w) \/ exportBackup(w) PROVE ShowcaseOf(disk')
    BY <1>1, <2>2, RepositoriesKeep DEF Saves
  <2>3. ASSUME ShowcaseOf(disk), Adopt(w) PROVE FALSE
    BY <1>1, <2>3, ChoicesKeep
  <2> QED
    BY <1>2, <1>5, <2>1, <2>2, <2>3
<1>6. CASE FilesWiped(w) \/ Close(w)
  <2>1. disk' = disk
    BY <1>6 DEF FilesWiped, Close
  <2> QED
    BY <1>1, <1>2, <2>1
<1>7. CASE resetToClean(w) \/ FilesCleaned(w) \/ deliverProduction(w) \/ FilesDelivered(w)
  <2>1. /\ disk' \in Disk /\ Sealed(disk')
        /\ resetToClean(w) => (Customers(disk) => Customers(disk'))
        /\ deliverProduction(w) => (Customers(disk) => Customers(disk'))
    BY <1>1, <1>7, RemovalsKeep
  <2>2. FilesCleaned(w) \/ FilesDelivered(w) => w \in overtaken \/ ~Customers(disk)
    <3>1. FilesCleaned(w) \/ FilesDelivered(w) => Clearing(w)
      BY DEF FilesCleaned, FilesDelivered, Clearing
    <3>2. Clearing(w) /\ w \notin overtaken => ShowcaseOf(disk)
      BY DEF DemoInv, ClearsShowcase
    <3> QED
      BY <1>1, <3>1, <3>2, OwnershipIs
  <2>3. ASSUME ShowcaseOf(disk), Snapshot(w) \/ Mutate(w) \/ exportBackup(w) PROVE ShowcaseOf(disk')
    BY <1>1, <2>3, RepositoriesKeep DEF Saves
  <2>4. ASSUME ShowcaseOf(disk), Adopt(w) PROVE FALSE
    BY <1>1, <2>4, ChoicesKeep
  <2>5. ASSUME ShowcaseOf(disk), DeleteRecords(w) PROVE ShowcaseOf(disk')
    BY <1>1, <2>5, ReplacementsSeal DEF Explicit
  <2> QED
    BY <1>2, <1>7, <2>1, <2>2, <2>3, <2>4, <2>5
<1> QED
  BY <1>3, <1>4, <1>5, <1>6, <1>7 DEF Explicit

LEMMA DemoStarts == DemoInit => DemoInv
<1> SUFFICES ASSUME DemoInit PROVE DemoInv
  OBVIOUS
<1>1. disk \in Disk /\ disk.delivery = "demo_active"
  <2>1. ASSUME NEW m \in {"none", "empty", "demo"}, NEW data \in Dataset, disk = Start(m, data)
        PROVE  disk \in Disk /\ disk.delivery = "demo_active"
    BY <2>1 DEF Start, Disk
  <2>2. NoData \in Dataset /\ Data({"seed", "trial"}, "absent") \in Dataset
    BY DataFields DEF Records, Stamps
  <2>3. Older({"seed", "trial"}, "absent") \in Dataset /\ Older({"admin", "own"}, "customer") \in Dataset
    BY DEF Older, Dataset, Records, Stamps
  <2> QED
    BY <2>1, <2>2, <2>3 DEF DemoInit
<1>2. vault \in Backups
  BY DataFields DEF DemoInit, NoBackup, Backups
<1>3. work = [w \in Windows |-> "none"] /\ overtaken = {}
  BY DEF DemoInit
<1> QED
  BY <1>1, <1>2, <1>3 DEF DemoInv, DemoTypeOK, Sealed, ClearsShowcase, Clearing

LEMMA DemoKeeps == DemoInv /\ [DemoNext]_demoVars => DemoInv'
<1> SUFFICES ASSUME DemoInv, [DemoNext]_demoVars PROVE DemoInv'
  OBVIOUS
<1>1. CASE UNCHANGED demoVars
  BY <1>1 DEF demoVars, DemoInv, DemoTypeOK, ClearsShowcase, Clearing
<1>2. CASE DemoNext
  <2>1. PICK w \in Windows :
         \/ ChooseEmpty(w) \/ ChooseDemo(w) \/ Adopt(w) \/ Snapshot(w) \/ Mutate(w)
         \/ DeleteRecords(w) \/ resetToSeed(w) \/ Clear(w) \/ importSample(w) \/ exportBackup(w)
         \/ restoreBackup(w) \/ uninitializeEnvironment(w) \/ FilesWiped(w) \/ resetToClean(w)
         \/ FilesCleaned(w) \/ deliverProduction(w) \/ FilesDelivered(w) \/ Close(w)
    BY <1>2 DEF DemoNext
  <2>2. DemoTypeOK /\ ClearsShowcase
    BY DEF DemoInv
  <2>3. /\ work' \in [Windows -> {"none", "deliver", "clean", "wipe"}]
        /\ Overtake(w)
        /\ \A u \in Windows \ {w} : work'[u] = work[u]
        /\ \/ work'[w] \in {"none", "wipe"}
           \/ resetToClean(w) \/ deliverProduction(w)
           \/ /\ work'[w] = work[w]
              /\ ~Free(w) => Adopt(w) \/ Snapshot(w) \/ Mutate(w) \/ DeleteRecords(w) \/ exportBackup(w)
    BY <2>1, <2>2, WorkShape
  <2>4. /\ disk' \in Disk /\ Sealed(disk')
        /\ ShowcaseOf(disk) => \/ ShowcaseOf(disk')
                               \/ ~(Adopt(w) \/ Snapshot(w) \/ Mutate(w) \/ DeleteRecords(w) \/ exportBackup(w))
        /\ work'[w] \in {"clean", "deliver"} /\ (resetToClean(w) \/ deliverProduction(w)) => ShowcaseOf(disk')
    BY <2>1, DemoStep
  <2>5. vault' \in Backups
    BY <2>1, <2>2, VaultShape DEF DemoTypeOK
  <2>6. overtaken' \subseteq {u \in Windows : work'[u] # "none"}
    BY <2>3 DEF Overtake
  <2>7. ASSUME NEW u \in Windows, work'[u] \in {"clean", "deliver"}, u \notin overtaken'
        PROVE  ShowcaseOf(disk')
    <3>1. CASE u # w
      <4>1. Clearing(u) /\ u \notin overtaken /\ Labels(disk') = Labels(disk)
        BY <2>3, <2>7, <3>1 DEF Overtake, Clearing
      <4>2. ShowcaseOf(disk)
        BY <2>2, <4>1 DEF ClearsShowcase
      <4> QED
        BY <4>1, <4>2 DEF Labels, ShowcaseOf
    <3>2. CASE u = w
      <4>1. CASE resetToClean(w) \/ deliverProduction(w)
        BY <2>4, <2>7, <3>2, <4>1
      <4>2. CASE ~(resetToClean(w) \/ deliverProduction(w))
        <5>1. work'[w] = work[w]
          BY <2>3, <2>7, <3>2, <4>2
        <5>2. Clearing(w) /\ ~Free(w) /\ w \notin overtaken
          BY <2>3, <2>7, <3>2, <5>1 DEF Clearing, Free, Overtake
        <5>3. ShowcaseOf(disk)
          BY <2>2, <5>2 DEF ClearsShowcase
        <5> QED
          BY <2>3, <2>4, <2>7, <3>2, <4>2, <5>2, <5>3
      <4> QED
        BY <4>1, <4>2
    <3> QED
      BY <3>1, <3>2
  <2> QED
    BY <2>3, <2>4, <2>5, <2>6, <2>7 DEF DemoInv, DemoTypeOK, ClearsShowcase, Clearing
<1> QED
  BY <1>1, <1>2

\* Marker, dataset, delivery state, backup and the work of each window stay
\* within their types.
THEOREM DemoTypes == DemoSpec => []DemoTypeOK
<1>1. DemoInv => DemoTypeOK
  BY DEF DemoInv
<1> QED
  BY <1>1, DemoStarts, DemoKeeps, PTL DEF DemoSpec

\* Delivered is delivered: no backup, import, late answer or cut-short block
\* makes a delivered environment a showcase again (localStore.ts, delivery.ts).
THEOREM DemoLockedMeansProduction == DemoSpec => []LockedMeansProduction
<1>1. DemoInv => LockedMeansProduction
  BY DEF DemoInv, DemoTypeOK, Disk, Sealed, LockedMeansProduction, readLifecycleState,
     canonicalLifecycleMarker, isDemoCapabilityAvailable
<1> QED
  BY <1>1, DemoStarts, DemoKeeps, PTL DEF DemoSpec

\* The customer's records survive every operation that is not meant to take
\* them, for any number of windows (localStore.ts, lifecycle.ts, delivery.ts).
THEOREM DemoCustomerRecordsSurvive == DemoSpec => CustomerRecordsSurvive
<1>1. ASSUME DemoInv, DemoNext
      PROVE  Customers(disk) /\ ~Customers(disk')
               => \E w \in Windows : Explicit(w) \/ (w \in overtaken /\ (FilesCleaned(w) \/ FilesDelivered(w)))
  <2>1. PICK w \in Windows :
         \/ ChooseEmpty(w) \/ ChooseDemo(w) \/ Adopt(w) \/ Snapshot(w) \/ Mutate(w)
         \/ DeleteRecords(w) \/ resetToSeed(w) \/ Clear(w) \/ importSample(w) \/ exportBackup(w)
         \/ restoreBackup(w) \/ uninitializeEnvironment(w) \/ FilesWiped(w) \/ resetToClean(w)
         \/ FilesCleaned(w) \/ deliverProduction(w) \/ FilesDelivered(w) \/ Close(w)
    BY <1>1 DEF DemoNext
  <2>2. \/ Customers(disk) => Customers(disk')
        \/ Explicit(w)
        \/ w \in overtaken /\ (FilesCleaned(w) \/ FilesDelivered(w))
    BY <1>1, <2>1, DemoStep
  <2> QED
    BY <2>2
<1>2. DemoInv /\ [DemoNext]_demoVars
        => [Customers(disk) /\ ~Customers(disk')
             => \E w \in Windows : Explicit(w) \/ (w \in overtaken /\ (FilesCleaned(w) \/ FilesDelivered(w)))]_demoVars
  BY <1>1
<1> QED
  BY <1>2, DemoStarts, DemoKeeps, PTL DEF DemoSpec, CustomerRecordsSurvive

-----------------------------------------------------------------------------
(***************************************************************************)
(* The signed-in session.  What a page holds is the token of its session   *)
(* or nothing; a refused token is one the server no longer knows; the      *)
(* shared clock started no later than the token of a session whose clock   *)
(* no other tab moved, and it lags behind the last input by less than the  *)
(* throttle lets it.                                                       *)
(***************************************************************************)

Pages == [status : {"restoring", "authenticated", "unauthenticated"}, session : Token,
          ref : Token, memory : Token, kept : Token, wrote : Time \cup {Missing}]
Passports == [issued : Time, used : Time \cup {Missing}]
Some == Issued \cup {NoSession}

SessionTypeInv == SessionTypeOK /\ Cardinality(Issued) \in 0..MaxTokens

PageShape(page) ==
  /\ page.kept \in Some
  /\ page.ref \in {NoSession, page.session} /\ page.memory \in {NoSession, page.session}
  /\ page.status = "authenticated" => page.session \in Issued
  /\ page.status # "authenticated" => page.session = NoSession
PagesHoldTheirToken == \A t \in Tabs : PageShape(tab[t])

AskShape(a) ==
  /\ a.auth \in Some
  /\ a.kind = "me" => a.auth \in Issued
  /\ a.kind = "login" /\ a.answer # "ok" => a.auth = NoSession
  /\ a.kind = "login" /\ a.answer = "ok" => a.auth \in Issued /\ tokens[a.auth].issued = now
  /\ a.answer = "refused" /\ a.auth # NoSession => ~Known(a.auth)
AnswersAreTrue == \A a \in asks : AskShape(a)

Anchored == \A t \in Tabs : SignedIn(t) /\ solo[t]
              => start # Missing /\ start <= tokens[tab[t].session].issued
Throttled == \A t \in Tabs : tab[t].wrote # Missing
               => /\ now - tab[t].wrote <= WRITE_THROTTLE /\ tab[t].wrote <= now
                  /\ activity # Missing => tab[t].wrote <= activity
InputSeen == activity # Missing => lastInput - activity <= WRITE_THROTTLE

SessionInv == /\ SessionTypeInv /\ PagesHoldTheirToken /\ AnswersAreTrue
              /\ Anchored /\ Throttled /\ InputSeen

LEMMA TypeFacts ==
  ASSUME SessionTypeInv
  PROVE  /\ now \in Time /\ activity \in Time \cup {Missing} /\ start \in Time \cup {Missing}
         /\ lastInput \in Time /\ solo \in [Tabs -> BOOLEAN] /\ news \subseteq Tabs
         /\ tab \in [Tabs -> Pages] /\ asks \subseteq Asks
         /\ tokens \in [Issued -> Passports]
         /\ Issued = 1..Cardinality(Issued) /\ Cardinality(Issued) \in Nat
         /\ Issued \subseteq Token /\ Some \subseteq Token /\ NoSession \notin Issued
         /\ MaxTokens \in Nat /\ MaxClock \in Nat /\ WRITE_THROTTLE \in Nat
         /\ IDLE_TIMEOUT \in Nat /\ ABSOLUTE_SESSION \in Nat
<1>1. /\ tokens \in [1..Cardinality(Issued) -> Passports] /\ Cardinality(Issued) \in 0..MaxTokens
      /\ MaxTokens \in Nat /\ MaxClock \in Nat /\ WRITE_THROTTLE \in Nat
      /\ IDLE_TIMEOUT \in Nat /\ ABSOLUTE_SESSION \in Nat
  BY SessionAssumption DEF SessionTypeInv, SessionTypeOK, Passports
<1>2. Issued = 1..Cardinality(Issued)
  BY <1>1 DEF Issued
<1>3. Issued \subseteq Token /\ Some \subseteq Token /\ NoSession \notin Issued
  BY <1>1, <1>2 DEF Some, Token, NoSession
<1>4. /\ now \in Time /\ activity \in Time \cup {Missing} /\ start \in Time \cup {Missing}
      /\ lastInput \in Time /\ solo \in [Tabs -> BOOLEAN] /\ news \subseteq Tabs
      /\ tab \in [Tabs -> Pages] /\ asks \subseteq Asks
  BY DEF SessionTypeInv, SessionTypeOK, Pages
<1> QED
  BY <1>1, <1>2, <1>3, <1>4

LEMMA AskFields ==
  ASSUME NEW t \in Tabs, NEW kind \in Kinds, NEW auth \in Token, NEW why \in Causes
  PROVE  /\ Ask(t, kind, auth, why) \in Asks /\ Ask(t, kind, auth, why).tab = t
         /\ Ask(t, kind, auth, why).kind = kind /\ Ask(t, kind, auth, why).auth = auth
         /\ Ask(t, kind, auth, why).why = why /\ Ask(t, kind, auth, why).answer = "none"
  BY DEF Ask, Asks

LEMMA PageFields ==
  ASSUME NEW kept \in Token, NEW status \in {"restoring", "unauthenticated"},
         MaxTokens \in Nat
  PROVE  /\ Page(status, kept) \in Pages /\ Page(status, kept).status = status
         /\ Page(status, kept).kept = kept /\ Page(status, kept).wrote = Missing
         /\ Page(status, kept).session = NoSession /\ Page(status, kept).memory = NoSession
         /\ kept \in Some => PageShape(Page(status, kept))
<1>1. /\ Page(status, kept) \in Pages /\ Page(status, kept).status = status
      /\ Page(status, kept).kept = kept /\ Page(status, kept).wrote = Missing
      /\ Page(status, kept).session = NoSession /\ Page(status, kept).memory = NoSession
      /\ Page(status, kept).ref = NoSession
  BY DEF Page, Pages, Token, NoSession
<1> QED
  BY <1>1 DEF PageShape

LEMMA EnterFields ==
  ASSUME NEW t, NEW k \in Token, MaxTokens \in Nat
  PROVE  /\ Enter(t, k) \in Pages /\ Enter(t, k).status = "authenticated"
         /\ Enter(t, k).session = k /\ Enter(t, k).memory = k /\ Enter(t, k).ref = k
         /\ Enter(t, k).kept = k /\ Enter(t, k).wrote = Missing
         /\ k \in Issued => PageShape(Enter(t, k))
<1> DEFINE e0 == Page("authenticated", k)
           e1 == [e0 EXCEPT !.session = k]
           e2 == [e1 EXCEPT !.ref = k]
           e3 == [e2 EXCEPT !.memory = k]
<1>1. /\ e0 \in Pages /\ e0.status = "authenticated" /\ e0.kept = k /\ e0.wrote = Missing
  BY DEF Page, Pages, Token, NoSession
<1>2. e1 \in Pages /\ e1.status = "authenticated" /\ e1.kept = k /\ e1.wrote = Missing /\ e1.session = k
  BY <1>1 DEF Pages
<1>3. /\ e2 \in Pages /\ e2.status = "authenticated" /\ e2.kept = k /\ e2.wrote = Missing
      /\ e2.session = k /\ e2.ref = k
  BY <1>2 DEF Pages
<1>4. /\ e3 \in Pages /\ e3.status = "authenticated" /\ e3.kept = k /\ e3.wrote = Missing
      /\ e3.session = k /\ e3.ref = k /\ e3.memory = k
  BY <1>3 DEF Pages
<1>5. Enter(t, k) = e3
  BY Zenon DEF Enter
<1> HIDE DEF e3
<1> QED
  BY <1>4, <1>5 DEF PageShape, Some

-----------------------------------------------------------------------------
(* Steps that leave time, tokens and the shared clock alone, and change at *)
(* most one page.                                                          *)
LEMMA QuietStep ==
  ASSUME SessionInv, UNCHANGED <<now, tokens, storage, history>>, news' \subseteq Tabs,
         NEW t \in Tabs, NEW page \in Pages, PageShape(page), tab' = [tab EXCEPT ![t] = page],
         page.status = "authenticated" => SignedIn(t) /\ page.session = tab[t].session,
         page.wrote \in {tab[t].wrote, Missing},
         \A a \in asks' : a \in asks \/ (a \in Asks /\ AskShape(a))
  PROVE  SessionInv'
<1>1. /\ SessionTypeInv /\ tab \in [Tabs -> Pages] /\ asks \subseteq Asks
      /\ PagesHoldTheirToken /\ AnswersAreTrue /\ Anchored /\ Throttled /\ InputSeen
  BY TypeFacts DEF SessionInv
<1>2. UNCHANGED <<now, tokens, activity, start, lastInput, solo>>
  BY DEF storage, history
<1>3. \A u \in Tabs : tab'[u] = IF u = t THEN page ELSE tab[u]
  BY <1>1
<1>4. tab' \in [Tabs -> Pages] /\ asks' \subseteq Asks
  BY <1>1
<1>5. SessionTypeInv'
  BY <1>1, <1>2, <1>4 DEF SessionTypeInv, SessionTypeOK, Pages, Issued
<1>6. PagesHoldTheirToken'
  BY <1>1, <1>2, <1>3 DEF PagesHoldTheirToken, PageShape, Some, Issued
<1>7. AnswersAreTrue'
  BY <1>1, <1>2 DEF AnswersAreTrue, AskShape, Some, Issued, Known
<1>8. Anchored'
  BY <1>1, <1>2, <1>3 DEF Anchored, SignedIn
<1>9. Throttled'
  BY <1>1, <1>2, <1>3 DEF Throttled
<1>10. InputSeen'
  BY <1>1, <1>2 DEF InputSeen
<1> QED
  BY <1>5, <1>6, <1>7, <1>8, <1>9, <1>10 DEF SessionInv

\* expireSession up to its await.
LEMMA ExpireShape ==
  ASSUME SessionTypeInv, NEW t \in Tabs, NEW page \in Pages, PageShape(page),
         NEW rest, NEW why \in Causes, Expire(t, page, rest, why)
  PROVE  \E q \in Pages :
           /\ tab' = [tab EXCEPT ![t] = q] /\ PageShape(q)
           /\ q.status = page.status /\ q.session = page.session
           /\ q.wrote = page.wrote /\ q.memory = page.memory
           /\ asks' \subseteq rest \cup {Ask(t, "logout", page.memory, why)}
           /\ AskShape(Ask(t, "logout", page.memory, why)) /\ Ask(t, "logout", page.memory, why) \in Asks
<1>1. /\ Some \subseteq Token /\ NoSession \in Token
  BY TypeFacts DEF Token, NoSession
<1>2. page.memory \in Some /\ page.memory \in Token
  BY DEF PageShape, Some, Pages
<1>3. /\ AskShape(Ask(t, "logout", page.memory, why)) /\ Ask(t, "logout", page.memory, why) \in Asks
  BY <1>2, AskFields DEF AskShape, Kinds
<1>4. CASE page.ref = NoSession
  BY <1>3, <1>4 DEF Expire
<1>5. CASE page.ref # NoSession
  <2> DEFINE q == [page EXCEPT !.ref = NoSession]
  <2>1. /\ q \in Pages /\ q.status = page.status /\ q.session = page.session /\ q.ref = NoSession
        /\ q.wrote = page.wrote /\ q.memory = page.memory /\ q.kept = page.kept
    BY <1>1 DEF Pages
  <2>2. tab' = [tab EXCEPT ![t] = q] /\ asks' = rest \cup {Ask(t, "logout", page.memory, why)}
    BY <1>5 DEF Expire
  <2> HIDE DEF q
  <2>3. PageShape(q)
    BY <2>1 DEF PageShape
  <2> QED
    BY <1>3, <2>1, <2>2, <2>3
<1> QED
  BY <1>4, <1>5

\* What a rejected or failed answer does to the page that hears it.
LEMMA RefusedShape ==
  ASSUME SessionInv, NEW a \in asks, NEW result \in Results(a), Refused(a, result)
  PROVE  \E q \in Pages :
           /\ tab' = [tab EXCEPT ![a.tab] = q] /\ PageShape(q)
           /\ q.status = tab[a.tab].status /\ q.session = tab[a.tab].session
           /\ q.wrote = tab[a.tab].wrote
           /\ q.memory # tab[a.tab].memory => a.answer = "refused" /\ CurrentCredential(tab[a.tab], a.auth)
           /\ \A b \in asks' : b \in asks \/ (b \in Asks /\ AskShape(b) /\ b.why = "other")
<1> DEFINE page == tab[a.tab]
           silent == [page EXCEPT !.memory = NoSession]
           clean == [silent EXCEPT !.kept = NoSession]
<1>1. /\ SessionTypeInv /\ asks \subseteq Asks /\ tab \in [Tabs -> Pages] /\ MaxTokens \in Nat
      /\ PagesHoldTheirToken
  BY TypeFacts DEF SessionInv
<1>2. a.tab \in Tabs /\ page \in Pages /\ PageShape(page)
  BY <1>1 DEF Asks, PagesHoldTheirToken
<1>3. tab = [tab EXCEPT ![a.tab] = page]
  BY <1>1
<1> HIDE DEF page
<1>4. CASE result = "refused" /\ CurrentCredential(page, a.auth)
  <2>1. a.answer = "refused"
    BY <1>4 DEF Results
  <2>2. Forget(page) = clean
    BY Zenon DEF Forget
  <2>3. /\ clean \in Pages /\ clean.status = page.status /\ clean.session = page.session
        /\ clean.wrote = page.wrote /\ clean.ref = page.ref
        /\ clean.memory = NoSession /\ clean.kept = NoSession
    <3>1. NoSession \in Token
      BY <1>1 DEF Token, NoSession
    <3>2. /\ silent \in Pages /\ silent.status = page.status /\ silent.session = page.session
          /\ silent.wrote = page.wrote /\ silent.ref = page.ref /\ silent.memory = NoSession
      BY <1>2, <3>1 DEF Pages
    <3> HIDE DEF silent
    <3> QED
      BY <3>1, <3>2 DEF Pages
  <2> HIDE DEF clean, silent
  <2>4. PageShape(clean)
    BY <1>2, <2>3 DEF PageShape, Some
  <2>5. Expire(a.tab, clean, asks \ {a}, "other")
    BY <1>4, <2>2 DEF Refused, Hear401, page
  <2>6. "other" \in Causes
    BY DEF Causes
  <2>7. PICK q \in Pages :
           /\ tab' = [tab EXCEPT ![a.tab] = q] /\ PageShape(q)
           /\ q.status = clean.status /\ q.session = clean.session
           /\ q.wrote = clean.wrote /\ q.memory = clean.memory
           /\ asks' \subseteq (asks \ {a}) \cup {Ask(a.tab, "logout", clean.memory, "other")}
           /\ AskShape(Ask(a.tab, "logout", clean.memory, "other"))
           /\ Ask(a.tab, "logout", clean.memory, "other") \in Asks
    BY <1>1, <1>2, <2>3, <2>4, <2>5, <2>6, ExpireShape
  <2>8. Ask(a.tab, "logout", clean.memory, "other").why = "other"
    BY DEF Ask
  <2> QED
    BY <1>4, <2>1, <2>3, <2>7, <2>8 DEF page
<1>5. CASE ~(result = "refused" /\ CurrentCredential(page, a.auth))
  <2>1. asks' = asks \ {a} /\ tab' = tab
    BY <1>5 DEF Refused, Hear401, page
  <2> QED
    BY <1>2, <1>3, <2>1 DEF page
<1> QED
  BY <1>4, <1>5

\* The steps of the quiet kind.
LEMMA QuietSteps ==
  ASSUME SessionInv, NEW t \in Tabs,
         \/ Submit(t) \/ Read(t) \/ Logout(t) \/ Boot(t) \/ Rerender(t) \/ Poll(t) \/ HearEnded(t)
  PROVE  SessionInv'
<1>1. /\ SessionTypeInv /\ asks \subseteq Asks /\ tab \in [Tabs -> Pages] /\ MaxTokens \in Nat
      /\ PagesHoldTheirToken /\ Some \subseteq Token /\ news \subseteq Tabs /\ NoSession \notin Issued
  BY TypeFacts DEF SessionInv
<1>2. tab[t] \in Pages /\ PageShape(tab[t]) /\ tab = [tab EXCEPT ![t] = tab[t]]
  BY <1>1 DEF PagesHoldTheirToken
<1>3. tab[t].memory \in Some /\ tab[t].memory \in Token
  BY <1>1, <1>2 DEF PageShape, Some
<1>5. CASE Submit(t)
  <2> DEFINE new == Ask(t, "login", tab[t].memory, "other")
  <2>1. tab[t].memory = NoSession
    BY <1>5, <1>2 DEF Submit, PageShape
  <2>2. new \in Asks /\ AskShape(new)
    BY <1>3, <2>1, AskFields DEF Kinds, Causes, AskShape, Some
  <2>3. /\ asks' = asks \cup {new} /\ UNCHANGED <<now, tokens, storage, tab, news, history>>
    BY <1>5 DEF Submit
  <2> HIDE DEF new
  <2> QED
    BY <1>1, <1>2, <2>2, <2>3, QuietStep DEF SignedIn
<1>6. CASE Read(t)
  <2> DEFINE new == Ask(t, "read", tab[t].memory, "other")
  <2>1. new \in Asks /\ AskShape(new)
    BY <1>3, AskFields DEF Kinds, Causes, AskShape
  <2>2. /\ asks' = asks \cup {new} /\ UNCHANGED <<now, tokens, storage, tab, news, history>>
    BY <1>6 DEF Read
  <2> HIDE DEF new
  <2> QED
    BY <1>1, <1>2, <2>1, <2>2, QuietStep DEF SignedIn
<1>7. CASE Logout(t)
  <2> DEFINE new == Ask(t, "logout", tab[t].memory, "other")
  <2>1. new \in Asks /\ AskShape(new)
    BY <1>3, AskFields DEF Kinds, Causes, AskShape
  <2>2. /\ asks' = asks \cup {new} /\ UNCHANGED <<now, tokens, storage, tab, news, history>>
    BY <1>7 DEF Logout
  <2> HIDE DEF new
  <2> QED
    BY <1>1, <1>2, <2>1, <2>2, QuietStep DEF SignedIn
<1>8. CASE Boot(t)
  <2> DEFINE kept == tab[t].kept
             live == kept # NoSession /\ now < tokens[kept].issued + SESSION_TTL
             page == IF live THEN Page("restoring", kept) ELSE Page("unauthenticated", NoSession)
             new == Ask(t, "me", kept, "other")
  <2>1. /\ tab' = [tab EXCEPT ![t] = page]
        /\ asks' = {a \in asks : a.tab # t} \cup (IF live THEN {new} ELSE {})
        /\ news' = news \ {t}
        /\ UNCHANGED <<now, tokens, storage, history>>
    BY <1>8 DEF Boot
  <2>2. kept \in Some /\ kept \in Token /\ NoSession \in Some /\ NoSession \in Token
    BY <1>1, <1>2 DEF PageShape, Some
  <2>3. live => new \in Asks /\ AskShape(new)
    <3>1. live => kept \in Issued
      BY <2>2 DEF Some
    <3>2. new \in Asks /\ new.kind = "me" /\ new.auth = kept /\ new.answer = "none"
      BY <2>2, AskFields DEF Kinds, Causes
    <3> HIDE DEF new, kept
    <3> QED
      BY <3>1, <3>2 DEF AskShape, Some
  <2>4. page \in Pages /\ PageShape(page) /\ page.status # "authenticated" /\ page.wrote = Missing
    BY <1>1, <2>2, PageFields
  <2>5. \A a \in asks' : a \in asks \/ (a \in Asks /\ AskShape(a))
    BY <2>1, <2>3
  <2> HIDE DEF page, live, new, kept
  <2>6. news' \subseteq Tabs
    BY <1>1, <2>1
  <2> QED
    BY <2>1, <2>4, <2>5, <2>6, QuietStep
<1>9. CASE Rerender(t)
  <2> DEFINE page == [tab[t] EXCEPT !.ref = tab[t].session]
  <2>1. /\ tab' = [tab EXCEPT ![t] = page] /\ asks' = asks /\ news' = news
        /\ UNCHANGED <<now, tokens, storage, history>> /\ SignedIn(t)
    BY <1>1, <1>9 DEF Rerender
  <2>2. /\ page \in Pages /\ page.ref = tab[t].session /\ page.status = tab[t].status
        /\ page.session = tab[t].session /\ page.memory = tab[t].memory
        /\ page.kept = tab[t].kept /\ page.wrote = tab[t].wrote
    BY <1>2 DEF Pages
  <2> HIDE DEF page
  <2>3. PageShape(page)
    BY <1>2, <2>2 DEF PageShape
  <2> QED
    BY <1>1, <2>1, <2>2, <2>3, QuietStep
<1>10. ASSUME NEW why \in Causes, Expire(t, tab[t], asks, why), news' \subseteq Tabs,
              UNCHANGED <<now, tokens, storage, history>>
       PROVE  SessionInv'
  <2>1. PICK q \in Pages :
           /\ tab' = [tab EXCEPT ![t] = q] /\ PageShape(q)
           /\ q.status = tab[t].status /\ q.session = tab[t].session
           /\ q.wrote = tab[t].wrote /\ q.memory = tab[t].memory
           /\ asks' \subseteq asks \cup {Ask(t, "logout", tab[t].memory, why)}
           /\ AskShape(Ask(t, "logout", tab[t].memory, why)) /\ Ask(t, "logout", tab[t].memory, why) \in Asks
    BY <1>1, <1>2, <1>10, ExpireShape
  <2> DEFINE new == Ask(t, "logout", tab[t].memory, why)
  <2>2. \A a \in asks' : a \in asks \/ (a \in Asks /\ AskShape(a))
    <3>1. asks' \subseteq asks \cup {new} /\ AskShape(new) /\ new \in Asks
      BY <2>1
    <3> HIDE DEF new
    <3> QED
      BY <3>1
  <2>3. q.status = "authenticated" => SignedIn(t) /\ q.session = tab[t].session
    BY <2>1 DEF SignedIn
  <2>4. q.wrote \in {tab[t].wrote, Missing} /\ PageShape(q) /\ tab' = [tab EXCEPT ![t] = q]
    BY <2>1
  <2> QED
    BY <1>10, <2>2, <2>3, <2>4, QuietStep
<1>11. CASE Poll(t)
  <2>1. /\ Expire(t, tab[t], asks, "other") \/ Expire(t, tab[t], asks, "idle")
        /\ news' = news /\ UNCHANGED <<now, tokens, storage, history>>
    BY <1>11 DEF Poll
  <2>2. "other" \in Causes /\ "idle" \in Causes
    BY DEF Causes
  <2> QED
    BY <1>1, <1>10, <2>1, <2>2
<1>12. CASE HearEnded(t)
  <2>1. /\ Expire(t, tab[t], asks, "other") \/ (tab' = tab /\ asks' = asks)
        /\ news' \subseteq Tabs /\ UNCHANGED <<now, tokens, storage, history>>
    BY <1>1, <1>12 DEF HearEnded
  <2>2. "other" \in Causes
    BY DEF Causes
  <2>3. CASE Expire(t, tab[t], asks, "other")
    BY <1>10, <2>1, <2>2, <2>3
  <2>4. CASE tab' = tab /\ asks' = asks
    BY <1>1, <1>2, <2>1, <2>4, QuietStep DEF SignedIn
  <2> QED
    BY <2>1, <2>3, <2>4
<1> QED
  BY <1>5, <1>6, <1>7, <1>8, <1>9, <1>11, <1>12

LEMMA AnswerSteps ==
  ASSUME SessionInv, NEW a \in asks, GotRead(a) \/ SignInFails(a) \/ RestoreFails(a)
  PROVE  SessionInv'
<1>1. /\ SessionTypeInv /\ asks \subseteq Asks /\ tab \in [Tabs -> Pages] /\ MaxTokens \in Nat
      /\ PagesHoldTheirToken /\ Some \subseteq Token /\ news \subseteq Tabs
  BY TypeFacts DEF SessionInv
<1>2. a.tab \in Tabs /\ tab[a.tab] \in Pages /\ PageShape(tab[a.tab])
  BY <1>1 DEF Asks, PagesHoldTheirToken
<1>3. /\ news' = news /\ UNCHANGED <<now, tokens, storage, history>>
  BY DEF GotRead, SignInFails, RestoreFails
<1>4. CASE GotRead(a) \/ SignInFails(a)
  <2>1. PICK result \in Results(a) : Refused(a, result)
    BY <1>4 DEF GotRead, SignInFails
  <2>2. PICK q \in Pages :
           /\ tab' = [tab EXCEPT ![a.tab] = q] /\ PageShape(q)
           /\ q.status = tab[a.tab].status /\ q.session = tab[a.tab].session
           /\ q.wrote = tab[a.tab].wrote
           /\ \A b \in asks' : b \in asks \/ (b \in Asks /\ AskShape(b) /\ b.why = "other")
    BY <2>1, RefusedShape
  <2>3. q.status = "authenticated" => SignedIn(a.tab) /\ q.session = tab[a.tab].session
    BY <2>2 DEF SignedIn
  <2>4. \A b \in asks' : b \in asks \/ (b \in Asks /\ AskShape(b))
    BY <2>2
  <2>5. q.wrote \in {tab[a.tab].wrote, Missing} /\ PageShape(q) /\ tab' = [tab EXCEPT ![a.tab] = q]
    BY <2>2
  <2> QED
    BY <1>1, <1>2, <1>3, <2>3, <2>4, <2>5, QuietStep
<1>5. CASE RestoreFails(a)
  <2>1. PICK kept \in {NoSession, tab[a.tab].kept} :
           tab' = [tab EXCEPT ![a.tab] = Page("unauthenticated", kept)]
    BY <1>1, <1>2, <1>5 DEF RestoreFails
  <2>2. asks' = asks \ {a}
    BY <1>5 DEF RestoreFails
  <2>3. kept \in Some /\ kept \in Token
    BY <1>1, <1>2 DEF PageShape, Some
  <2> DEFINE page == Page("unauthenticated", kept)
  <2>4. page \in Pages /\ PageShape(page) /\ page.status # "authenticated" /\ page.wrote = Missing
    BY <1>1, <2>3, PageFields
  <2>5. tab' = [tab EXCEPT ![a.tab] = page]
    BY <2>1
  <2> HIDE DEF page
  <2> QED
    BY <1>1, <1>2, <1>3, <2>2, <2>4, <2>5, QuietStep
<1> QED
  BY <1>4, <1>5

\* The server answers.
LEMMA ServeLoginStep ==
  ASSUME SessionInv, NEW a \in asks, ServeLogin(a)
  PROVE  SessionInv'
<1>1. /\ SessionTypeInv /\ asks \subseteq Asks /\ tab \in [Tabs -> Pages] /\ MaxTokens \in Nat
      /\ PagesHoldTheirToken /\ AnswersAreTrue /\ Anchored /\ Throttled /\ InputSeen
      /\ now \in Time /\ tokens \in [Issued -> Passports]
      /\ Issued = 1..Cardinality(Issued) /\ Cardinality(Issued) \in Nat /\ Issued \subseteq Token
      /\ NoSession \notin Issued /\ Some \subseteq Token
  BY TypeFacts DEF SessionInv
<1>2. a \in Asks /\ AskShape(a) /\ a.kind = "login" /\ a.answer = "none"
  BY <1>1 DEF ServeLogin, AnswersAreTrue
<1>3. UNCHANGED <<now, activity, start, tab, news, lastInput, solo>>
  BY DEF ServeLogin, storage, history
<1>4. CASE Cardinality(Issued) < MaxTokens /\ tokens' # tokens
  <2> DEFINE k == Cardinality(Issued) + 1
             new == [issued |-> now, used |-> now]
             said == [[a EXCEPT !.answer = "ok"] EXCEPT !.auth = k]
  <2>1. /\ tokens' = [i \in 1..k |-> IF i < k THEN tokens[i] ELSE new]
        /\ asks' = (asks \ {a}) \cup {said} /\ Cardinality(Issued) < MaxTokens
    BY <1>4 DEF ServeLogin, Answer
  <2>2. k \in Nat /\ k \in 1..MaxTokens /\ k \in Token /\ k \notin Issued
    BY <1>1, <1>4 DEF Token, NoSession
  <2>3. new \in Passports /\ new.issued = now
    BY <1>1 DEF Passports
  <2>4. /\ said \in Asks /\ said.kind = "login" /\ said.answer = "ok" /\ said.auth = k
    BY <1>2, <2>2 DEF Asks
  <2> HIDE DEF said, new
  <2>5. Issued' = 1..k /\ 1..k = Issued \cup {k} /\ Cardinality(1..k) = k
    <3>1. Issued' = 1..k
      BY <2>1 DEF Issued
    <3>2. 1..k = Issued \cup {k}
      BY <1>1, <2>2
    <3>3. Cardinality(1..k) = k
      BY <2>2, FS_Interval
    <3> QED
      BY <3>1, <3>2, <3>3
  <2>6. \A i \in Issued : i < k /\ tokens'[i] = tokens[i]
    BY <1>1, <2>1, <2>2
  <2>7. tokens'[k] = new
    BY <2>1, <2>2
  <2> HIDE DEF k
  <2>8. tokens' \in [Issued' -> Passports]
    <3>1. \A i \in 1..k : (IF i < k THEN tokens[i] ELSE new) \in Passports
      BY <1>1, <2>1, <2>3, <2>5, <2>6
    <3> QED
      BY <2>1, <2>5, <3>1
  <2>9. SessionTypeInv'
    <3>1. Cardinality(Issued)' = k
      BY <2>5
    <3>2. tokens' \in [1..k -> [issued : Time, used : Time \cup {Missing}]]
      BY <2>5, <2>8 DEF Passports
    <3>3. asks' \subseteq Asks /\ k \in 0..MaxTokens
      BY <1>1, <2>1, <2>2, <2>4
    <3> QED
      BY <1>1, <1>3, <3>1, <3>2, <3>3 DEF SessionTypeInv, SessionTypeOK
  <2>10. PagesHoldTheirToken'
    BY <1>1, <1>3, <2>5 DEF PagesHoldTheirToken, PageShape, Some
  <2>11. ASSUME NEW b \in asks' PROVE AskShape(b)'
    <3>1. CASE b \in asks
      <4>1. b \in Asks /\ AskShape(b)
        BY <1>1, <3>1 DEF AnswersAreTrue
      <4>2. b.auth \in Issued => (Known(b.auth)' <=> Known(b.auth)) /\ tokens'[b.auth] = tokens[b.auth]
        BY <2>5, <2>6 DEF Known
      <4> QED
        BY <1>1, <1>3, <2>5, <4>1, <4>2 DEF AskShape, Some
    <3>2. CASE b = said
      BY <1>3, <2>3, <2>4, <2>5, <2>7, <3>2 DEF AskShape, Some
    <3> QED
      BY <2>1, <3>1, <3>2
  <2>12. Anchored'
    BY <1>1, <1>3, <2>6 DEF Anchored, SignedIn, PagesHoldTheirToken, PageShape
  <2>13. Throttled' /\ InputSeen'
    BY <1>1, <1>3 DEF Throttled, InputSeen
  <2> QED
    BY <2>9, <2>10, <2>11, <2>12, <2>13 DEF SessionInv, AnswersAreTrue
<1>5. CASE ~(Cardinality(Issued) < MaxTokens /\ tokens' # tokens)
  <2> DEFINE said == [a EXCEPT !.answer = "refused"]
  <2>1. tokens' = tokens
    BY <1>5 DEF ServeLogin
  <2>2. asks' = (asks \ {a}) \cup {said} /\ news' = news
    <3>1. CASE ~(Cardinality(Issued) < MaxTokens)
      BY <3>1 DEF ServeLogin, Answer
    <3>2. CASE Cardinality(Issued) < MaxTokens /\ tokens' = tokens
      <4> DEFINE k == Cardinality(Issued) + 1
      <4>1. tokens' # [i \in 1..k |-> IF i < k THEN tokens[i] ELSE [issued |-> now, used |-> now]]
        <5>1. DOMAIN tokens = Issued /\ k \in 1..k /\ k \notin Issued
          BY <1>1
        <5> HIDE DEF k
        <5> QED
          BY <3>2, <5>1
      <4> QED
        BY <3>2, <4>1 DEF ServeLogin, Answer
    <3> QED
      BY <1>5, <3>1, <3>2
  <2>3. said \in Asks /\ said.auth = a.auth /\ said.kind = "login" /\ said.answer = "refused"
    BY <1>2 DEF Asks
  <2> HIDE DEF said
  <2>4. AskShape(said)
    BY <1>2, <2>3 DEF AskShape
  <2>5. /\ a.tab \in Tabs /\ tab[a.tab] \in Pages /\ PageShape(tab[a.tab])
        /\ tab' = [tab EXCEPT ![a.tab] = tab[a.tab]] /\ news' \subseteq Tabs
    BY <1>1, <1>2, <1>3, <2>2, TypeFacts DEF Asks, PagesHoldTheirToken
  <2>6. \A b \in asks' : b \in asks \/ (b \in Asks /\ AskShape(b))
    BY <2>2, <2>3, <2>4
  <2> QED
    BY <1>3, <2>1, <2>5, <2>6, QuietStep DEF SignedIn, storage, history
<1> QED
  BY <1>4, <1>5

LEMMA ServeStep ==
  ASSUME SessionInv, NEW a \in asks, Serve(a)
  PROVE  SessionInv'
<1>1. /\ SessionTypeInv /\ asks \subseteq Asks /\ tab \in [Tabs -> Pages] /\ MaxTokens \in Nat
      /\ PagesHoldTheirToken /\ AnswersAreTrue /\ Anchored /\ Throttled /\ InputSeen
      /\ now \in Time /\ tokens \in [Issued -> Passports]
      /\ Issued = 1..Cardinality(Issued) /\ Issued \subseteq Token /\ MaxClock \in Nat
  BY TypeFacts DEF SessionInv
<1>2. a \in Asks /\ AskShape(a) /\ a.kind # "login" /\ a.answer = "none"
  BY <1>1 DEF Serve, AnswersAreTrue
<1>3. UNCHANGED <<now, activity, start, tab, news, lastInput, solo>>
  BY DEF Serve, storage, history
<1> DEFINE said == [a EXCEPT !.answer = IF Good(a.auth) THEN "ok" ELSE "refused"]
<1>4. /\ said \in Asks /\ said.kind = a.kind /\ said.auth = a.auth
      /\ said.answer = IF Good(a.auth) THEN "ok" ELSE "refused"
  BY <1>2 DEF Asks
<1>5. asks' = (asks \ {a}) \cup {said}
  BY DEF Serve, Answer
<1> HIDE DEF said
<1>6. PICK use \in Time \cup {Missing} :
        /\ tokens' = IF Known(a.auth) THEN [tokens EXCEPT ![a.auth].used = use] ELSE tokens
        /\ ~Good(a.auth) => use = Missing
  <2>1. tokens' = IF ~Known(a.auth) THEN tokens
                  ELSE IF Good(a.auth) /\ a.kind # "logout" THEN [tokens EXCEPT ![a.auth].used = now]
                  ELSE [tokens EXCEPT ![a.auth].used = Missing]
    BY DEF Serve
  <2>2. CASE Good(a.auth) /\ a.kind # "logout"
    BY <1>1, <2>1, <2>2
  <2>3. CASE ~(Good(a.auth) /\ a.kind # "logout")
    BY <2>1, <2>3
  <2> QED
    BY <2>2, <2>3
<1>7. /\ tokens' \in [Issued -> Passports]
      /\ \A i \in Issued : /\ tokens'[i].issued = tokens[i].issued
                           /\ i # a.auth \/ ~Known(a.auth) => tokens'[i].used = tokens[i].used
                           /\ i = a.auth /\ Known(a.auth) => tokens'[i].used = use
  <2>1. CASE Known(a.auth)
    <3> DEFINE passport == [tokens[a.auth] EXCEPT !.used = use]
    <3>1. a.auth \in Issued /\ tokens' = [tokens EXCEPT ![a.auth] = passport]
      BY <1>6, <2>1 DEF Known
    <3>2. passport \in Passports /\ passport.issued = tokens[a.auth].issued /\ passport.used = use
      BY <1>1, <3>1 DEF Passports
    <3> HIDE DEF passport
    <3> QED
      BY <1>1, <2>1, <3>1, <3>2
  <2>2. CASE ~Known(a.auth)
    BY <1>1, <1>6, <2>2
  <2> QED
    BY <2>1, <2>2
<1>8. Issued' = Issued
  <2>1. DOMAIN tokens' = Issued
    BY <1>7
  <2> QED
    BY <2>1 DEF Issued
<1>9. SessionTypeInv'
  <2>1. tokens' \in [1..Cardinality(Issued) -> [issued : Time, used : Time \cup {Missing}]]
    BY <1>1, <1>7 DEF Passports
  <2>2. asks' \subseteq Asks
    BY <1>1, <1>4, <1>5
  <2> QED
    BY <1>1, <1>3, <1>8, <2>1, <2>2 DEF SessionTypeInv, SessionTypeOK
<1>10. PagesHoldTheirToken'
  BY <1>1, <1>3, <1>8 DEF PagesHoldTheirToken, PageShape, Some
<1>11. \A i \in Some : i # NoSession /\ ~Known(i) => ~Known(i)'
  BY <1>7, <1>8 DEF Known, Some
<1>12. ASSUME NEW b \in asks' PROVE AskShape(b)'
  <2>1. CASE b \in asks
    <3>1. AskShape(b)
      BY <1>1, <2>1 DEF AnswersAreTrue
    <3> QED
      BY <1>3, <1>7, <1>8, <1>11, <3>1 DEF AskShape, Some
  <2>2. CASE b = said
    <3>1. ~Good(a.auth) /\ a.auth # NoSession => ~Known(a.auth)'
      BY <1>2, <1>6, <1>7, <1>8, <1>11 DEF AskShape, Known, Some
    <3> QED
      BY <1>2, <1>4, <1>8, <2>2, <3>1 DEF AskShape, Some
  <2> QED
    BY <1>5, <2>1, <2>2
<1>13. Anchored'
  BY <1>1, <1>3, <1>7 DEF Anchored, SignedIn, PagesHoldTheirToken, PageShape
<1>14. Throttled' /\ InputSeen'
  BY <1>1, <1>3 DEF Throttled, InputSeen
<1> QED
  BY <1>9, <1>10, <1>12, <1>13, <1>14 DEF SessionInv, AnswersAreTrue

\* A page enters a session: the clock is its own from here.
LEMMA EnterStep ==
  ASSUME SessionInv, NEW a \in asks, SignIn(a) \/ Restore(a)
  PROVE  SessionInv'
<1>1. /\ SessionTypeInv /\ asks \subseteq Asks /\ tab \in [Tabs -> Pages] /\ MaxTokens \in Nat
      /\ PagesHoldTheirToken /\ AnswersAreTrue /\ Throttled
      /\ now \in Time /\ start \in Time \cup {Missing} /\ tokens \in [Issued -> Passports]
      /\ Issued \subseteq Token /\ NoSession \notin Issued /\ MaxClock \in Nat /\ WRITE_THROTTLE \in Nat
  BY TypeFacts DEF SessionInv
<1>2. a \in Asks /\ AskShape(a) /\ a.tab \in Tabs
  BY <1>1 DEF AnswersAreTrue, Asks
<1>3. a.auth \in Issued /\ tokens[a.auth].issued \in Time
  BY <1>1, <1>2 DEF SignIn, Restore, AskShape, Passports
<1>4. /\ tab' = [tab EXCEPT ![a.tab] = Enter(a.tab, a.auth)] /\ asks' = asks \ {a}
      /\ activity' = now /\ lastInput' = now /\ solo' = [u \in Tabs |-> u = a.tab]
      /\ UNCHANGED <<now, tokens, news>>
  BY DEF SignIn, Restore, resetSessionClock, anchorSessionClock, OthersAffected
<1>5. start' \in Time /\ start' <= tokens[a.auth].issued
  <2>1. CASE SignIn(a)
    <3>1. start' = now /\ tokens[a.auth].issued = now
      BY <1>2, <2>1 DEF SignIn, resetSessionClock, AskShape
    <3> QED
      BY <1>1, <3>1 DEF Time
  <2>2. CASE Restore(a)
    <3>1. start' = IF start # Missing /\ start <= now /\ start <= tokens[a.auth].issued THEN start
                   ELSE tokens[a.auth].issued
      BY <2>2 DEF Restore, anchorSessionClock
    <3> QED
      BY <1>1, <1>3, <3>1 DEF Time
  <2> QED
    BY <2>1, <2>2
<1> DEFINE page == Enter(a.tab, a.auth)
<1>6. /\ page \in Pages /\ page.status = "authenticated" /\ page.session = a.auth
      /\ page.wrote = Missing /\ PageShape(page)
  BY <1>1, <1>3, EnterFields
<1>7. tab' = [tab EXCEPT ![a.tab] = page]
  BY <1>4
<1> HIDE DEF page
<1>8. /\ tab' \in [Tabs -> Pages]
      /\ \A u \in Tabs : tab'[u] = IF u = a.tab THEN page ELSE tab[u]
  BY <1>1, <1>6, <1>7
<1>9. SessionTypeInv'
  <2>1. solo' \in [Tabs -> BOOLEAN]
    BY <1>4
  <2> QED
    BY <1>1, <1>4, <1>5, <1>8, <2>1 DEF SessionTypeInv, SessionTypeOK, Pages, Issued
<1>10. PagesHoldTheirToken'
  BY <1>1, <1>4, <1>6, <1>8 DEF PagesHoldTheirToken, PageShape, Some, Issued
<1>11. AnswersAreTrue'
  BY <1>1, <1>4 DEF AnswersAreTrue, AskShape, Some, Issued, Known
<1>12. Anchored'
  <2>1. \A u \in Tabs : solo'[u] <=> u = a.tab
    BY <1>4
  <2>2. tab'[a.tab].session = a.auth /\ start' # Missing
    BY <1>1, <1>2, <1>5, <1>6, <1>8 DEF Time, Missing
  <2> QED
    BY <1>4, <1>5, <2>1, <2>2 DEF Anchored
<1>13. Throttled'
  BY <1>1, <1>4, <1>6, <1>8 DEF Throttled, Pages, Time, Missing
<1>14. InputSeen'
  BY <1>1, <1>4 DEF InputSeen, Time
<1> QED
  BY <1>9, <1>10, <1>11, <1>12, <1>13, <1>14 DEF SessionInv

LEMMA EndStep ==
  ASSUME SessionInv, NEW a \in asks, GotLogout(a)
  PROVE  SessionInv'
<1>1. /\ SessionTypeInv /\ asks \subseteq Asks /\ tab \in [Tabs -> Pages] /\ MaxTokens \in Nat
      /\ PagesHoldTheirToken /\ AnswersAreTrue /\ Throttled /\ news \subseteq Tabs
  BY TypeFacts DEF SessionInv
<1>2. a.tab \in Tabs /\ NoSession \in Token /\ NoSession \in Some
  BY <1>1 DEF Asks, Token, NoSession, Some
<1> DEFINE page == Page("unauthenticated", NoSession)
<1>3. page \in Pages /\ page.wrote = Missing /\ PageShape(page) /\ page.status = "unauthenticated"
  BY <1>1, <1>2, PageFields
<1>4. /\ tab' = [tab EXCEPT ![a.tab] = page] /\ asks' = asks \ {a} /\ news' = news \cup (Tabs \ {a.tab})
      /\ activity' = Missing /\ start' = Missing /\ solo' = [u \in Tabs |-> FALSE]
      /\ UNCHANGED <<now, tokens, lastInput>>
  BY DEF GotLogout, EndSession, notifySessionEnded, clearSessionClock
<1> HIDE DEF page
<1>5. /\ tab' \in [Tabs -> Pages]
      /\ \A u \in Tabs : tab'[u] = IF u = a.tab THEN page ELSE tab[u]
  BY <1>1, <1>3, <1>4
<1>6. SessionTypeInv'
  BY <1>1, <1>4, <1>5 DEF SessionTypeInv, SessionTypeOK, Pages, Issued
<1>7. PagesHoldTheirToken'
  BY <1>1, <1>3, <1>4, <1>5 DEF PagesHoldTheirToken, PageShape, Some, Issued
<1>8. AnswersAreTrue'
  BY <1>1, <1>4 DEF AnswersAreTrue, AskShape, Some, Issued, Known
<1>9. Anchored' /\ InputSeen'
  BY <1>4 DEF Anchored, InputSeen
<1>10. Throttled'
  BY <1>1, <1>3, <1>4, <1>5 DEF Throttled
<1> QED
  BY <1>6, <1>7, <1>8, <1>9, <1>10 DEF SessionInv

LEMMA MarkStep ==
  ASSUME SessionInv, NEW t \in Tabs, MarkActive(t)
  PROVE  SessionInv'
<1>1. /\ SessionTypeInv /\ asks \subseteq Asks /\ tab \in [Tabs -> Pages] /\ MaxTokens \in Nat
      /\ PagesHoldTheirToken /\ AnswersAreTrue /\ Anchored /\ Throttled
      /\ now \in Time /\ activity \in Time \cup {Missing} /\ MaxClock \in Nat /\ WRITE_THROTTLE \in Nat
  BY TypeFacts DEF SessionInv
<1>2. lastInput' = now /\ UNCHANGED <<now, tokens, start, news, asks, solo>> /\ tab[t] \in Pages
  BY <1>1 DEF MarkActive
<1>3. AnswersAreTrue'
  BY <1>1, <1>2 DEF AnswersAreTrue, AskShape, Some, Issued, Known
<1>4. CASE tab[t].wrote # Missing
  <2>1. UNCHANGED <<activity, tab>>
    BY <1>4 DEF MarkActive
  <2>2. SessionTypeInv' /\ PagesHoldTheirToken' /\ Anchored' /\ Throttled'
    BY <1>1, <1>2, <2>1 DEF SessionTypeInv, SessionTypeOK, PagesHoldTheirToken, PageShape, Some,
       Issued, Anchored, SignedIn, Throttled
  <2>3. InputSeen'
    <3>1. tab[t].wrote \in Time /\ now - tab[t].wrote <= WRITE_THROTTLE
      BY <1>1, <1>2, <1>4 DEF Pages, Throttled
    <3>2. activity # Missing => activity \in Time /\ tab[t].wrote <= activity
      BY <1>1, <1>4 DEF Throttled
    <3> QED
      BY <1>1, <1>2, <2>1, <3>1, <3>2 DEF InputSeen, Time
  <2> QED
    BY <1>3, <2>2, <2>3 DEF SessionInv
<1>5. CASE tab[t].wrote = Missing
  <2> DEFINE page == [tab[t] EXCEPT !.wrote = now]
  <2>1. activity' = now /\ tab' = [tab EXCEPT ![t] = page]
    BY <1>5 DEF MarkActive
  <2>2. /\ page \in Pages /\ page.wrote = now /\ page.status = tab[t].status
        /\ page.session = tab[t].session /\ page.memory = tab[t].memory
        /\ page.kept = tab[t].kept /\ page.ref = tab[t].ref
    BY <1>1, <1>2 DEF Pages
  <2> HIDE DEF page
  <2>3. /\ tab' \in [Tabs -> Pages]
        /\ \A u \in Tabs : tab'[u] = IF u = t THEN page ELSE tab[u]
    BY <1>1, <2>1, <2>2
  <2>4. SessionTypeInv'
    BY <1>1, <1>2, <2>1, <2>3 DEF SessionTypeInv, SessionTypeOK, Pages, Issued
  <2>5. PagesHoldTheirToken'
    BY <1>1, <1>2, <2>2, <2>3 DEF PagesHoldTheirToken, PageShape, Some, Issued
  <2>6. Anchored'
    BY <1>1, <1>2, <2>2, <2>3 DEF Anchored, SignedIn
  <2>7. Throttled'
    <3>1. \A u \in Tabs : tab[u].wrote \in Time \cup {Missing}
      BY <1>1 DEF Pages
    <3>2. ASSUME NEW u \in Tabs, tab'[u].wrote # Missing
          PROVE  now - tab'[u].wrote <= WRITE_THROTTLE /\ tab'[u].wrote <= now
      BY <1>1, <2>2, <2>3, <3>1, <3>2 DEF Throttled, Time
    <3> QED
      BY <1>2, <2>1, <3>2 DEF Throttled
  <2>8. InputSeen'
    BY <1>1, <1>2, <2>1 DEF InputSeen, Time
  <2> QED
    BY <1>3, <2>4, <2>5, <2>6, <2>7, <2>8 DEF SessionInv
<1> QED
  BY <1>4, <1>5

LEMMA PassStep ==
  ASSUME SessionInv, Pass
  PROVE  SessionInv'
<1>1. /\ SessionTypeInv /\ tab \in [Tabs -> Pages] /\ MaxTokens \in Nat
      /\ PagesHoldTheirToken /\ Anchored /\ Throttled /\ InputSeen
      /\ now \in Time /\ MaxClock \in Nat /\ WRITE_THROTTLE \in Nat
  BY TypeFacts DEF SessionInv
<1>2. /\ now' = now + 1 /\ now' \in Time /\ asks = {} /\ asks' = {}
      /\ UNCHANGED <<tokens, activity, start, news, lastInput, solo>>
  BY <1>1 DEF Pass, Time, storage, history
<1>3. ASSUME NEW t \in Tabs
      PROVE  /\ tab'[t] \in Pages
             /\ tab'[t].wrote \in {tab[t].wrote, Missing}
             /\ tab'[t].wrote # Missing => now' - tab'[t].wrote <= WRITE_THROTTLE
             /\ tab'[t].status = tab[t].status /\ tab'[t].session = tab[t].session
             /\ tab'[t].memory = tab[t].memory /\ tab'[t].kept = tab[t].kept /\ tab'[t].ref = tab[t].ref
  <2>1. tab'[t] = [tab[t] EXCEPT !.wrote = IF now + 1 - @ < WRITE_THROTTLE THEN @ ELSE Missing]
    BY DEF Pass
  <2>2. tab[t] \in Pages /\ tab[t].wrote \in Time \cup {Missing}
    BY <1>1 DEF Pages
  <2> DEFINE wrote == IF now + 1 - tab[t].wrote < WRITE_THROTTLE THEN tab[t].wrote ELSE Missing
  <2>3. wrote \in {tab[t].wrote, Missing} /\ (wrote # Missing => now + 1 - wrote <= WRITE_THROTTLE)
    BY <1>1, <2>2 DEF Time, Missing
  <2>4. tab'[t] = [tab[t] EXCEPT !.wrote = wrote]
    BY <2>1
  <2> HIDE DEF wrote
  <2>5. wrote \in Time \cup {Missing}
    BY <2>2, <2>3
  <2>6. /\ tab'[t] \in Pages /\ tab'[t].wrote = wrote
        /\ tab'[t].status = tab[t].status /\ tab'[t].session = tab[t].session
        /\ tab'[t].memory = tab[t].memory /\ tab'[t].kept = tab[t].kept /\ tab'[t].ref = tab[t].ref
    BY <2>2, <2>4, <2>5 DEF Pages
  <2>7. tab'[t].wrote # Missing => now' - tab'[t].wrote <= WRITE_THROTTLE
    <3>1. now' - wrote = now + 1 - wrote
      BY <1>1, <1>2, <2>5 DEF Time, Missing
    <3> QED
      BY <2>3, <2>6, <3>1
  <2> QED
    BY <2>3, <2>6, <2>7
<1>4. tab' \in [Tabs -> Pages]
  <2>1. tab' = [t \in Tabs |-> tab'[t]]
    BY DEF Pass
  <2> QED
    BY <1>3, <2>1
<1>5. SessionTypeInv'
  BY <1>1, <1>2, <1>4 DEF SessionTypeInv, SessionTypeOK, Pages, Issued
<1>6. PagesHoldTheirToken'
  BY <1>1, <1>2, <1>3 DEF PagesHoldTheirToken, PageShape, Some, Issued
<1>7. AnswersAreTrue'
  BY <1>2 DEF AnswersAreTrue
<1>8. Anchored'
  BY <1>1, <1>2, <1>3 DEF Anchored, SignedIn
<1>9. Throttled'
  BY <1>1, <1>2, <1>3 DEF Throttled, Pages, Time
<1>10. InputSeen'
  BY <1>1, <1>2 DEF InputSeen
<1> QED
  BY <1>5, <1>6, <1>7, <1>8, <1>9, <1>10 DEF SessionInv

LEMMA SessionStarts == SessionInit => SessionInv
<1> SUFFICES ASSUME SessionInit PROVE SessionInv
  OBVIOUS
<1>1. MaxTokens \in Nat /\ MaxClock \in Nat /\ WRITE_THROTTLE \in Nat
  BY SessionAssumption
<1>2. Issued = {} /\ Cardinality(Issued) = 0 /\ 1..0 = {}
  <2>1. Issued = {}
    BY DEF SessionInit, Issued
  <2> QED
    BY <2>1, FS_EmptySet
<1>3. NoSession \in Token /\ NoSession \in Some
  BY <1>1 DEF Token, NoSession, Some
<1> DEFINE page == Page("unauthenticated", NoSession)
<1>4. page \in Pages /\ page.wrote = Missing /\ PageShape(page) /\ page.status = "unauthenticated"
  BY <1>1, <1>3, PageFields
<1>5. tab = [t \in Tabs |-> page]
  BY DEF SessionInit
<1> HIDE DEF page
<1>6. tokens \in [1..0 -> [issued : Time, used : Time \cup {Missing}]]
  BY <1>2 DEF SessionInit
<1>7. SessionTypeInv
  BY <1>1, <1>2, <1>4, <1>5, <1>6 DEF SessionInit, SessionTypeInv, SessionTypeOK, Pages, Time
<1>8. PagesHoldTheirToken /\ AnswersAreTrue /\ Anchored /\ Throttled /\ InputSeen
  BY <1>4, <1>5 DEF SessionInit, PagesHoldTheirToken, AnswersAreTrue, Anchored, SignedIn, Throttled,
     InputSeen
<1> QED
  BY <1>7, <1>8 DEF SessionInv

LEMMA SessionKeeps == SessionInv /\ [SessionNext]_sessionVars => SessionInv'
<1> SUFFICES ASSUME SessionInv, [SessionNext]_sessionVars PROVE SessionInv'
  OBVIOUS
<1>1. CASE UNCHANGED sessionVars
  BY <1>1 DEF sessionVars, storage, history, SessionInv, SessionTypeInv, SessionTypeOK, Issued,
     PagesHoldTheirToken, PageShape, AnswersAreTrue, AskShape, Some, Known, Anchored, SignedIn,
     Throttled, InputSeen
<1>2. CASE SessionNext
  <2>1. CASE Pass
    BY <2>1, PassStep
  <2>2. ASSUME NEW t \in Tabs,
               \/ Submit(t) \/ Read(t) \/ Logout(t) \/ Boot(t) \/ Rerender(t)
               \/ MarkActive(t) \/ Poll(t) \/ HearEnded(t)
        PROVE  SessionInv'
    BY <2>2, QuietSteps, MarkStep
  <2>3. ASSUME NEW a \in asks,
               \/ ServeLogin(a) \/ Serve(a) \/ GotRead(a) \/ SignIn(a) \/ SignInFails(a)
               \/ Restore(a) \/ RestoreFails(a) \/ GotLogout(a)
        PROVE  SessionInv'
    BY <2>3, ServeLoginStep, ServeStep, AnswerSteps, EnterStep, EndStep
  <2> QED
    BY <1>2, <2>1, <2>2, <2>3 DEF SessionNext
<1> QED
  BY <1>1, <1>2

\* Tokens, clock, pages and requests stay within their types; a page never
\* names a token the server has not issued.
THEOREM SessionTypes == SessionSpec => []SessionTypeOK
<1>1. SessionInv => SessionTypeOK
  BY DEF SessionInv, SessionTypeInv
<1> QED
  BY <1>1, SessionStarts, SessionKeeps, PTL DEF SessionSpec

\* The ceiling: a session whose clock no other tab moved is seen as too old
\* once its token is, however often its page was loaded anew.
THEOREM SessionCeilingHolds == SessionSpec => []CeilingHolds
<1>1. SessionInv => CeilingHolds
  <2> SUFFICES ASSUME SessionInv, NEW t \in Tabs, SignedIn(t), solo[t],
                      now - tokens[tab[t].session].issued >= ABSOLUTE_SESSION
               PROVE  TooOld
    BY DEF CeilingHolds
  <2>1. start # Missing /\ start <= tokens[tab[t].session].issued
    BY DEF SessionInv, Anchored
  <2>2. /\ now \in Int /\ start \in Int /\ ABSOLUTE_SESSION \in Nat
        /\ tokens[tab[t].session].issued \in Int
    <3>1. /\ now \in Time /\ start \in Time /\ ABSOLUTE_SESSION \in Nat /\ MaxClock \in Nat
          /\ tokens \in [Issued -> Passports]
      BY <2>1, TypeFacts DEF SessionInv
    <3>2. tab[t].session \in Issued
      BY DEF SessionInv, PagesHoldTheirToken, PageShape, SignedIn
    <3> QED
      BY <3>1, <3>2 DEF Passports, Time
  <2> QED
    BY <2>1, <2>2 DEF TooOld
<1> QED
  BY <1>1, SessionStarts, SessionKeeps, PTL DEF SessionSpec

\* Only an answer the server gave to the very token of a page takes the token
\* from it and leaves the page signed in.
LEMMA TokensAreTakenByTheServer ==
  ASSUME SessionInv, SessionNext, NEW t \in Tabs, SignedIn(t), tab[t].memory # NoSession,
         tab'[t].memory = NoSession, tab'[t].status = "authenticated"
  PROVE  ~Known(tab[t].session)
<1>1. /\ SessionTypeInv /\ asks \subseteq Asks /\ tab \in [Tabs -> Pages] /\ MaxTokens \in Nat
      /\ PagesHoldTheirToken /\ AnswersAreTrue /\ Issued \subseteq Token /\ NoSession \notin Issued
  BY TypeFacts DEF SessionInv
<1>2. tab[t] \in Pages /\ PageShape(tab[t]) /\ tab[t].memory = tab[t].session
  BY <1>1 DEF PagesHoldTheirToken, PageShape
<1>3. ASSUME NEW u \in Tabs, NEW q, tab' = [tab EXCEPT ![u] = q],
             q.memory # NoSession \/ q.memory = tab[u].memory \/ q.status # "authenticated"
      PROVE  FALSE
  BY <1>1, <1>3
<1>4. tab' # tab
  BY <1>1
<1>5. ASSUME NEW u \in Tabs,
             \/ Submit(u) \/ Read(u) \/ Logout(u) \/ Boot(u) \/ Rerender(u)
             \/ MarkActive(u) \/ Poll(u) \/ HearEnded(u)
      PROVE  FALSE
  <2>1. tab[u] \in Pages /\ PageShape(tab[u])
    BY <1>1 DEF PagesHoldTheirToken
  <2>2. CASE Submit(u) \/ Read(u) \/ Logout(u)
    BY <1>4, <2>2 DEF Submit, Read, Logout
  <2>3. CASE Boot(u)
    <3>1. PICK kept \in {tab[u].kept, NoSession}, status \in {"restoring", "unauthenticated"} :
            tab' = [tab EXCEPT ![u] = Page(status, kept)]
      <4> DEFINE live == tab[u].kept # NoSession /\ now < tokens[tab[u].kept].issued + SESSION_TTL
      <4>1. tab' = [tab EXCEPT ![u] = IF live THEN Page("restoring", tab[u].kept)
                                      ELSE Page("unauthenticated", NoSession)]
        BY <2>3 DEF Boot
      <4> HIDE DEF live
      <4>2. CASE live
        BY <4>1, <4>2
      <4>3. CASE ~live
        BY <4>1, <4>3
      <4> QED
        BY <4>2, <4>3
    <3>2. Page(status, kept).status = status
      BY DEF Page
    <3> QED
      BY <1>3, <3>1, <3>2
  <2>4. CASE Rerender(u)
    <3> DEFINE q == [tab[u] EXCEPT !.ref = tab[u].session]
    <3>1. tab' = [tab EXCEPT ![u] = q]
      BY <1>1, <2>4 DEF Rerender
    <3>2. q.memory = tab[u].memory
      BY <2>1 DEF Pages
    <3> HIDE DEF q
    <3> QED
      BY <1>3, <3>1, <3>2
  <2>5. CASE MarkActive(u)
    <3> DEFINE q == [tab[u] EXCEPT !.wrote = now]
    <3>1. tab' = [tab EXCEPT ![u] = q]
      BY <1>1, <1>4, <2>5 DEF MarkActive
    <3>2. q.memory = tab[u].memory
      BY <2>1 DEF Pages
    <3> HIDE DEF q
    <3> QED
      BY <1>3, <3>1, <3>2
  <2>6. CASE Poll(u) \/ HearEnded(u)
    <3>1. \E why \in Causes : Expire(u, tab[u], asks, why)
      BY <1>4, <2>6 DEF Poll, HearEnded, Causes
    <3>2. PICK q \in Pages : tab' = [tab EXCEPT ![u] = q] /\ q.memory = tab[u].memory
      BY <1>1, <2>1, <3>1, ExpireShape
    <3> QED
      BY <1>3, <3>2
  <2> QED
    BY <1>5, <2>2, <2>3, <2>4, <2>5, <2>6
<1>6. ASSUME NEW a \in asks,
             \/ ServeLogin(a) \/ Serve(a) \/ SignIn(a) \/ Restore(a) \/ RestoreFails(a) \/ GotLogout(a)
      PROVE  FALSE
  <2>1. a.tab \in Tabs /\ a.auth \in Token /\ AskShape(a)
    BY <1>1 DEF Asks, AnswersAreTrue
  <2>2. CASE ServeLogin(a) \/ Serve(a)
    BY <1>4, <2>2 DEF ServeLogin, Serve
  <2>3. CASE SignIn(a) \/ Restore(a)
    <3>1. tab' = [tab EXCEPT ![a.tab] = Enter(a.tab, a.auth)] /\ a.auth \in Issued
      BY <2>1, <2>3 DEF SignIn, Restore, AskShape
    <3>2. Enter(a.tab, a.auth).memory = a.auth /\ a.auth # NoSession
      BY <1>1, <2>1, <3>1, EnterFields
    <3> QED
      BY <1>3, <2>1, <3>1, <3>2
  <2>4. CASE RestoreFails(a) \/ GotLogout(a)
    <3>1. PICK kept : tab' = [tab EXCEPT ![a.tab] = Page("unauthenticated", kept)]
      BY <2>4 DEF RestoreFails, GotLogout, EndSession
    <3>2. Page("unauthenticated", kept).status = "unauthenticated"
      BY DEF Page
    <3> QED
      BY <1>3, <2>1, <3>1, <3>2
  <2> QED
    BY <1>6, <2>2, <2>3, <2>4
<1>7. ASSUME Pass PROVE FALSE
  <2>1. tab'[t] = [tab[t] EXCEPT !.wrote = IF now + 1 - @ < WRITE_THROTTLE THEN @ ELSE Missing]
    BY <1>7 DEF Pass
  <2>2. tab'[t].memory = tab[t].memory
    BY <1>2, <2>1 DEF Pages
  <2> QED
    BY <2>2
<1>8. ASSUME NEW a \in asks, GotRead(a) \/ SignInFails(a)
      PROVE  ~Known(tab[t].session)
  <2>1. PICK result \in Results(a) : Refused(a, result)
    BY <1>8 DEF GotRead, SignInFails
  <2>2. PICK q \in Pages :
           /\ tab' = [tab EXCEPT ![a.tab] = q]
           /\ q.memory # tab[a.tab].memory => a.answer = "refused" /\ CurrentCredential(tab[a.tab], a.auth)
    BY <2>1, RefusedShape
  <2>3. a.tab \in Tabs
    BY <1>1 DEF Asks
  <2>4. a.tab = t /\ q.memory # tab[t].memory
    BY <1>1, <1>3, <2>2, <2>3
  <2>5. a.answer = "refused" /\ a.auth = tab[t].session /\ a.auth # NoSession
    BY <1>2, <2>2, <2>4 DEF CurrentCredential
  <2> QED
    BY <1>1, <2>5 DEF AnswersAreTrue, AskShape
<1> QED
  BY <1>5, <1>6, <1>7, <1>8 DEF SessionNext

\* The idle clock asks only for the end of a session nobody touched.
LEMMA IdleSignOutsAreIdle ==
  ASSUME SessionInv, SessionNext, NEW b \in asks' \ asks, b.answer = "none", b.why = "idle"
  PROVE  now - lastInput >= IDLE_TIMEOUT - WRITE_THROTTLE
<1>1. /\ SessionTypeInv /\ asks \subseteq Asks /\ tab \in [Tabs -> Pages] /\ MaxTokens \in Nat
      /\ PagesHoldTheirToken
  BY TypeFacts DEF SessionInv
<1>2. ASSUME NEW t \in Tabs, NEW kind, NEW auth, NEW why, b = Ask(t, kind, auth, why)
      PROVE  why = "idle"
  BY <1>2 DEF Ask
<1>3. ASSUME NEW t \in Tabs, NEW why \in Causes, Expire(t, tab[t], asks, why)
      PROVE  why = "idle"
  <2>1. PageShape(tab[t]) /\ tab[t] \in Pages
    BY <1>1 DEF PagesHoldTheirToken
  <2>2. asks' \subseteq asks \cup {Ask(t, "logout", tab[t].memory, why)}
    BY <1>1, <1>3, <2>1, ExpireShape
  <2>3. b = Ask(t, "logout", tab[t].memory, why)
    BY <2>2
  <2> QED
    BY <1>2, <2>3
<1>4. ASSUME NEW t \in Tabs,
             \/ Submit(t) \/ Read(t) \/ Logout(t) \/ Boot(t) \/ Rerender(t)
             \/ MarkActive(t) \/ HearEnded(t)
      PROVE  FALSE
  <2>1. CASE Submit(t)
    BY <1>2, <2>1 DEF Submit
  <2>2. CASE Read(t)
    BY <1>2, <2>2 DEF Read
  <2>3. CASE Logout(t)
    BY <1>2, <2>3 DEF Logout
  <2>4. CASE Boot(t)
    <3>1. b = Ask(t, "me", tab[t].kept, "other")
      BY <2>4 DEF Boot
    <3> QED
      BY <1>2, <3>1
  <2>5. CASE Rerender(t) \/ MarkActive(t)
    BY <2>5 DEF Rerender, MarkActive
  <2>6. CASE HearEnded(t)
    <3>1. Expire(t, tab[t], asks, "other")
      BY <2>6 DEF HearEnded
    <3> QED
      BY <1>3, <3>1 DEF Causes
  <2> QED
    BY <1>4, <2>1, <2>2, <2>3, <2>4, <2>5, <2>6
<1>5. ASSUME NEW a \in asks,
             \/ ServeLogin(a) \/ Serve(a) \/ GotRead(a) \/ SignIn(a) \/ SignInFails(a)
             \/ Restore(a) \/ RestoreFails(a) \/ GotLogout(a)
      PROVE  FALSE
  <2>1. a \in Asks
    BY <1>1
  <2>2. CASE SignIn(a) \/ Restore(a) \/ RestoreFails(a) \/ GotLogout(a)
    BY <2>2 DEF SignIn, Restore, RestoreFails, GotLogout, EndSession
  <2>3. CASE GotRead(a) \/ SignInFails(a)
    <3>1. PICK result \in Results(a) : Refused(a, result)
      BY <2>3 DEF GotRead, SignInFails
    <3>2. \A c \in asks' : c \in asks \/ c.why = "other"
      BY <3>1, RefusedShape
    <3> QED
      BY <3>2
  <2>4. CASE Serve(a)
    <3> DEFINE said == [a EXCEPT !.answer = IF Good(a.auth) THEN "ok" ELSE "refused"]
    <3>1. asks' = (asks \ {a}) \cup {said}
      BY <2>4 DEF Serve, Answer
    <3>2. said.answer \in {"ok", "refused"}
      BY <2>1 DEF Asks
    <3> HIDE DEF said
    <3> QED
      BY <3>1, <3>2
  <2>5. CASE ServeLogin(a)
    <3> DEFINE refused == [a EXCEPT !.answer = "refused"]
               entered(k) == [[a EXCEPT !.answer = "ok"] EXCEPT !.auth = k]
    <3>1. PICK said \in {refused, entered(Cardinality(Issued) + 1)} : asks' = (asks \ {a}) \cup {said}
      BY <2>5, Zenon DEF ServeLogin, Answer
    <3>2. refused.answer = "refused" /\ \A k : entered(k).answer = "ok"
      BY <2>1 DEF Asks
    <3> HIDE DEF refused, entered
    <3> QED
      BY <3>1, <3>2
  <2> QED
    BY <1>5, <2>2, <2>3, <2>4, <2>5
<1>6. ~Pass
  BY DEF Pass
<1>7. PICK t \in Tabs : Poll(t)
  BY <1>4, <1>5, <1>6 DEF SessionNext
<1>8. TooIdle
  <2>1. CASE Expire(t, tab[t], asks, "other")
    BY <1>3, <2>1 DEF Causes
  <2> QED
    BY <1>7, <2>1 DEF Poll
<1>9. /\ activity # Missing /\ now - activity >= IDLE_TIMEOUT /\ lastInput - activity <= WRITE_THROTTLE
  BY <1>8 DEF TooIdle, SessionInv, InputSeen
<1>10. /\ now \in Int /\ activity \in Int /\ lastInput \in Int
       /\ IDLE_TIMEOUT \in Int /\ WRITE_THROTTLE \in Int
  BY <1>1, TypeFacts DEF Time, Missing
<1> QED
  BY <1>9, <1>10

\* Nobody is signed out by a late answer or in the middle of work: for any
\* number of tabs, and answers that come in any order or never.
THEOREM SessionSignOutsHaveACause == SessionSpec => SignOutsHaveACause
<1>1. SessionInv /\ [SessionNext]_sessionVars
        => [\A t \in Tabs : SignedIn(t) /\ tab[t].ref # NoSession /\ tab'[t].memory = NoSession /\ tab[t].memory # NoSession
                       /\ tab'[t].status = "authenticated"
             => ~Known(tab[t].session)]_sessionVars
  BY TokensAreTakenByTheServer
<1>2. SessionInv /\ [SessionNext]_sessionVars
        => [\A a \in asks' \ asks : a.answer = "none" /\ a.why = "idle"
             => now - lastInput >= IDLE_TIMEOUT - WRITE_THROTTLE]_sessionVars
  BY IdleSignOutsAreIdle
<1> QED
  BY <1>1, <1>2, SessionStarts, SessionKeeps, PTL
  DEF SessionSpec, SignOutsHaveACause, LateRejectionsAreHarmless, WorkIsNotInterrupted

-----------------------------------------------------------------------------
(* The role matrix: the controls of a page follow the matrix that is       *)
(* saved, and somebody can still edit it.                                  *)

Matrices == [EditedRoles -> SUBSET PERMISSIONS]
Projections == [EditedRoles -> (SUBSET PERMISSIONS) \cup {Unset}]
Rows == [row : BOOLEAN, permissions : (SUBSET PERMISSIONS) \cup {Unset}]
AccountRows == [role : EditedRoles, status : {"active", "disabled"}]
Stages == {"asked", "done", "refused"}
MatrixWrites ==
    [kind : {"update"}, role : EditedRoles, permissions : SUBSET PERMISSIONS, is : Stages]
        \cup [kind : {"reset"}, role : EditedRoles, permissions : {Unset}, is : Stages]
AccountWrites ==
    [kind : {"account"}, user : Members, field : {"role"}, to : EditedRoles, is : Stages]
        \cup [kind : {"account"}, user : Members, field : {"status"}, to : {"active", "disabled"}, is : Stages]
        \cup [kind : {"account"}, user : Members, field : {"gone"}, to : {"gone"}, is : Stages]

AccessTypes ==
    /\ served \in BOOLEAN /\ saved \in [EditedRoles -> Rows]
    /\ DOMAIN account \subseteq Members
    /\ account \in [DOMAIN account -> AccountRows]
    /\ session \in [user : Members, role : EditedRoles, issued : SUBSET PERMISSIONS] \cup {Nobody}
    /\ policy \in Projections
    /\ sync \in [is : {"none", "asked", "answered", "read", "failed"}, answer : Projections]
    /\ matrix \in [is : {"closed", "asked", "answered", "read"}, answer : Projections, rows : Projections]
    /\ dialog \in [role : EditedRoles \cup {"none"}, draft : SUBSET PERMISSIONS, touched : SUBSET Toggles]
    /\ write \in {NoWrite} \cup MatrixWrites \cup AccountWrites
    /\ unseen \subseteq AllReads

\* A write was answered, or is still to be done.
Settled == write.kind = "none" \/ write.is # "done"
Live(r, permissions) == permissions = effective(r) \/ ThroughProjection(r)

\* What a read brings is what is saved, unless a write came after it.
SyncTells ==
    /\ sync.is \in {"answered", "read"} => sync.answer \in Matrices
    /\ sync.is = "read" => policy = sync.answer
    /\ sync.is \in {"answered", "read"} /\ "sync" \notin unseen /\ Settled =>
         \A r \in EditedRoles : Live(r, sync.answer[r])
MatrixTells ==
    /\ matrix.is = "answered" => matrix.answer \in Matrices
    /\ matrix.is = "answered" /\ "matrix" \notin unseen /\ Settled =>
         \A r \in EditedRoles : Live(r, matrix.answer[r])
    /\ matrix.is = "read" /\ "matrix" \notin unseen /\ Settled =>
         \A r \in EditedRoles : Live(r, matrix.rows[r])

\* The draft is the row it was opened on, but for what was touched.
DraftOfRow ==
    dialog.role # "none" =>
        \A p \in PERMISSIONS \ dialog.touched : p \in dialog.draft <=> p \in matrix.rows[dialog.role]

NothingOfNobody == ~HasSession => policy = NoPolicy /\ sync = NoRead /\ dialog = NoDialog /\ write = NoWrite

\* The account the academy starts with stays an administrator who may
\* edit the matrix, whatever write is under way.
ChiefStays ==
    served =>
        /\ Chief \in DOMAIN account /\ account[Chief] = [role |-> "administrator", status |-> "active"]
        /\ "roles.write" \in effective("administrator")
        /\ write.kind = "update" /\ write.role = "administrator" => "roles.write" \in write.permissions

AccessInv == AccessTypes /\ SyncTells /\ MatrixTells /\ DraftOfRow /\ NothingOfNobody /\ ChiefStays

LEMMA Vocabulary ==
  /\ Unset \notin SUBSET PERMISSIONS /\ "none" \notin EditedRoles
  /\ "administrator" \in EditedRoles /\ "manager" \in EditedRoles
  /\ \A r \in EditedRoles : rolePermissions[r] \in SUBSET PERMISSIONS
  /\ "roles.write" \in rolePermissions["administrator"]
  /\ Toggles \subseteq PERMISSIONS /\ Chief \in Members
  /\ Nobody \notin [user : Members, role : EditedRoles, issued : SUBSET PERMISSIONS]
<1>1. \A S, T : S \subseteq T => /\ Domains("read", S) \subseteq Domains("read", T)
                               /\ Domains("write", S) \subseteq Domains("write", T)
  BY DEF Domains
<1>2. READ_ONLY_CORE \subseteq PERMISSIONS /\ "roles.write" \in PERMISSIONS
  BY DEF PERMISSIONS
<1>3. rolePermissions["administrator"] = PERMISSIONS
  BY DEF rolePermissions
<1>4. rolePermissions["manager"] \subseteq PERMISSIONS
  <2>1. Domains("write", {"students", "teachers", "classes", "schedule", "library", "progress", "learning",
                          "rooms", "gallery", "instruments"}) \subseteq PERMISSIONS
    BY <1>1 DEF PERMISSIONS
  <2> QED
    BY <1>2, <2>1 DEF rolePermissions, PERMISSIONS
<1>5. rolePermissions["teacher"] \subseteq PERMISSIONS
  <2>1. Domains("write", {"progress", "learning"}) \subseteq PERMISSIONS
    BY <1>1 DEF PERMISSIONS
  <2> QED
    BY <1>2, <2>1 DEF rolePermissions, PERMISSIONS
<1>6. rolePermissions["staff"] \subseteq PERMISSIONS
  <2>1. Domains("write", {"students", "schedule"}) \subseteq PERMISSIONS
    BY <1>1 DEF PERMISSIONS
  <2> QED
    BY <1>2, <2>1 DEF rolePermissions, PERMISSIONS
<1>7. rolePermissions["accountant"] \subseteq PERMISSIONS
  <2>1. Domains("read", {"students", "classes", "instruments", "rooms", "branding"}) \subseteq PERMISSIONS
    BY <1>1, <1>2 DEF READ_ONLY_CORE
  <2> QED
    BY <2>1 DEF rolePermissions, PERMISSIONS
<1>8. \A r \in ROLES : rolePermissions[r] \subseteq PERMISSIONS
  BY <1>3, <1>4, <1>5, <1>6, <1>7 DEF ROLES
<1>9. "none" \notin ROLES
  BY DEF ROLES
<1>10. [user : Members, role : EditedRoles, issued : SUBSET PERMISSIONS]
         \subseteq [user : Members, role : ROLES, issued : SUBSET PERMISSIONS]
  BY AccessAssumption
<1> QED
  BY <1>2, <1>3, <1>8, <1>9, <1>10, AccessAssumption

\* What is stored, listed and projected is a set of permissions.
LEMMA Listed ==
  ASSUME AccessTypes
  PROVE  /\ \A r \in EditedRoles : /\ effective(r) \in SUBSET PERMISSIONS
                                   /\ permissionsForRole(r) \in SUBSET PERMISSIONS
         /\ RoleList \in Matrices
         /\ \A r \in EditedRoles : Live(r, RoleList[r])
<1>1. \A r \in EditedRoles : effective(r) \in SUBSET PERMISSIONS /\ permissionsForRole(r) \in SUBSET PERMISSIONS
  BY Vocabulary DEF AccessTypes, effective, permissionsForRole, Rows, Projections
<1>2. \A r \in EditedRoles : RoleList[r] = IF served THEN effective(r) ELSE LocalRecord(r)
  BY DEF RoleList
<1>3. \A r \in EditedRoles : RoleList[r] \in SUBSET PERMISSIONS
  BY <1>1, <1>2 DEF LocalRecord
<1>4. RoleList \in Matrices
  BY <1>3 DEF RoleList, Matrices
<1> QED
  BY <1>1, <1>2, <1>4 DEF Live, ThroughProjection, LocalRecord

LEMMA Fields ==
  ASSUME AccessTypes
  PROVE  /\ sync.is \in {"none", "asked", "answered", "read", "failed"} /\ sync.answer \in Projections
         /\ matrix.is \in {"closed", "asked", "answered", "read"}
         /\ matrix.answer \in Projections /\ matrix.rows \in Projections
         /\ dialog.role \in EditedRoles \cup {"none"} /\ dialog.draft \subseteq PERMISSIONS
         /\ dialog.touched \subseteq Toggles
         /\ HasSession => session.user \in Members /\ session.role \in EditedRoles /\ session.issued \subseteq PERMISSIONS
         /\ \A u \in DOMAIN account : account[u].role \in EditedRoles /\ account[u].status \in {"active", "disabled"}
         /\ write.kind \in {"none", "update", "reset", "account"}
         /\ write.kind = "none" => write = NoWrite
         /\ write.kind \in {"update", "reset"} => write \in MatrixWrites
         /\ write.kind = "account" => write \in AccountWrites
  BY DEF AccessTypes, HasSession, AccountRows, NoWrite, MatrixWrites, AccountWrites

LEMMA BlankFields ==
  /\ NoPolicy \in Projections
  /\ NoRead.is = "none" /\ NoRead.answer = NoPolicy
  /\ Asked.is = "asked" /\ Asked.answer = NoPolicy
  /\ ClosedPanel.is = "closed" /\ ClosedPanel.rows = NoPolicy /\ ClosedPanel.answer = NoPolicy
  /\ NoDialog.role = "none" /\ NoWrite.kind = "none"
  /\ NoRead \in [is : {"none", "asked", "answered", "read", "failed"}, answer : Projections]
  /\ Asked \in [is : {"none", "asked", "answered", "read", "failed"}, answer : Projections]
  /\ ClosedPanel \in [is : {"closed", "asked", "answered", "read"}, answer : Projections, rows : Projections]
  /\ NoDialog \in [role : EditedRoles \cup {"none"}, draft : SUBSET PERMISSIONS, touched : SUBSET Toggles]
<1>1. NoPolicy \in Projections
  BY DEF NoPolicy, Projections
<1> QED
  BY <1>1 DEF NoRead, Asked, ClosedPanel, NoDialog, NoWrite

LEMMA InitAccessInv == AccessInit => AccessInv
<1> SUFFICES ASSUME AccessInit PROVE AccessInv
  OBVIOUS
<1>1. AccessTypes
  <2>1. saved \in [EditedRoles -> Rows]
    BY DEF AccessInit, NoRow, Rows
  <2>2. DOMAIN account \subseteq Members /\ account \in [DOMAIN account -> AccountRows]
    BY Vocabulary DEF AccessInit, AccountRows
  <2> QED
    BY <2>1, <2>2, BlankFields DEF AccessInit, AccessTypes
<1>2. ChiefStays
  <2>1. effective("administrator") = rolePermissions["administrator"]
    BY Vocabulary DEF AccessInit, effective, NoRow
  <2>2. Chief \in DOMAIN account /\ account[Chief] = [role |-> "administrator", status |-> "active"]
    BY Vocabulary DEF AccessInit
  <2> QED
    BY <2>1, <2>2, Vocabulary, BlankFields DEF AccessInit, ChiefStays
<1>3. SyncTells /\ MatrixTells /\ DraftOfRow /\ NothingOfNobody
  BY BlankFields DEF AccessInit, SyncTells, MatrixTells, DraftOfRow, NothingOfNobody
<1> QED
  BY <1>1, <1>2, <1>3 DEF AccessInv

\* Steps that leave the stored matrix and the accounts alone.
LEMMA Rests ==
  ASSUME ChiefStays, UNCHANGED <<served, saved, account>>,
         write' = write \/ write' = NoWrite \/ write' \in AccountWrites \/ write'.kind = "reset"
           \/ (write'.kind = "update" /\ (write'.role = "administrator" => "roles.write" \in write'.permissions))
  PROVE  ChiefStays'
<1>1. effective("administrator")' = effective("administrator")
  BY DEF effective
<1>2. write' \in AccountWrites => write'.kind = "account"
  BY DEF AccountWrites
<1> QED
  BY <1>1, <1>2, BlankFields DEF ChiefStays

LEMMA SameLive ==
  ASSUME UNCHANGED <<served, saved>>
  PROVE  \A r, x : Live(r, x)' <=> Live(r, x)
  BY DEF Live, ThroughProjection, effective

\* The page changes hands: nothing of the session before stays.
LEMMA ChangedHands ==
  ASSUME AccessInv, UNCHANGED <<served, saved, account, unseen>>, LeavePage, policy' = NoPolicy,
         session' \in [user : Members, role : EditedRoles, issued : SUBSET PERMISSIONS] \cup {Nobody},
         sync' = NoRead \/ (sync' = Asked /\ session' # Nobody)
  PROVE  AccessInv'
<1>1. AccessTypes'
  BY BlankFields DEF AccessInv, AccessTypes, LeavePage
<1>2. ChiefStays'
  BY Rests DEF AccessInv, LeavePage
<1>3. SyncTells' /\ MatrixTells' /\ DraftOfRow' /\ NothingOfNobody'
  BY BlankFields DEF SyncTells, MatrixTells, DraftOfRow, NothingOfNobody, LeavePage, HasSession
<1> QED
  BY <1>1, <1>2, <1>3 DEF AccessInv

LEMMA LoginKeeps == ASSUME AccessInv, NEW u \in Members, login(u) PROVE AccessInv'
<1>1. u \in DOMAIN account /\ account[u].role \in EditedRoles
  BY Fields DEF login, Works, AccessInv
<1>2. IssuedTo(u) \in SUBSET PERMISSIONS
  BY <1>1, Listed DEF IssuedTo, AccessInv
<1>3. session' \in [user : Members, role : EditedRoles, issued : SUBSET PERMISSIONS]
  BY <1>1, <1>2 DEF login, BeginSession
<1>4. session' # Nobody
  BY <1>3, Vocabulary
<1> QED
  BY <1>3, <1>4, ChangedHands DEF login, BeginSession

LEMMA LogoutKeeps == ASSUME AccessInv, logout PROVE AccessInv'
  BY ChangedHands DEF logout, DropSession

LEMMA RestoreKeeps == ASSUME AccessInv, restore PROVE AccessInv'
<1>1. CASE Works(session.user)
  <2> DEFINE u == session.user
  <2>1. u \in Members /\ u \in DOMAIN account /\ account[u].role \in EditedRoles
    BY <1>1, Fields DEF restore, Works, AccessInv
  <2>2. Restored(u).issued \in SUBSET PERMISSIONS
    BY <2>1, Listed, Vocabulary DEF Restored, AccessInv
  <2>3. session' \in [user : Members, role : EditedRoles, issued : SUBSET PERMISSIONS]
    BY <1>1, <2>1, <2>2 DEF restore, Restored
  <2>4. session' # Nobody
    BY <2>3, Vocabulary
  <2> QED
    BY <1>1, <2>3, <2>4, ChangedHands DEF restore
<1>2. CASE ~Works(session.user)
  BY <1>2, ChangedHands DEF restore
<1> QED
  BY <1>1, <1>2

LEMMA ServeSyncKeeps == ASSUME AccessInv, ServeSync PROVE AccessInv'
<1>1. CASE served /\ ~Works(session.user)
  BY <1>1, ChangedHands DEF ServeSync, DropSession
<1>2. CASE ~(served /\ ~Works(session.user))
  <2>1. /\ sync' = [is |-> "answered", answer |-> RoleList] /\ unseen' = unseen \ {"sync"}
        /\ UNCHANGED <<session, policy, matrix, dialog, write, served, saved, account>> /\ sync.is = "asked"
    BY <1>2 DEF ServeSync
  <2>2. RoleList \in Matrices /\ Matrices \subseteq Projections
    BY Listed DEF AccessInv, Matrices, Projections
  <2>3. AccessTypes'
    BY <2>1, <2>2 DEF AccessInv, AccessTypes
  <2>4. SyncTells'
    BY <2>1, <2>2, Listed, SameLive DEF AccessInv, SyncTells
  <2>5. MatrixTells'
    BY <2>1, SameLive DEF AccessInv, MatrixTells, Settled
  <2>6. HasSession
    BY <2>1, BlankFields DEF AccessInv, NothingOfNobody
  <2>7. ChiefStays'
    BY <2>1, Rests DEF AccessInv
  <2> QED
    BY <2>1, <2>3, <2>4, <2>5, <2>6, <2>7 DEF AccessInv, DraftOfRow, NothingOfNobody, HasSession
<1> QED
  BY <1>1, <1>2

LEMMA SetRolePoliciesKeeps == ASSUME AccessInv, setRolePolicies PROVE AccessInv'
<1>1. /\ policy' = sync.answer /\ sync' = [sync EXCEPT !.is = "read"] /\ sync.is = "answered"
      /\ UNCHANGED <<served, saved, account, session, matrix, dialog, write, unseen>>
  BY DEF setRolePolicies
<1>2. sync'.is = "read" /\ sync'.answer = sync.answer
  BY <1>1 DEF AccessInv, AccessTypes
<1>3. AccessTypes'
  BY <1>1 DEF AccessInv, AccessTypes
<1>4. SyncTells'
  BY <1>1, <1>2, SameLive DEF AccessInv, SyncTells, Settled
<1>5. MatrixTells'
  BY <1>1, SameLive DEF AccessInv, MatrixTells, Settled
<1>6. HasSession
  BY <1>1, BlankFields DEF AccessInv, NothingOfNobody
<1>7. ChiefStays'
  BY <1>1, Rests DEF AccessInv
<1> QED
  BY <1>1, <1>3, <1>4, <1>5, <1>6, <1>7 DEF AccessInv, DraftOfRow, NothingOfNobody, HasSession

LEMMA SyncFailsKeeps == ASSUME AccessInv, SyncFails PROVE AccessInv'
<1>1. /\ sync' = [sync EXCEPT !.is = "failed"] /\ sync.is \in {"asked", "answered"}
      /\ UNCHANGED <<served, saved, account, session, policy, matrix, dialog, write, unseen>>
  BY DEF SyncFails
<1>2. AccessTypes' /\ sync'.is = "failed"
  BY <1>1 DEF AccessInv, AccessTypes
<1>3. SyncTells'
  BY <1>2 DEF SyncTells
<1>4. MatrixTells'
  BY <1>1, SameLive DEF AccessInv, MatrixTells, Settled
<1>5. HasSession
  BY <1>1, BlankFields DEF AccessInv, NothingOfNobody
<1>6. ChiefStays'
  BY <1>1, Rests DEF AccessInv
<1> QED
  BY <1>1, <1>2, <1>3, <1>4, <1>5, <1>6 DEF AccessInv, DraftOfRow, NothingOfNobody, HasSession

-----------------------------------------------------------------------------

LEMMA OpenPanelKeeps == ASSUME AccessInv, OpenPanel PROVE AccessInv'
<1>1. /\ matrix' = [matrix EXCEPT !.is = "asked"] /\ HasSession
      /\ UNCHANGED <<served, saved, account, session, policy, sync, dialog, write, unseen>>
  BY DEF OpenPanel, Can
<1>2. AccessTypes' /\ matrix'.is = "asked" /\ matrix'.rows = matrix.rows
  BY <1>1 DEF AccessInv, AccessTypes
<1>3. SyncTells'
  BY <1>1, SameLive DEF AccessInv, SyncTells, Settled
<1>4. MatrixTells' /\ DraftOfRow'
  BY <1>1, <1>2 DEF AccessInv, MatrixTells, DraftOfRow
<1>5. ChiefStays'
  BY <1>1, Rests DEF AccessInv
<1> QED
  BY <1>1, <1>2, <1>3, <1>4, <1>5 DEF AccessInv, NothingOfNobody, HasSession

LEMMA ServeMatrixKeeps == ASSUME AccessInv, ServeMatrix PROVE AccessInv'
<1>1. /\ matrix' = [matrix EXCEPT !.is = "answered", !.answer = RoleList] /\ unseen' = unseen \ {"matrix"}
      /\ UNCHANGED <<served, saved, account, session, policy, sync, dialog, write>>
  BY DEF ServeMatrix
<1>2. RoleList \in Matrices /\ Matrices \subseteq Projections
  BY Listed DEF AccessInv, Matrices, Projections
<1>3. AccessTypes' /\ matrix'.is = "answered" /\ matrix'.answer = RoleList /\ matrix'.rows = matrix.rows
  BY <1>1, <1>2 DEF AccessInv, AccessTypes
<1>4. SyncTells'
  BY <1>1, SameLive DEF AccessInv, SyncTells, Settled
<1>5. MatrixTells' /\ DraftOfRow'
  BY <1>1, <1>2, <1>3, Listed, SameLive DEF AccessInv, MatrixTells, DraftOfRow
<1>6. ChiefStays'
  BY <1>1, Rests DEF AccessInv
<1> QED
  BY <1>1, <1>3, <1>4, <1>5, <1>6 DEF AccessInv, NothingOfNobody, HasSession

\* New rows put the draft back to them.
LEMMA GotMatrixKeeps == ASSUME AccessInv, GotMatrix PROVE AccessInv'
<1>1. /\ matrix' = [matrix EXCEPT !.is = "read", !.rows = matrix.answer] /\ dialog' = Redrafted(matrix.answer)
      /\ matrix.is = "answered"
      /\ UNCHANGED <<served, saved, account, session, policy, sync, write, unseen>>
  BY DEF GotMatrix
<1>2. matrix.answer \in Matrices
  BY <1>1 DEF AccessInv, MatrixTells
<1>3. matrix' \in [is : {"closed", "asked", "answered", "read"}, answer : Projections, rows : Projections]
      /\ matrix'.is = "read" /\ matrix'.rows = matrix.answer
  BY <1>1, Fields DEF AccessInv, AccessTypes
<1>4. /\ dialog' \in [role : EditedRoles \cup {"none"}, draft : SUBSET PERMISSIONS, touched : SUBSET Toggles]
      /\ DraftOfRow'
  <2>1. CASE dialog.role = "none"
    <3>1. dialog' = NoDialog
      BY <1>1, <2>1 DEF Redrafted
    <3> QED
      BY <3>1, BlankFields DEF DraftOfRow
  <2>2. CASE dialog.role # "none"
    <3>1. dialog.role \in EditedRoles
      BY <2>2, Fields DEF AccessInv
    <3>2. dialog' = [dialog EXCEPT !.draft = matrix.answer[dialog.role], !.touched = {}]
      BY <1>1, <2>2 DEF Redrafted
    <3>3. /\ dialog' \in [role : EditedRoles \cup {"none"}, draft : SUBSET PERMISSIONS, touched : SUBSET Toggles]
          /\ dialog'.role = dialog.role /\ dialog'.draft = matrix.answer[dialog.role]
      BY <1>2, <3>1, <3>2 DEF AccessInv, AccessTypes, Matrices
    <3> QED
      BY <1>3, <3>3 DEF DraftOfRow
  <2> QED
    BY <2>1, <2>2
<1>5. AccessTypes'
  BY <1>1, <1>3, <1>4 DEF AccessInv, AccessTypes
<1>6. SyncTells'
  BY <1>1, SameLive DEF AccessInv, SyncTells, Settled
<1>7. MatrixTells'
  BY <1>1, <1>3, SameLive DEF AccessInv, MatrixTells, Settled
<1>8. ChiefStays'
  BY <1>1, Rests DEF AccessInv
<1>9. NothingOfNobody'
  BY <1>1, BlankFields DEF AccessInv, NothingOfNobody, HasSession, Redrafted
<1> QED
  BY <1>4, <1>5, <1>6, <1>7, <1>8, <1>9 DEF AccessInv

\* The dialog alone changes, and stays the row it was opened on but for
\* what was touched.
LEMMA DialogKeeps ==
  ASSUME AccessInv, UNCHANGED <<served, saved, account, session, policy, sync, matrix, write, unseen>>, HasSession,
         dialog' \in [role : EditedRoles \cup {"none"}, draft : SUBSET PERMISSIONS, touched : SUBSET Toggles],
         DraftOfRow'
  PROVE  AccessInv'
<1>1. AccessTypes'
  BY DEF AccessInv, AccessTypes
<1>2. SyncTells' /\ MatrixTells'
  BY SameLive DEF AccessInv, SyncTells, MatrixTells, Settled
<1>3. ChiefStays'
  BY Rests DEF AccessInv
<1> QED
  BY <1>1, <1>2, <1>3 DEF AccessInv, NothingOfNobody, HasSession

LEMMA OpenMatrixKeeps == ASSUME AccessInv, NEW r \in EditedRoles, openMatrix(r) PROVE AccessInv'
<1>1. dialog' = [role |-> r, draft |-> matrix.rows[r], touched |-> {}] /\ matrix.rows[r] # Unset /\ HasSession
      /\ UNCHANGED <<served, saved, account, session, policy, sync, matrix, write, unseen>>
  BY DEF openMatrix, Can
<1>2. matrix.rows[r] \in SUBSET PERMISSIONS
  BY <1>1, Fields DEF AccessInv, Projections
<1>3. /\ dialog' \in [role : EditedRoles \cup {"none"}, draft : SUBSET PERMISSIONS, touched : SUBSET Toggles]
      /\ DraftOfRow'
  BY <1>1, <1>2 DEF DraftOfRow
<1> QED
  BY <1>1, <1>3, DialogKeeps

LEMMA ToggleKeeps == ASSUME AccessInv, NEW p \in Toggles, toggle(p) PROVE AccessInv'
<1>1. /\ dialog' = [dialog EXCEPT !.draft = IF p \in @ THEN @ \ {p} ELSE @ \union {p}, !.touched = @ \union {p}]
      /\ dialog.role # "none"
      /\ UNCHANGED <<served, saved, account, session, policy, sync, matrix, write, unseen>>
  BY DEF toggle
<1>2. HasSession
  BY <1>1, BlankFields DEF AccessInv, NothingOfNobody
<1>3. /\ dialog'.role = dialog.role /\ dialog'.touched = dialog.touched \cup {p}
      /\ \A q \in PERMISSIONS \ {p} : q \in dialog'.draft <=> q \in dialog.draft
      /\ dialog' \in [role : EditedRoles \cup {"none"}, draft : SUBSET PERMISSIONS, touched : SUBSET Toggles]
  BY <1>1, Vocabulary DEF AccessInv, AccessTypes
<1>4. DraftOfRow'
  BY <1>1, <1>3 DEF AccessInv, DraftOfRow
<1> QED
  BY <1>1, <1>2, <1>3, <1>4, DialogKeeps

LEMMA CloseMatrixKeeps == ASSUME AccessInv, closeMatrix PROVE AccessInv'
<1>1. dialog' = NoDialog /\ dialog.role # "none"
      /\ UNCHANGED <<served, saved, account, session, policy, sync, matrix, write, unseen>>
  BY DEF closeMatrix
<1>2. HasSession
  BY <1>1, BlankFields DEF AccessInv, NothingOfNobody
<1> QED
  BY <1>1, <1>2, BlankFields, DialogKeeps DEF DraftOfRow

-----------------------------------------------------------------------------
\* A write that is asked for: of the dialog, or of an account there is.
Asking(w) ==
    /\ w \in MatrixWrites \cup AccountWrites /\ w.is = "asked"
    /\ w.kind = "account" => w.user \in DOMAIN account
    /\ w.kind = "update" /\ w.role = "administrator" => "roles.write" \in w.permissions

LEMMA WriteFields ==
  ASSUME NEW w \in MatrixWrites \cup AccountWrites
  PROVE  /\ w.kind \in {"update", "reset", "account"} /\ w.is \in Stages
         /\ w.kind = "account" <=> w \in AccountWrites
         /\ w.kind # "account" => w.role \in EditedRoles
         /\ w.kind = "update" => w.permissions \in SUBSET PERMISSIONS
         /\ w.kind = "account" => /\ w.user \in Members
                                  /\ \/ w.field = "role" /\ w.to \in EditedRoles
                                     \/ w.field = "status" /\ w.to \in {"active", "disabled"}
                                     \/ w.field = "gone"
  BY DEF MatrixWrites, AccountWrites

LEMMA StoredShape ==
  ASSUME AccessTypes, NEW r \in EditedRoles, NEW permissions \in SUBSET PERMISSIONS
  PROVE  /\ Stored(r, permissions) \in Rows
         /\ served => Stored(r, permissions).permissions = permissions
         /\ AfterReset(r) \in Rows /\ AfterReset(r).permissions = Unset
  BY DEF Stored, AfterReset, NoRow, Rows, AccessTypes

\* A write leaves rows and accounts, and touches the one it names.
LEMMA WrittenShape ==
  ASSUME AccessTypes, NEW w \in MatrixWrites \cup AccountWrites, w.kind = "account" => w.user \in DOMAIN account, Written(w)
  PROVE  /\ saved' \in [EditedRoles -> Rows]
         /\ DOMAIN account' \subseteq Members /\ account' \in [DOMAIN account' -> AccountRows]
         /\ \A u \in DOMAIN account : ~(w.kind = "account" /\ w.user = u) => u \in DOMAIN account' /\ account'[u] = account[u]
         /\ w.kind = "account" => saved' = saved
         /\ w.kind # "account" => /\ w.role \in EditedRoles
                                  /\ \A r \in EditedRoles \ {w.role} : saved'[r] = saved[r]
                                  /\ saved'[w.role] = IF w.kind = "reset" THEN AfterReset(w.role)
                                                      ELSE Stored(w.role, w.permissions)
<1>1. CASE w.kind = "account"
  <2>1. saved' = saved /\ account' = AccountsAfter(w) /\ w.user \in DOMAIN account
    BY <1>1 DEF Written
  <2>2. CASE w.field = "gone"
    <3>1. account' = [v \in DOMAIN account \ {w.user} |-> account[v]]
      BY <2>1, <2>2 DEF AccountsAfter
    <3>2. /\ DOMAIN account' \subseteq Members /\ account' \in [DOMAIN account' -> AccountRows]
          /\ \A u \in DOMAIN account : w.user # u => u \in DOMAIN account' /\ account'[u] = account[u]
      BY <3>1 DEF AccessTypes
    <3> QED
      BY <1>1, <2>1, <3>2 DEF AccessTypes
  <2>3. CASE w.field # "gone"
    <3>1. account' = [account EXCEPT ![w.user][w.field] = w.to]
      BY <2>1, <2>3 DEF AccountsAfter
    <3>2. account' = [account EXCEPT ![w.user] = [account[w.user] EXCEPT ![w.field] = w.to]]
      BY <2>1, <3>1, Zenon
    <3>3. account[w.user] \in AccountRows
      BY <2>1 DEF AccessTypes
    <3>4. [account[w.user] EXCEPT ![w.field] = w.to] \in AccountRows
      <4>1. CASE w.field = "role" /\ w.to \in EditedRoles
        BY <3>3, <4>1 DEF AccountRows
      <4>2. CASE w.field = "status" /\ w.to \in {"active", "disabled"}
        BY <3>3, <4>2 DEF AccountRows
      <4> QED
        BY <1>1, <2>3, <4>1, <4>2, WriteFields
    <3>5. /\ DOMAIN account' \subseteq Members /\ account' \in [DOMAIN account' -> AccountRows]
          /\ \A u \in DOMAIN account : w.user # u => u \in DOMAIN account' /\ account'[u] = account[u]
      BY <2>1, <3>2, <3>4 DEF AccessTypes
    <3> QED
      BY <1>1, <2>1, <3>5 DEF AccessTypes
  <2> QED
    BY <2>2, <2>3
<1>2. CASE w.kind # "account"
  <2>1. saved' = AfterWrite(w) /\ account' = account /\ w.role \in EditedRoles
    BY <1>2, WriteFields DEF Written
  <2>2. (IF w.kind = "reset" THEN AfterReset(w.role) ELSE Stored(w.role, w.permissions)) \in Rows
    BY <1>2, <2>1, WriteFields, StoredShape
  <2> QED
    BY <1>2, <2>1, <2>2 DEF AfterWrite, AccessTypes
<1> QED
  BY <1>1, <1>2

LEMMA ShownAfterShape ==
  ASSUME AccessTypes, NEW w \in MatrixWrites \cup AccountWrites
  PROVE  /\ ShownAfter(w) \in Projections
         /\ w.kind = "account" => ShownAfter(w) = matrix.rows
<1>1. matrix.rows \in Projections
  BY Fields
<1>2. CASE w.kind = "account"
  BY <1>1, <1>2 DEF ShownAfter
<1>3. CASE w.kind = "update"
  <2>1. w.role \in EditedRoles /\ w.permissions \in SUBSET PERMISSIONS
    BY <1>3, WriteFields
  <2> QED
    BY <1>1, <1>3, <2>1 DEF ShownAfter, Projections
<1>4. CASE w.kind = "reset"
  <2>1. w.role \in EditedRoles /\ rolePermissions[w.role] \in SUBSET PERMISSIONS
    BY <1>4, WriteFields, Vocabulary
  <2> QED
    BY <1>1, <1>4, <2>1 DEF ShownAfter, Projections
<1> QED
  BY <1>2, <1>3, <1>4, WriteFields

\* Both reads start over.
LEMMA RereadShape ==
  ASSUME AccessTypes, NEW rows \in Projections, Reread(rows)
  PROVE  /\ sync' \in [is : {"none", "asked", "answered", "read", "failed"}, answer : Projections] /\ sync'.is = "asked"
         /\ matrix' \in [is : {"closed", "asked", "answered", "read"}, answer : Projections, rows : Projections]
         /\ matrix'.is \in {"closed", "asked"} /\ matrix'.rows = rows
<1>1. sync' = Asked /\ matrix' = [matrix EXCEPT !.is = IF @ = "closed" THEN @ ELSE "asked", !.rows = rows]
  BY DEF Reread
<1>2. /\ matrix' \in [is : {"closed", "asked", "answered", "read"}, answer : Projections, rows : Projections]
      /\ matrix'.is \in {"closed", "asked"} /\ matrix'.rows = rows
  BY <1>1 DEF AccessTypes
<1> QED
  BY <1>1, <1>2, BlankFields

LEMMA AskAccessKeeps == ASSUME AccessInv, HasSession, NEW w, Asking(w), AskAccess(w) PROVE AccessInv'
<1>1. write.kind = "none" /\ UNCHANGED <<served, session, policy, unseen>> /\ w \in MatrixWrites \cup AccountWrites
  BY DEF AskAccess, Asking
<1>2. CASE served
  <2>1. write' = w /\ UNCHANGED <<saved, account, sync, matrix, dialog>>
    BY <1>2 DEF AskAccess
  <2>2. AccessTypes'
    BY <1>1, <2>1 DEF AccessInv, AccessTypes
  <2>3. SyncTells' /\ MatrixTells'
    BY <1>1, <2>1, SameLive DEF AccessInv, SyncTells, MatrixTells, Settled
  <2>4. ChiefStays'
    <3>1. w \in AccountWrites \/ w.kind = "reset" \/ w.kind = "update"
      BY <1>1, WriteFields
    <3> QED
      BY <1>1, <2>1, <3>1, Rests DEF AccessInv, Asking
  <2> QED
    BY <1>1, <2>1, <2>2, <2>3, <2>4 DEF AccessInv, DraftOfRow, NothingOfNobody, HasSession
<1>3. CASE ~served
  <2>1. /\ Written(w) /\ Reread(ShownAfter(w)) /\ UNCHANGED write
        /\ dialog' = IF w.kind = "account" THEN dialog ELSE NoDialog
    BY <1>3 DEF AskAccess
  <2>2. /\ ShownAfter(w) \in Projections
        /\ w.kind = "account" => ShownAfter(w) = matrix.rows
    BY <1>1, ShownAfterShape DEF AccessInv
  <2>3. /\ sync' \in [is : {"none", "asked", "answered", "read", "failed"}, answer : Projections] /\ sync'.is = "asked"
        /\ matrix' \in [is : {"closed", "asked", "answered", "read"}, answer : Projections, rows : Projections]
        /\ matrix'.is \in {"closed", "asked"} /\ matrix'.rows = ShownAfter(w)
    BY <2>1, <2>2, RereadShape DEF AccessInv
  <2>4. /\ saved' \in [EditedRoles -> Rows]
        /\ DOMAIN account' \subseteq Members /\ account' \in [DOMAIN account' -> AccountRows]
    BY <1>1, <2>1, WrittenShape DEF AccessInv, Asking
  <2>5. AccessTypes'
    BY <1>1, <2>1, <2>3, <2>4, BlankFields DEF AccessInv, AccessTypes
  <2>6. SyncTells' /\ MatrixTells'
    BY <2>3 DEF SyncTells, MatrixTells
  <2>7. DraftOfRow'
    BY <2>1, <2>2, <2>3, BlankFields DEF AccessInv, DraftOfRow
  <2>8. ChiefStays' /\ NothingOfNobody'
    BY <1>1, <1>3 DEF ChiefStays, NothingOfNobody, HasSession
  <2> QED
    BY <2>5, <2>6, <2>7, <2>8 DEF AccessInv
<1> QED
  BY <1>2, <1>3

LEMMA SaveKeeps == ASSUME AccessInv, save PROVE AccessInv'
<1> DEFINE w == Write("update", dialog.role, dialog.draft)
<1>1. /\ dialog.role # "none" /\ AskAccess(w) /\ validate(dialog.role, dialog.draft) /\ HasSession
      /\ dialog.role \in EditedRoles /\ dialog.draft \in SUBSET PERMISSIONS
  BY Fields, BlankFields DEF save, AccessInv, NothingOfNobody
<1>2. w \in MatrixWrites /\ w.is = "asked" /\ w.kind = "update" /\ w.role = dialog.role /\ w.permissions = dialog.draft
  BY <1>1 DEF Write, MatrixWrites, Stages
<1>3. Asking(w)
  BY <1>1, <1>2 DEF Asking, validate
<1> QED
  BY <1>1, <1>3, AskAccessKeeps

LEMMA ResetKeeps == ASSUME AccessInv, resetToDefaults PROVE AccessInv'
<1> DEFINE w == Write("reset", dialog.role, Unset)
<1>1. dialog.role # "none" /\ AskAccess(w) /\ HasSession /\ dialog.role \in EditedRoles
  BY Fields, BlankFields DEF resetToDefaults, AccessInv, NothingOfNobody
<1>2. w \in MatrixWrites /\ w.is = "asked" /\ w.kind = "reset"
  BY <1>1 DEF Write, MatrixWrites, Stages
<1>3. Asking(w)
  BY <1>2 DEF Asking
<1> QED
  BY <1>1, <1>3, AskAccessKeeps

LEMMA AccountsKeep ==
  ASSUME AccessInv, NEW u \in Members,
         confirmDelete(u) \/ (\E r \in EditedRoles : changeRole(u, r)) \/ \E f \in BOOLEAN : toggleStatus(u, f)
  PROVE  AccessInv'
<1> DEFINE Fits(w) == w \in AccountWrites /\ w.is = "asked" /\ w.kind = "account" /\ w.user = u
<1>1. /\ Fits(AccountWrite(u, "gone", "gone"))
      /\ \A r \in EditedRoles : Fits(AccountWrite(u, "role", r))
      /\ \A s \in {"active", "disabled"} : Fits(AccountWrite(u, "status", s))
  BY DEF AccountWrite, AccountWrites, Stages
<1> HIDE DEF Fits
<1>2. \E w : Fits(w) /\ MayWriteUsers(u) /\ AskAccess(w)
  <2>1. CASE confirmDelete(u)
    BY <1>1, <2>1 DEF confirmDelete
  <2>2. CASE \E r \in EditedRoles : changeRole(u, r)
    BY <1>1, <2>2 DEF changeRole
  <2>3. CASE \E f \in BOOLEAN : toggleStatus(u, f)
    BY <1>1, <2>3 DEF toggleStatus
  <2> QED
    BY <2>1, <2>2, <2>3
<1>3. PICK w : Fits(w) /\ MayWriteUsers(u) /\ AskAccess(w)
  BY <1>2
<1>4. u \in DOMAIN account /\ HasSession
  BY <1>3 DEF MayWriteUsers, Can
<1>5. Asking(w)
  BY <1>3, <1>4 DEF Asking, Fits
<1> QED
  BY <1>3, <1>4, <1>5, AskAccessKeeps

\* The server accepts no write of the chief's account, and no matrix of
\* administrators without the right to edit it.
LEMMA ServeWriteKeeps == ASSUME AccessInv, ServeWrite PROVE AccessInv'
<1>1. /\ write \in MatrixWrites \cup AccountWrites /\ write.is = "asked" /\ write.kind # "none"
      /\ UNCHANGED <<served, session, policy, sync, matrix, dialog, unseen>>
  BY Fields DEF AccessInv, ServeWrite
<1>2. HasSession
  BY <1>1, BlankFields DEF AccessInv, NothingOfNobody
<1>3. CASE Accepted(write)
  <2>1. Written(write) /\ write' = [write EXCEPT !.is = "done"]
    BY <1>3 DEF ServeWrite
  <2>2. write.kind = "account" => /\ write.user \in DOMAIN account
                                  /\ account[write.user].role # "administrator"
    BY <1>3 DEF Accepted, Privileged
  <2>3. /\ write' \in MatrixWrites \cup AccountWrites /\ write'.is = "done" /\ write'.kind = write.kind
        /\ write.kind = "update" => write'.role = write.role /\ write'.permissions = write.permissions
    BY <1>1, <2>1 DEF MatrixWrites, AccountWrites, Stages
  <2>4. /\ saved' \in [EditedRoles -> Rows]
        /\ DOMAIN account' \subseteq Members /\ account' \in [DOMAIN account' -> AccountRows]
        /\ \A u \in DOMAIN account : ~(write.kind = "account" /\ write.user = u) => u \in DOMAIN account' /\ account'[u] = account[u]
        /\ write.kind = "account" => saved' = saved
        /\ write.kind # "account" => /\ write.role \in EditedRoles
                                     /\ \A r \in EditedRoles \ {write.role} : saved'[r] = saved[r]
                                     /\ saved'[write.role] = IF write.kind = "reset" THEN AfterReset(write.role)
                                                             ELSE Stored(write.role, write.permissions)
    BY <1>1, <2>1, <2>2, WrittenShape DEF AccessInv
  <2>5. AccessTypes'
    BY <1>1, <2>3, <2>4 DEF AccessInv, AccessTypes
  <2>6. ~Settled'
    BY <1>1, <2>3 DEF Settled
  <2>7. SyncTells' /\ MatrixTells'
    BY <1>1, <2>6 DEF AccessInv, SyncTells, MatrixTells
  <2>8. ChiefStays'
    <3>1. SUFFICES ASSUME served PROVE ChiefStays'
      BY <1>1 DEF ChiefStays
    <3>2. Chief \in DOMAIN account' /\ account'[Chief] = [role |-> "administrator", status |-> "active"]
      BY <2>2, <2>4, <3>1 DEF AccessInv, ChiefStays
    <3>3. "roles.write" \in effective("administrator")'
      <4>1. CASE saved'["administrator"] = saved["administrator"]
        BY <3>1, <4>1 DEF AccessInv, ChiefStays, effective
      <4>2. CASE write.kind = "reset" /\ write.role = "administrator"
        <5>1. saved'["administrator"].permissions = Unset
          BY <2>4, <4>2, StoredShape, Vocabulary DEF AccessInv, AfterReset, NoRow
        <5> QED
          BY <5>1, Vocabulary DEF effective
      <4>3. CASE write.kind = "update" /\ write.role = "administrator"
        <5>1. "roles.write" \in write.permissions /\ write.permissions \in SUBSET PERMISSIONS
          BY <1>1, <3>1, <4>3, WriteFields DEF AccessInv, ChiefStays
        <5>2. saved'["administrator"].permissions = write.permissions
          BY <2>4, <3>1, <4>3, <5>1, StoredShape, Vocabulary DEF AccessInv
        <5> QED
          BY <5>1, <5>2, Vocabulary DEF effective
      <4> QED
        BY <1>1, <2>4, <4>1, <4>2, <4>3, Vocabulary, WriteFields
    <3>4. write'.kind = "update" /\ write'.role = "administrator" => "roles.write" \in write'.permissions
      BY <2>3, <3>1 DEF AccessInv, ChiefStays
    <3> QED
      BY <3>2, <3>3, <3>4 DEF ChiefStays
  <2> QED
    BY <1>1, <1>2, <2>5, <2>7, <2>8 DEF AccessInv, DraftOfRow, NothingOfNobody, HasSession
<1>4. CASE ~Accepted(write)
  <2>1. write' = [write EXCEPT !.is = "refused"] /\ UNCHANGED <<saved, account>>
    BY <1>4 DEF ServeWrite
  <2>2. /\ write' \in MatrixWrites \cup AccountWrites /\ write'.kind = write.kind /\ write'.is = "refused"
        /\ write.kind = "update" => write'.role = write.role /\ write'.permissions = write.permissions
    BY <1>1, <2>1 DEF MatrixWrites, AccountWrites, Stages
  <2>3. AccessTypes'
    BY <1>1, <2>1, <2>2 DEF AccessInv, AccessTypes
  <2>4. SyncTells' /\ MatrixTells'
    BY <1>1, <2>1, <2>2, SameLive DEF AccessInv, SyncTells, MatrixTells, Settled
  <2>5. ChiefStays'
    BY <1>1, <2>1, <2>2 DEF AccessInv, ChiefStays, effective
  <2> QED
    BY <1>1, <1>2, <2>1, <2>3, <2>4, <2>5 DEF AccessInv, DraftOfRow, NothingOfNobody, HasSession
<1> QED
  BY <1>3, <1>4

LEMMA AnsweredKeeps == ASSUME AccessInv, Answered PROVE AccessInv'
<1>1. /\ write \in MatrixWrites \cup AccountWrites /\ write.kind # "none" /\ write' = NoWrite
      /\ UNCHANGED <<served, saved, account, session, policy, unseen>>
  BY Fields DEF AccessInv, Answered
<1>2. HasSession
  BY <1>1, BlankFields DEF AccessInv, NothingOfNobody
<1>3. ChiefStays'
  BY <1>1, Rests DEF AccessInv
<1>4. CASE write.is = "refused"
  <2>1. UNCHANGED <<sync, matrix, dialog>>
    BY <1>4 DEF Answered
  <2>2. AccessTypes'
    BY <1>1, <2>1 DEF AccessInv, AccessTypes
  <2>3. SyncTells' /\ MatrixTells'
    BY <1>1, <1>4, <2>1, SameLive DEF AccessInv, SyncTells, MatrixTells, Settled
  <2> QED
    BY <1>1, <1>2, <1>3, <2>1, <2>2, <2>3 DEF AccessInv, DraftOfRow, NothingOfNobody, HasSession
<1>5. CASE write.is # "refused"
  <2>1. Reread(ShownAfter(write)) /\ dialog' = IF write.kind = "account" THEN dialog ELSE NoDialog
    BY <1>5 DEF Answered
  <2>2. /\ ShownAfter(write) \in Projections
        /\ write.kind = "account" => ShownAfter(write) = matrix.rows
    BY <1>1, ShownAfterShape DEF AccessInv
  <2>3. /\ sync' \in [is : {"none", "asked", "answered", "read", "failed"}, answer : Projections] /\ sync'.is = "asked"
        /\ matrix' \in [is : {"closed", "asked", "answered", "read"}, answer : Projections, rows : Projections]
        /\ matrix'.is \in {"closed", "asked"} /\ matrix'.rows = ShownAfter(write)
    BY <2>1, <2>2, RereadShape DEF AccessInv
  <2>4. AccessTypes'
    BY <1>1, <2>1, <2>3, BlankFields DEF AccessInv, AccessTypes
  <2>5. SyncTells' /\ MatrixTells'
    BY <2>3 DEF SyncTells, MatrixTells
  <2>6. DraftOfRow'
    BY <2>1, <2>2, <2>3, BlankFields DEF AccessInv, DraftOfRow
  <2> QED
    BY <1>1, <1>2, <1>3, <2>4, <2>5, <2>6 DEF AccessInv, NothingOfNobody, HasSession
<1> QED
  BY <1>4, <1>5

LEMMA AnswerLostKeeps == ASSUME AccessInv, AnswerLost PROVE AccessInv'
<1>1. /\ write.kind # "none" /\ write' = NoWrite /\ unseen' = AllReads
      /\ UNCHANGED <<served, saved, account, session, policy, sync, matrix, dialog>>
  BY DEF AnswerLost
<1>2. HasSession
  BY <1>1, BlankFields DEF AccessInv, NothingOfNobody
<1>3. AccessTypes'
  BY <1>1 DEF AccessInv, AccessTypes
<1>4. SyncTells' /\ MatrixTells'
  BY <1>1 DEF AccessInv, SyncTells, MatrixTells, AllReads
<1>5. ChiefStays'
  BY <1>1, Rests DEF AccessInv
<1> QED
  BY <1>1, <1>2, <1>3, <1>4, <1>5 DEF AccessInv, DraftOfRow, NothingOfNobody, HasSession

LEMMA OthersWriteKeeps == ASSUME AccessInv, OthersWrite PROVE AccessInv'
<1>1. unseen' = AllReads /\ UNCHANGED <<served, session, policy, sync, matrix, dialog, write>>
  BY DEF OthersWrite
<1>2. SyncTells' /\ MatrixTells'
  BY <1>1 DEF AccessInv, SyncTells, MatrixTells, AllReads
<1>3. DraftOfRow' /\ NothingOfNobody'
  BY <1>1 DEF AccessInv, DraftOfRow, NothingOfNobody, HasSession
<1>4. ASSUME NEW r \in EditedRoles, NEW edited, validate(r, edited),
             saved' = [saved EXCEPT ![r] = Stored(r, edited)], UNCHANGED account
      PROVE  AccessTypes' /\ ChiefStays'
  <2>1. edited \in SUBSET PERMISSIONS /\ Stored(r, edited) \in Rows
        /\ (served => Stored(r, edited).permissions = edited)
    BY <1>4, StoredShape DEF AccessInv, validate
  <2>2. AccessTypes'
    BY <1>1, <1>4, <2>1 DEF AccessInv, AccessTypes
  <2>3. served => "roles.write" \in effective("administrator")'
    <3>1. CASE r = "administrator"
      BY <1>4, <2>1, <3>1, Vocabulary DEF AccessInv, AccessTypes, effective, validate
    <3>2. CASE r # "administrator"
      BY <1>4, <3>2 DEF AccessInv, ChiefStays, effective
    <3> QED
      BY <3>1, <3>2
  <2> QED
    BY <1>1, <1>4, <2>2, <2>3 DEF AccessInv, ChiefStays
<1>5. ASSUME NEW u \in DOMAIN account \ {Chief}, NEW s \in {"active", "disabled"},
             account' = [account EXCEPT ![u].status = s], UNCHANGED saved
      PROVE  AccessTypes' /\ ChiefStays'
  <2>1. account' = [account EXCEPT ![u] = [account[u] EXCEPT !.status = s]]
    BY <1>5, Zenon
  <2>2. [account[u] EXCEPT !.status = s] \in AccountRows
    BY <1>5 DEF AccessInv, AccessTypes, AccountRows
  <2>3. DOMAIN account' = DOMAIN account /\ account' \in [DOMAIN account' -> AccountRows]
    BY <2>1, <2>2 DEF AccessInv, AccessTypes
  <2>4. AccessTypes'
    BY <1>1, <1>5, <2>3 DEF AccessInv, AccessTypes
  <2>5. Chief \in DOMAIN account => account'[Chief] = account[Chief]
    BY <2>1
  <2>6. ChiefStays'
    BY <1>1, <1>5, <2>3, <2>5 DEF AccessInv, ChiefStays, effective
  <2> QED
    BY <2>4, <2>6
<1> QED
  BY <1>2, <1>3, <1>4, <1>5, Zenon DEF OthersWrite, AccessInv

LEMMA NextAccessInv == AccessInv /\ [AccessNext]_accessVars => AccessInv'
<1> SUFFICES ASSUME AccessInv, [AccessNext]_accessVars PROVE AccessInv'
  OBVIOUS
<1>1. CASE UNCHANGED accessVars
  <2>1. AccessTypes' /\ ChiefStays'
    BY <1>1 DEF accessVars, AccessInv, AccessTypes, ChiefStays, effective
  <2>2. SyncTells' /\ MatrixTells'
    BY <1>1, SameLive DEF accessVars, AccessInv, SyncTells, MatrixTells, Settled
  <2> QED
    BY <1>1, <2>1, <2>2 DEF accessVars, AccessInv, DraftOfRow, NothingOfNobody, HasSession
<1>2. CASE AccessNext
  BY <1>2, LoginKeeps, AccountsKeep, LogoutKeeps, RestoreKeeps, ServeSyncKeeps, SetRolePoliciesKeeps,
     SyncFailsKeeps, OpenPanelKeeps, ServeMatrixKeeps, GotMatrixKeeps, CloseMatrixKeeps, SaveKeeps, ResetKeeps,
     OpenMatrixKeeps, ToggleKeeps, ServeWriteKeeps, AnsweredKeeps, AnswerLostKeeps, OthersWriteKeeps, Zenon
  DEF AccessNext
<1> QED
  BY <1>1, <1>2

LEMMA AccessInvMeans == AccessInv => AccessHolds
<1> SUFFICES ASSUME AccessInv PROVE AccessHolds
  OBVIOUS
<1>1. MatrixIsLive
  <2> SUFFICES ASSUME HasSession, sync.is = "read", write.kind = "none", "sync" \notin unseen
               PROVE  Permissions = effective(session.role) \/ ThroughProjection(session.role)
    BY DEF MatrixIsLive
  <2>1. session.role \in EditedRoles /\ policy = sync.answer /\ sync.answer \in Matrices
    BY Fields DEF AccessInv, SyncTells
  <2>2. policy[session.role] # Unset /\ Live(session.role, policy[session.role])
    BY <2>1, Vocabulary DEF AccessInv, SyncTells, Settled, Matrices
  <2> QED
    BY <2>2 DEF Permissions, Live
<1>2. ProjectionEndsWithSession
  BY DEF AccessInv, NothingOfNobody, ProjectionEndsWithSession
<1>3. EditorsRemain
  BY DEF AccessInv, ChiefStays, EditorsRemain, Allowed, Works
<1>4. DraftsAreEdits
  <2> SUFFICES ASSUME dialog.role # "none", matrix.is = "read", write.kind = "none", "matrix" \notin unseen,
                      ~ThroughProjection(dialog.role)
               PROVE  \A p \in PERMISSIONS \ dialog.touched : p \in dialog.draft <=> p \in effective(dialog.role)
    BY DEF DraftsAreEdits
  <2>1. dialog.role \in EditedRoles
    BY Fields DEF AccessInv
  <2>2. matrix.rows[dialog.role] = effective(dialog.role)
    BY <2>1 DEF AccessInv, MatrixTells, Settled, Live
  <2> QED
    BY <2>2 DEF AccessInv, DraftOfRow
<1> QED
  BY <1>1, <1>2, <1>3, <1>4 DEF AccessHolds

(* Once what was asked for is answered, the controls follow the matrix     *)
(* that is saved, a draft takes back nobody's edit, no session inherits    *)
(* the projection of the one before, and on a server somebody can always   *)
(* edit the matrix (useRolePolicySync, UsersPanel, RoleMatrixDialog).      *)
THEOREM ControlsFollowTheMatrix == AccessSpec => []AccessHolds
  BY InitAccessInv, NextAccessInv, AccessInvMeans, PTL DEF AccessSpec


-----------------------------------------------------------------------------
(* The academy's records.                                                  *)

StudentRows == [code : Codes, instrument : Instruments]
TeacherRows == [name : Names, phone : Phones, active : BOOLEAN, instrument : Instruments]
RoomRows == [capacity : Nat, active : BOOLEAN]
ClassRows == [teacher : Teachers, room : Rooms, capacity : Nat, archived : BOOLEAN, instrument : Instruments,
              enrolled : Nat, waitlist : Nat, studentIds : SUBSET Students]
SeatRows == [student : Students, class : Classes, status : {"active", "waitlist", "completed", "cancelled"}]
UserRows == [name : Names, phone : Phones \cup {Blank}, email : Emails, active : BOOLEAN,
             teacher : Teachers \cup {Blank}]
Table(f, Ids, RowSet) == f \in [DOMAIN f -> RowSet] /\ DOMAIN f \subseteq Ids

RecordTypes ==
    /\ Table(student, Students, StudentRows) /\ Table(teacher, Teachers, TeacherRows)
    /\ Table(room, Rooms, RoomRows) /\ Table(class, Classes, ClassRows)
    /\ Table(seat, Seats, SeatRows) /\ Table(user, Users, UserRows)
    /\ Table(instrument, Instruments, BOOLEAN)
    /\ reopened \subseteq Users /\ changes \in 0 .. MaxChanges

(* The id of a removed record is in no table.                              *)
UsedAreGone ==
    /\ used \cap DOMAIN student = {} /\ used \cap DOMAIN teacher = {}
    /\ used \cap DOMAIN room = {} /\ used \cap DOMAIN class = {}
(* An account names a teacher there is or was, and no two the same one.    *)
LinksAreKnown ==
    /\ \A u \in DOMAIN user : user[u].teacher \in {Blank} \cup (DOMAIN teacher \cup used)
    /\ \A a, b \in DOMAIN user : user[a].teacher = user[b].teacher /\ user[a].teacher # Blank => a = b

AcademyInv == RecordTypes /\ UsedAreGone /\ LinksAreKnown /\ AcademyHolds

LEMMA KindsDiffer ==
    /\ Students \cap Teachers = {} /\ Students \cap Rooms = {} /\ Students \cap Classes = {}
    /\ Students \cap Seats = {} /\ Students \cap Users = {}
    /\ Teachers \cap Rooms = {} /\ Teachers \cap Classes = {} /\ Teachers \cap Seats = {} /\ Teachers \cap Users = {}
    /\ Rooms \cap Classes = {} /\ Rooms \cap Seats = {} /\ Rooms \cap Users = {}
    /\ Classes \cap Seats = {} /\ Classes \cap Users = {}
    /\ Blank \notin Students /\ Blank \notin Teachers /\ Blank \notin Users
<1>1. IdsOf[1] = Students /\ IdsOf[2] = Teachers /\ IdsOf[3] = Rooms /\ IdsOf[4] = Classes /\ IdsOf[5] = Seats /\ IdsOf[6] = Users
  BY DEF IdsOf
<1>2. /\ IdsOf[1] \cap IdsOf[2] = {} /\ IdsOf[1] \cap IdsOf[3] = {} /\ IdsOf[1] \cap IdsOf[4] = {}
      /\ IdsOf[1] \cap IdsOf[5] = {} /\ IdsOf[1] \cap IdsOf[6] = {}
  BY AcademyAssumption
<1>3. /\ IdsOf[2] \cap IdsOf[3] = {} /\ IdsOf[2] \cap IdsOf[4] = {} /\ IdsOf[2] \cap IdsOf[5] = {} /\ IdsOf[2] \cap IdsOf[6] = {}
      /\ IdsOf[3] \cap IdsOf[4] = {} /\ IdsOf[3] \cap IdsOf[5] = {} /\ IdsOf[3] \cap IdsOf[6] = {}
      /\ IdsOf[4] \cap IdsOf[5] = {} /\ IdsOf[4] \cap IdsOf[6] = {}
  BY AcademyAssumption
<1>4. Blank \notin IdsOf[1] /\ Blank \notin IdsOf[2] /\ Blank \notin IdsOf[6]
  BY AcademyAssumption
<1> QED BY <1>1, <1>2, <1>3, <1>4

FileIds == Dated \cup Dues \cup Scores \cup Practices
LEMMA FileIdsDiffer ==
    Students \cap FileIds = {} /\ Teachers \cap FileIds = {} /\ Rooms \cap FileIds = {} /\ Classes \cap FileIds = {}
<1>1. /\ IdsOf[1] = Students /\ IdsOf[2] = Teachers /\ IdsOf[3] = Rooms /\ IdsOf[4] = Classes
      /\ IdsOf[7] = Dated /\ IdsOf[8] = Dues /\ IdsOf[9] = Scores /\ IdsOf[10] = Practices
  BY DEF IdsOf
<1>2. ASSUME NEW i \in 1 .. 4 PROVE /\ IdsOf[i] \cap IdsOf[7] = {} /\ IdsOf[i] \cap IdsOf[8] = {}
                                    /\ IdsOf[i] \cap IdsOf[9] = {} /\ IdsOf[i] \cap IdsOf[10] = {}
  BY AcademyAssumption
<1> QED BY <1>1, <1>2 DEF FileIds

(* What a write does to a table: the row asked for, and no other.          *)
LEMMA LessTable ==
    ASSUME NEW f, NEW Ids, NEW RowSet, Table(f, Ids, RowSet), NEW k
    PROVE /\ Table(Less(f, k), Ids, RowSet) /\ DOMAIN Less(f, k) = DOMAIN f \ {k}
          /\ \A x \in DOMAIN f : x # k => Less(f, k)[x] = f[x]
BY DEF Table, Less

LEMMA PatchTable ==
    ASSUME NEW f, NEW Ids, NEW RowSet, Table(f, Ids, RowSet), NEW k \in DOMAIN f, NEW row \in RowSet
    PROVE /\ Table([f EXCEPT ![k] = row], Ids, RowSet) /\ DOMAIN [f EXCEPT ![k] = row] = DOMAIN f
          /\ [f EXCEPT ![k] = row][k] = row /\ \A x \in DOMAIN f : x # k => [f EXCEPT ![k] = row][x] = f[x]
BY DEF Table

LEMMA RowOf == ASSUME NEW f, NEW Ids, NEW RowSet, Table(f, Ids, RowSet), NEW k \in DOMAIN f PROVE f[k] \in RowSet /\ k \in Ids
BY DEF Table

-----------------------------------------------------------------------------
(* What a conjunct does not read it keeps.                                 *)

LEMMA SeatsFrame ==
    ASSUME SeatsHold, ProjectionsAgree, UNCHANGED <<seat, class>>
    PROVE SeatsHold' /\ ProjectionsAgree'
<1>1. ASSUME NEW c, NEW status PROVE SeatsOf(c, status)' = SeatsOf(c, status)
  BY DEF SeatsOf
<1>2. ASSUME NEW c PROVE countActive(c)' = countActive(c)
  BY <1>1 DEF countActive
<1>3. SeatsHold'
  BY <1>1, <1>2 DEF SeatsHold
<1>4. ASSUME NEW c \in DOMAIN class PROVE class[c].studentIds = {seat'[e].student : e \in SeatsOf(c, "active")'}
  BY <1>1 DEF ProjectionsAgree
<1>5. ProjectionsAgree'
  BY <1>1, <1>2, <1>4 DEF ProjectionsAgree
<1> QED BY <1>3, <1>5

LEMMA PeopleFrame ==
    ASSUME OnePersonOneName, LinksAreKnown, UNCHANGED <<teacher, user, reopened>>, used \subseteq used'
    PROVE OnePersonOneName' /\ LinksAreKnown'
BY DEF OnePersonOneName, LinksAreKnown, ContractEnded

LEMMA ParentsFrame ==
    ASSUME RecordsKeepTheirParents, UNCHANGED <<class, seat, teacher, student, instrument, passphrase, user>>,
           \A c \in DOMAIN class : class[c].room \in DOMAIN room'
    PROVE RecordsKeepTheirParents'
BY DEF RecordsKeepTheirParents, findReference

LEMMA Counted == Changes /\ RecordTypes => changes' \in 0 .. MaxChanges
BY AcademyAssumption DEF Changes, RecordTypes

-----------------------------------------------------------------------------
(* Rooms and instruments.                                                  *)

LEMMA RoomsKeep ==
    ASSUME AcademyInv, NEW r \in Rooms,
           \/ \E n \in Capacities : createRoom(r, n) \/ \E on \in BOOLEAN : updateRoom(r, n, on)
           \/ deleteRoom(r)
    PROVE AcademyInv'
<1> USE DEF AcademyInv, AcademyHolds
<1>1. \A n \in Capacities, on \in BOOLEAN : [capacity |-> n, active |-> on] \in RoomRows
  BY AcademyAssumption DEF RoomRows
<1>2. /\ UNCHANGED <<student, teacher, class, seat, user, instrument, passphrase, reopened>>
      /\ changes' \in 0 .. MaxChanges
  BY Counted DEF createRoom, updateRoom, deleteRoom, RoomsOnly, Keeps, Removes
<1>3. Table(room, Rooms, RoomRows)
  BY DEF RecordTypes
<1>4. /\ Table(room', Rooms, RoomRows) /\ used \subseteq used' /\ used' \subseteq used \cup {r}
      /\ used' \cap DOMAIN room' = {} /\ \A c \in DOMAIN class : class[c].room \in DOMAIN room'
  <2>1. CASE \E n \in Capacities : createRoom(r, n)
    <3>1. PICK fresh \in RoomRows : room' = With(room, r, fresh) /\ used' = used /\ r \notin used
      BY <2>1, <1>1 DEF createRoom, Keeps, Unused
    <3>2. /\ Table(room', Rooms, RoomRows) /\ DOMAIN room' = DOMAIN room \cup {r}
          /\ room'[r] = fresh /\ \A x \in DOMAIN room : x # r => room'[x] = room[x]
      BY <3>1, <1>1, <1>3 DEF Table, With
    <3> QED BY <3>1, <3>2 DEF UsedAreGone, RecordsKeepTheirParents
  <2>2. CASE \E n \in Capacities, on \in BOOLEAN : updateRoom(r, n, on)
    <3>1. PICK edited \in RoomRows : room' = [room EXCEPT ![r] = edited] /\ used' = used /\ r \in DOMAIN room
      BY <2>2, <1>1 DEF updateRoom, Keeps
    <3> QED BY <3>1, <1>1, <1>3, PatchTable DEF UsedAreGone, RecordsKeepTheirParents
  <2>3. CASE deleteRoom(r)
    <3>1. room' = Less(room, r) /\ used' = used \cup {r} /\ \A c \in DOMAIN class : class[c].room # r
      BY <2>3 DEF deleteRoom, Removes
    <3>2. /\ Table(room', Rooms, RoomRows) /\ DOMAIN room' = DOMAIN room \ {r}
          /\ \A x \in DOMAIN room : x # r => room'[x] = room[x]
      BY <3>1, <1>3, LessTable
    <3> QED BY <3>1, <3>2 DEF UsedAreGone, RecordsKeepTheirParents
  <2> QED BY <2>1, <2>2, <2>3
<1>5. RecordTypes'
  BY <1>2, <1>4 DEF RecordTypes
<1>6. UsedAreGone'
  BY <1>2, <1>4, KindsDiffer DEF UsedAreGone, RecordTypes, Table
<1> QED BY <1>2, <1>4, <1>5, <1>6, SeatsFrame, PeopleFrame, ParentsFrame

LEMMA InstrumentsKeep ==
    ASSUME AcademyInv, NEW i \in Instruments, NEW on \in BOOLEAN,
           createInstrument(i) \/ setActive(i, on) \/ deleteInstrument(i)
    PROVE AcademyInv'
<1> USE DEF AcademyInv, AcademyHolds
<1>1. /\ UNCHANGED <<student, teacher, room, class, seat, user, passphrase, reopened, used>>
      /\ changes' \in 0 .. MaxChanges
  BY Counted DEF createInstrument, setActive, deleteInstrument, InstrumentsOnly, Keeps
<1>2. Table(instrument, Instruments, BOOLEAN)
  BY DEF RecordTypes
<1>3. /\ Table(instrument', Instruments, BOOLEAN)
      /\ \A j \in Instruments : findReference(j) => j \in DOMAIN instrument'
  <2>1. CASE createInstrument(i)
    <3>1. instrument' = With(instrument, i, TRUE)
      BY <2>1 DEF createInstrument
    <3>2. /\ Table(instrument', Instruments, BOOLEAN) /\ DOMAIN instrument' = DOMAIN instrument \cup {i}
          /\ instrument'[i] = TRUE /\ \A x \in DOMAIN instrument : x # i => instrument'[x] = instrument[x]
      BY <3>1, <1>2 DEF Table, With
    <3> QED BY <3>2 DEF RecordsKeepTheirParents
  <2>2. CASE setActive(i, on)
    <3>1. instrument' = [instrument EXCEPT ![i] = on] /\ i \in DOMAIN instrument
      BY <2>2 DEF setActive
    <3> QED BY <3>1, <1>2, PatchTable DEF RecordsKeepTheirParents
  <2>3. CASE deleteInstrument(i)
    <3>1. instrument' = Less(instrument, i) /\ ~findReference(i)
      BY <2>3 DEF deleteInstrument
    <3>2. /\ Table(instrument', Instruments, BOOLEAN) /\ DOMAIN instrument' = DOMAIN instrument \ {i}
          /\ \A x \in DOMAIN instrument : x # i => instrument'[x] = instrument[x]
      BY <3>1, <1>2, LessTable
    <3> QED BY <3>1, <3>2 DEF RecordsKeepTheirParents
  <2> QED BY <2>1, <2>2, <2>3
<1>4. RecordTypes'
  BY <1>1, <1>3 DEF RecordTypes
<1>5. UsedAreGone'
  BY <1>1 DEF UsedAreGone
<1>6. \A j : findReference(j)' <=> findReference(j)
  BY <1>1 DEF findReference
<1>7. RecordsKeepTheirParents'
  BY <1>1, <1>3, <1>6 DEF RecordsKeepTheirParents
<1> QED BY <1>1, <1>4, <1>5, <1>7, SeatsFrame, PeopleFrame

-----------------------------------------------------------------------------
(* Students.                                                               *)

LEMMA StudentsKeep ==
    ASSUME AcademyInv, NEW s \in Students,
           \/ \E code \in Codes : updateStudent(s, code) \/ \E i \in Instruments : createStudent(s, code, i)
           \/ deleteStudent(s)
    PROVE AcademyInv'
<1> USE DEF AcademyInv, AcademyHolds
<1>1. /\ UNCHANGED <<teacher, room, class, seat, user, instrument, passphrase, reopened>>
      /\ changes' \in 0 .. MaxChanges
  BY Counted DEF createStudent, updateStudent, deleteStudent, StudentsOnly, Keeps, Removes
<1>2. Table(student, Students, StudentRows)
  BY DEF RecordTypes
<1>3. /\ Table(student', Students, StudentRows) /\ used \subseteq used' /\ used' \subseteq used \cup {s}
      /\ used' \cap DOMAIN student' = {}
      /\ \A x \in DOMAIN student' : \/ x \in DOMAIN student /\ student'[x].instrument = student[x].instrument
                                    \/ student'[x].instrument \in DOMAIN instrument
  <2>1. CASE \E code \in Codes, i \in Instruments : createStudent(s, code, i)
    <3> PICK code \in Codes, i \in Instruments : createStudent(s, code, i)
      BY <2>1
    <3> DEFINE fresh == [code |-> code, instrument |-> i]
    <3>1. fresh \in StudentRows /\ fresh.instrument = i
      BY DEF StudentRows
    <3>2. student' = With(student, s, fresh) /\ used' = used /\ s \notin used /\ i \in DOMAIN instrument
      BY DEF createStudent, Keeps, Unused
    <3> HIDE DEF fresh
    <3>3. /\ Table(student', Students, StudentRows) /\ DOMAIN student' = DOMAIN student \cup {s}
          /\ student'[s] = fresh /\ \A x \in DOMAIN student : x # s => student'[x] = student[x]
      BY <3>1, <3>2, <1>2 DEF Table, With
    <3> QED BY <3>1, <3>2, <3>3 DEF UsedAreGone
  <2>2. CASE \E code \in Codes : updateStudent(s, code)
    <3> PICK code \in Codes : updateStudent(s, code)
      BY <2>2
    <3> DEFINE edited == [student[s] EXCEPT !.code = code]
    <3>1. student' = [student EXCEPT ![s] = edited] /\ used' = used /\ s \in DOMAIN student
      BY DEF updateStudent, Keeps
    <3>2. student[s] \in StudentRows
      BY <3>1, <1>2, RowOf
    <3>3. edited \in StudentRows /\ edited.instrument = student[s].instrument
      BY <3>2 DEF StudentRows
    <3> HIDE DEF edited
    <3> QED BY <3>1, <3>3, <1>2, PatchTable DEF UsedAreGone
  <2>3. CASE deleteStudent(s)
    <3>1. student' = Less(student, s) /\ used' = used \cup {s}
      BY <2>3 DEF deleteStudent, Removes
    <3>2. /\ Table(student', Students, StudentRows) /\ DOMAIN student' = DOMAIN student \ {s}
          /\ \A x \in DOMAIN student : x # s => student'[x] = student[x]
      BY <3>1, <1>2, LessTable
    <3> QED BY <3>1, <3>2 DEF UsedAreGone
  <2> QED BY <2>1, <2>2, <2>3
<1>4. RecordTypes'
  BY <1>1, <1>3 DEF RecordTypes
<1>5. UsedAreGone'
  BY <1>1, <1>3, KindsDiffer DEF UsedAreGone, RecordTypes, Table
<1>6. \A j : findReference(j)' => findReference(j) \/ j \in DOMAIN instrument
  BY <1>1, <1>3 DEF findReference
<1>7. RecordsKeepTheirParents'
  BY <1>1, <1>6 DEF RecordsKeepTheirParents
<1> QED BY <1>1, <1>3, <1>4, <1>5, <1>7, SeatsFrame, PeopleFrame

-----------------------------------------------------------------------------
(* Teachers and the accounts that follow them.                             *)

LEMMA SyncAccountShape ==
    ASSUME RecordTypes, NEW t \in Teachers, NEW row \in TeacherRows, user' = syncAccount(t, row)
    PROVE /\ Table(user', Users, UserRows) /\ DOMAIN user' = DOMAIN user
          /\ \A u \in DOMAIN user :
                /\ user[u].teacher # t => user'[u] = user[u]
                /\ user'[u].teacher = user[u].teacher /\ user'[u].email = user[u].email
                /\ user[u].teacher = t => /\ user'[u].name = row.name /\ user'[u].phone = row.phone
                                          /\ user'[u].active = (user[u].active /\ row.active)
<1>1. DOMAIN user' = DOMAIN user
  BY DEF syncAccount
<1>2. ASSUME NEW u \in DOMAIN user
      PROVE /\ user[u] \in UserRows /\ user'[u] \in UserRows
            /\ user[u].teacher # t => user'[u] = user[u]
            /\ user'[u].teacher = user[u].teacher /\ user'[u].email = user[u].email
            /\ user[u].teacher = t => /\ user'[u].name = row.name /\ user'[u].phone = row.phone
                                      /\ user'[u].active = (user[u].active /\ row.active)
  <2>1. user[u] \in UserRows
    BY DEF RecordTypes, Table
  <2>2. row.name \in Names /\ row.phone \in Phones /\ row.active \in BOOLEAN
    BY DEF TeacherRows
  <2>3. CASE user[u].teacher # t
    <3>1. user'[u] = user[u]
      BY <2>3 DEF syncAccount
    <3> QED BY <2>1, <2>3, <3>1
  <2>4. CASE user[u].teacher = t
    <3>1. user'[u] = [user[u] EXCEPT !.name = row.name, !.phone = row.phone,
                                     !.active = user[u].active /\ row.active]
      BY <2>4 DEF syncAccount
    <3>2. (user[u].active /\ row.active) \in BOOLEAN
      OBVIOUS
    <3> HIDE DEF syncAccount
    <3> QED BY <2>1, <2>2, <2>4, <3>1, <3>2 DEF UserRows
  <2> QED BY <2>1, <2>3, <2>4
<1>3. user' \in [DOMAIN user -> UserRows]
  BY <1>1, <1>2 DEF syncAccount
<1> QED BY <1>1, <1>2, <1>3 DEF Table, RecordTypes

LEMMA SetTeacherKeeps ==
    ASSUME AcademyInv, NEW t \in DOMAIN teacher, NEW row \in TeacherRows,
           row.instrument = teacher[t].instrument, SetTeacher(t, row)
    PROVE AcademyInv'
<1> USE DEF AcademyInv, AcademyHolds
<1>1. /\ UNCHANGED <<student, room, class, seat, instrument, passphrase, used>>
      /\ changes' \in 0 .. MaxChanges
      /\ reopened' = {u \in reopened : user'[u].active}
  BY Counted DEF SetTeacher, PeopleOnly, Keeps
<1>2. t \in Teachers /\ t # Blank /\ teacher[t] \in TeacherRows
  BY KindsDiffer DEF RecordTypes, Table
<1>3. /\ Table(teacher', Teachers, TeacherRows) /\ DOMAIN teacher' = DOMAIN teacher
      /\ teacher'[t] = row /\ \A x \in DOMAIN teacher : x # t => teacher'[x] = teacher[x]
  BY <1>2 DEF SetTeacher, Table, With, RecordTypes
<1>4. user' = syncAccount(t, row)
  BY DEF SetTeacher
<1>5. /\ Table(user', Users, UserRows) /\ DOMAIN user' = DOMAIN user
      /\ \A u \in DOMAIN user :
            /\ user[u].teacher # t => user'[u] = user[u]
            /\ user'[u].teacher = user[u].teacher /\ user'[u].email = user[u].email
            /\ user[u].teacher = t => /\ user'[u].name = row.name /\ user'[u].phone = row.phone
                                      /\ user'[u].active = (user[u].active /\ row.active)
  BY <1>2, <1>4, SyncAccountShape
<1>6. RecordTypes'
  BY <1>1, <1>3, <1>5 DEF RecordTypes
<1>7. UsedAreGone' /\ LinksAreKnown'
  BY <1>1, <1>3, <1>5 DEF UsedAreGone, LinksAreKnown
<1>8. OnePersonOneName'
  <2> DEFINE EndedAfter(x) == x # Blank /\ (x \notin DOMAIN teacher' \/ ~teacher'[x].active)
  <2> SUFFICES ASSUME NEW u \in DOMAIN user,
                      NEW k, k = user[u].teacher
               PROVE /\ k \in DOMAIN teacher' => user'[u].name = teacher'[k].name /\ user'[u].phone \in {Blank, teacher'[k].phone}
                     /\ EndedAfter(k) /\ user'[u].active => u \in reopened'
    BY <1>5 DEF OnePersonOneName, ContractEnded
  <2>1. CASE user[u].teacher = t
    BY <2>1, <1>3, <1>5 DEF ContractEnded
  <2>2. CASE user[u].teacher # t
    <3>1. EndedAfter(k) <=> ContractEnded(k)
      BY <2>2, <1>3 DEF ContractEnded
    <3> QED BY <2>2, <3>1, <1>1, <1>3, <1>5 DEF OnePersonOneName
  <2> QED BY <2>1, <2>2
<1>9. RecordsKeepTheirParents'
  <2>1. \A j : findReference(j)' <=> findReference(j)
    BY <1>1, <1>3 DEF findReference
  <2> QED BY <2>1, <1>1, <1>3, <1>5 DEF RecordsKeepTheirParents
<1> QED BY <1>1, <1>6, <1>7, <1>8, <1>9, SeatsFrame

LEMMA TeachersKeep ==
    ASSUME AcademyInv, NEW t \in Teachers,
           \/ \E name \in Names, phone \in Phones :
                 \/ \E i \in Instruments : createTeacher(t, name, phone, i)
                 \/ \E on \in BOOLEAN : updateTeacher(t, name, phone, on)
           \/ deactivate(t)
    PROVE AcademyInv'
<1>1. ASSUME NEW name \in Names, NEW phone \in Phones, NEW i \in Instruments, createTeacher(t, name, phone, i)
      PROVE AcademyInv'
  <2> USE DEF AcademyInv, AcademyHolds
  <2> DEFINE fresh == [name |-> name, phone |-> phone, active |-> TRUE, instrument |-> i]
  <2>1. fresh \in TeacherRows /\ fresh.instrument = i
    BY DEF TeacherRows
  <2> HIDE DEF fresh
  <2>2. /\ UNCHANGED <<student, room, class, seat, user, instrument, passphrase, reopened, used>>
        /\ changes' \in 0 .. MaxChanges
        /\ teacher' = With(teacher, t, fresh) /\ t \notin DOMAIN teacher \cup used /\ i \in DOMAIN instrument
    BY <1>1, Counted DEF createTeacher, PeopleOnly, Keeps, Unused, fresh
  <2>3. /\ Table(teacher', Teachers, TeacherRows) /\ DOMAIN teacher' = DOMAIN teacher \cup {t}
        /\ teacher'[t] = fresh /\ \A x \in DOMAIN teacher : teacher'[x] = teacher[x]
    BY <2>1, <2>2 DEF Table, With, RecordTypes
  <2>4. RecordTypes'
    BY <2>2, <2>3 DEF RecordTypes
  <2>5. UsedAreGone' /\ LinksAreKnown'
    BY <2>2, <2>3 DEF UsedAreGone, LinksAreKnown
  <2>6. OnePersonOneName'
    <3> DEFINE EndedAfter(x) == x # Blank /\ (x \notin DOMAIN teacher' \/ ~teacher'[x].active)
    <3> SUFFICES ASSUME NEW u \in DOMAIN user,
                        NEW k, k = user[u].teacher
                 PROVE /\ k \in DOMAIN teacher' => user[u].name = teacher'[k].name /\ user[u].phone \in {Blank, teacher'[k].phone}
                       /\ EndedAfter(k) /\ user[u].active => u \in reopened
      BY <2>2 DEF OnePersonOneName, ContractEnded
    <3>1. k # t
      BY <2>2, KindsDiffer DEF LinksAreKnown
    <3>2. EndedAfter(k) <=> ContractEnded(k)
      BY <3>1, <2>3 DEF ContractEnded
    <3> QED BY <3>1, <3>2, <2>3 DEF OnePersonOneName
  <2>7. RecordsKeepTheirParents'
    <3>1. \A j : findReference(j)' => findReference(j) \/ j = i
      BY <2>1, <2>2, <2>3 DEF findReference
    <3> QED BY <3>1, <2>2, <2>3 DEF RecordsKeepTheirParents
  <2> QED BY <2>2, <2>4, <2>5, <2>6, <2>7, SeatsFrame
<1>2. ASSUME NEW name \in Names, NEW phone \in Phones, NEW on \in BOOLEAN, updateTeacher(t, name, phone, on)
      PROVE AcademyInv'
  <2> DEFINE row == [teacher[t] EXCEPT !.name = name, !.phone = phone, !.active = on]
  <2>1. t \in DOMAIN teacher /\ SetTeacher(t, row)
    BY <1>2 DEF updateTeacher
  <2>2. teacher[t] \in TeacherRows
    BY <2>1 DEF AcademyInv, RecordTypes, Table
  <2>3. row \in TeacherRows /\ row.instrument = teacher[t].instrument
    BY <2>2 DEF TeacherRows
  <2> QED BY <2>1, <2>3, SetTeacherKeeps
<1>3. CASE deactivate(t)
  <2> DEFINE row == [teacher[t] EXCEPT !.active = FALSE]
  <2>1. t \in DOMAIN teacher /\ SetTeacher(t, row)
    BY <1>3 DEF deactivate
  <2>2. teacher[t] \in TeacherRows
    BY <2>1 DEF AcademyInv, RecordTypes, Table
  <2>3. row \in TeacherRows /\ row.instrument = teacher[t].instrument
    BY <2>2 DEF TeacherRows
  <2> QED BY <2>1, <2>3, SetTeacherKeeps
<1> QED BY <1>1, <1>2, <1>3

LEMMA DeleteTeacherKeeps == ASSUME AcademyInv, NEW t \in Teachers, deleteTeacher(t) PROVE AcademyInv'
<1> USE DEF AcademyInv, AcademyHolds
<1>1. /\ UNCHANGED <<student, room, class, seat, instrument, passphrase>>
      /\ changes' \in 0 .. MaxChanges /\ used' = used \cup {t} /\ t \in DOMAIN teacher
      /\ reopened' = reopened \ Accounts(t) /\ \A c \in DOMAIN class : class[c].teacher # t
  BY Counted DEF deleteTeacher, PeopleOnly, Removes
<1>2. /\ Table(teacher', Teachers, TeacherRows) /\ DOMAIN teacher' = DOMAIN teacher \ {t}
      /\ \A x \in DOMAIN teacher : x # t => teacher'[x] = teacher[x]
  BY DEF deleteTeacher, Table, Less, RecordTypes
<1>3. /\ Table(user', Users, UserRows) /\ DOMAIN user' = DOMAIN user
      /\ \A u \in DOMAIN user :
            /\ user'[u].teacher = user[u].teacher /\ user'[u].email = user[u].email
            /\ user'[u].name = user[u].name /\ user'[u].phone = user[u].phone
            /\ user'[u].active = (user[u].active /\ user[u].teacher # t)
  <2>1. DOMAIN user' = DOMAIN user
    BY DEF deleteTeacher
  <2>2. ASSUME NEW u \in DOMAIN user
        PROVE /\ user'[u] \in UserRows
              /\ user'[u].teacher = user[u].teacher /\ user'[u].email = user[u].email
              /\ user'[u].name = user[u].name /\ user'[u].phone = user[u].phone
              /\ user'[u].active = (user[u].active /\ user[u].teacher # t)
    <3>1. user[u] \in UserRows
      BY DEF RecordTypes, Table
    <3>2. user'[u] = [user[u] EXCEPT !.active = user[u].active /\ u \notin Accounts(t)]
      BY DEF deleteTeacher
    <3>3. u \in Accounts(t) <=> user[u].teacher = t
      BY DEF Accounts
    <3>4. (user[u].active /\ u \notin Accounts(t)) \in BOOLEAN
      OBVIOUS
    <3> QED BY <3>1, <3>2, <3>3, <3>4 DEF UserRows
  <2>3. user' \in [DOMAIN user -> UserRows]
    BY <2>1, <2>2 DEF deleteTeacher
  <2> QED BY <2>1, <2>2, <2>3 DEF Table, RecordTypes
<1>4. RecordTypes'
  BY <1>1, <1>2, <1>3 DEF RecordTypes
<1>5. UsedAreGone'
  BY <1>1, <1>2, KindsDiffer DEF UsedAreGone, RecordTypes, Table
<1>6. LinksAreKnown'
  BY <1>1, <1>2, <1>3 DEF LinksAreKnown
<1>7. OnePersonOneName'
  <2> DEFINE EndedAfter(x) == x # Blank /\ (x \notin DOMAIN teacher' \/ ~teacher'[x].active)
  <2> SUFFICES ASSUME NEW u \in DOMAIN user,
                      NEW k, k = user[u].teacher
               PROVE /\ k \in DOMAIN teacher' => user'[u].name = teacher'[k].name /\ user'[u].phone \in {Blank, teacher'[k].phone}
                     /\ EndedAfter(k) /\ user'[u].active => u \in reopened'
    BY <1>3 DEF OnePersonOneName, ContractEnded
  <2>1. CASE user[u].teacher = t
    BY <2>1, <1>2, <1>3
  <2>2. CASE user[u].teacher # t
    <3>1. EndedAfter(k) <=> ContractEnded(k)
      BY <2>2, <1>2 DEF ContractEnded
    <3>2. u \notin Accounts(t)
      BY <2>2 DEF Accounts
    <3> QED BY <2>2, <3>1, <3>2, <1>1, <1>2, <1>3 DEF OnePersonOneName
  <2> QED BY <2>1, <2>2
<1>8. RecordsKeepTheirParents'
  <2>1. \A j : findReference(j)' => findReference(j)
    BY <1>1, <1>2 DEF findReference
  <2> QED BY <2>1, <1>1, <1>2, <1>3 DEF RecordsKeepTheirParents
<1> QED BY <1>1, <1>4, <1>5, <1>6, <1>7, <1>8, SeatsFrame

-----------------------------------------------------------------------------
(* Accounts and the teachers that follow them.                             *)

LEMMA SyncTeacherShape ==
    ASSUME RecordTypes, NEW row \in UserRows, teacher' = syncTeacher(row)
    PROVE /\ Table(teacher', Teachers, TeacherRows) /\ DOMAIN teacher' = DOMAIN teacher
          /\ \A t \in DOMAIN teacher :
                /\ t # row.teacher => teacher'[t] = teacher[t]
                /\ teacher'[t].active = teacher[t].active /\ teacher'[t].instrument = teacher[t].instrument
                /\ t = row.teacher => /\ teacher'[t].name = row.name
                                      /\ teacher'[t].phone = IF row.phone = Blank THEN teacher[t].phone ELSE row.phone
<1>1. CASE row.teacher \notin DOMAIN teacher
  <2>1. teacher' = teacher
    BY <1>1 DEF syncTeacher
  <2> QED BY <1>1, <2>1 DEF RecordTypes
<1>2. CASE row.teacher \in DOMAIN teacher
  <2> DEFINE t == row.teacher
             edited == [teacher[t] EXCEPT !.name = row.name,
                                          !.phone = IF row.phone = Blank THEN teacher[t].phone ELSE row.phone]
  <2>1. teacher' = [teacher EXCEPT ![t] = edited]
    BY <1>2 DEF syncTeacher
  <2>2. teacher[t] \in TeacherRows
    BY <1>2 DEF RecordTypes, Table
  <2>3. /\ edited \in TeacherRows /\ edited.active = teacher[t].active /\ edited.instrument = teacher[t].instrument
        /\ edited.name = row.name /\ edited.phone = IF row.phone = Blank THEN teacher[t].phone ELSE row.phone
    BY <2>2 DEF TeacherRows, UserRows
  <2>4. t \in DOMAIN teacher /\ t = row.teacher
    BY <1>2
  <2> HIDE DEF edited, t
  <2> QED BY <2>1, <2>3, <2>4 DEF RecordTypes, Table
<1> QED BY <1>1, <1>2

LEMMA CreateUserKeeps ==
    ASSUME AcademyInv, NEW u \in Users, NEW name \in Names, NEW email \in Emails, createUser(u, name, email)
    PROVE AcademyInv'
<1> USE DEF AcademyInv, AcademyHolds
<1> DEFINE fresh == [name |-> name, phone |-> Blank, email |-> email, active |-> TRUE, teacher |-> Blank]
<1>1. fresh \in UserRows /\ fresh.teacher = Blank /\ fresh.email = email
  BY DEF UserRows
<1> HIDE DEF fresh
<1>2. /\ UNCHANGED <<student, teacher, room, class, seat, instrument, passphrase, reopened, used>>
      /\ changes' \in 0 .. MaxChanges /\ user' = With(user, u, fresh) /\ u \notin DOMAIN user
      /\ \A x \in DOMAIN user : x # Blank => user[x].email # email
  BY Counted DEF createUser, PeopleOnly, Keeps, Unused, emailTaken, fresh
<1>3. /\ Table(user', Users, UserRows) /\ DOMAIN user' = DOMAIN user \cup {u}
      /\ user'[u] = fresh /\ \A x \in DOMAIN user : x # Blank /\ user'[x] = user[x]
  BY <1>1, <1>2, KindsDiffer DEF Table, With, RecordTypes
<1>4. RecordTypes'
  BY <1>2, <1>3 DEF RecordTypes
<1>5. UsedAreGone' /\ LinksAreKnown'
  BY <1>1, <1>2, <1>3 DEF UsedAreGone, LinksAreKnown
<1>6. Blank \notin DOMAIN teacher
  BY KindsDiffer DEF RecordTypes, Table
<1>7. OnePersonOneName'
  BY <1>1, <1>2, <1>3, <1>6 DEF OnePersonOneName, ContractEnded
<1>8. RecordsKeepTheirParents'
  <2>1. \A j : findReference(j)' <=> findReference(j)
    BY <1>2 DEF findReference
  <2> QED BY <2>1, <1>1, <1>2, <1>3 DEF RecordsKeepTheirParents
<1> QED BY <1>2, <1>4, <1>5, <1>7, <1>8, SeatsFrame

LEMMA UpdateUserKeeps ==
    ASSUME AcademyInv, NEW u \in Users, NEW name \in Names, NEW phone \in Phones \cup {Blank}, NEW email \in Emails,
           NEW on \in BOOLEAN, updateUser(u, name, phone, email, on)
    PROVE AcademyInv'
<1> USE DEF AcademyInv, AcademyHolds
<1> DEFINE edited == [user[u] EXCEPT !.name = name, !.phone = phone, !.email = email, !.active = on]
           EndedAfter(x) == x # Blank /\ (x \notin DOMAIN teacher' \/ ~teacher'[x].active)
<1>1. /\ UNCHANGED <<student, room, class, seat, instrument, passphrase, used>>
      /\ changes' \in 0 .. MaxChanges /\ u \in DOMAIN user /\ user' = [user EXCEPT ![u] = edited]
      /\ teacher' = syncTeacher(user'[u])
      /\ \A x \in DOMAIN user : x # u => user[x].email # email
      /\ reopened' = IF ~on THEN reopened \ {u}
                     ELSE IF ~user[u].active /\ ContractEnded(user[u].teacher) THEN reopened \cup {u} ELSE reopened
  BY Counted DEF updateUser, PeopleOnly, Keeps, emailTaken
<1>2. user[u] \in UserRows
  BY <1>1 DEF RecordTypes, Table
<1>3. /\ edited \in UserRows /\ edited.name = name /\ edited.phone = phone /\ edited.email = email
      /\ edited.active = on /\ edited.teacher = user[u].teacher
  BY <1>2 DEF UserRows
<1> HIDE DEF edited
<1>4. /\ Table(user', Users, UserRows) /\ DOMAIN user' = DOMAIN user
      /\ user'[u] = edited /\ \A x \in DOMAIN user : x # u => user'[x] = user[x]
  BY <1>1, <1>3 DEF Table, RecordTypes
<1>5. /\ Table(teacher', Teachers, TeacherRows) /\ DOMAIN teacher' = DOMAIN teacher
      /\ \A t \in DOMAIN teacher :
            /\ t # edited.teacher => teacher'[t] = teacher[t]
            /\ teacher'[t].active = teacher[t].active /\ teacher'[t].instrument = teacher[t].instrument
            /\ t = edited.teacher => /\ teacher'[t].name = edited.name
                                     /\ teacher'[t].phone = IF edited.phone = Blank THEN teacher[t].phone ELSE edited.phone
  BY <1>1, <1>3, <1>4, SyncTeacherShape
<1>6. RecordTypes'
  BY <1>1, <1>4, <1>5 DEF RecordTypes
<1>7. UsedAreGone' /\ LinksAreKnown'
  BY <1>1, <1>3, <1>4, <1>5 DEF UsedAreGone, LinksAreKnown
<1>8. OnePersonOneName'
  <2> SUFFICES ASSUME NEW v \in DOMAIN user,
                      NEW k, k = user[v].teacher
               PROVE /\ k \in DOMAIN teacher' => user'[v].name = teacher'[k].name /\ user'[v].phone \in {Blank, teacher'[k].phone}
                     /\ EndedAfter(k) /\ user'[v].active => v \in reopened'
    BY <1>3, <1>4 DEF OnePersonOneName, ContractEnded
  <2>1. EndedAfter(k) <=> ContractEnded(k)
    BY <1>5 DEF ContractEnded
  <2>2. ContractEnded(k) /\ user[v].active => v \in reopened
    BY DEF OnePersonOneName
  <2> HIDE DEF EndedAfter
  <2>3. CASE v = u
    <3>1. k \in DOMAIN teacher' => user'[v].name = teacher'[k].name /\ user'[v].phone \in {Blank, teacher'[k].phone}
      BY <2>3, <1>3, <1>4, <1>5
    <3>2. EndedAfter(k) /\ user'[v].active => v \in reopened'
      BY <2>1, <2>2, <2>3, <1>1, <1>3, <1>4
    <3> QED BY <3>1, <3>2
  <2>4. CASE v # u
    <3>1. k \in DOMAIN teacher => teacher'[k] = teacher[k]
      <4>1. Blank \notin DOMAIN teacher
        BY KindsDiffer DEF RecordTypes, Table
      <4>2. k = edited.teacher => k = Blank
        BY <2>4, <1>1, <1>3 DEF LinksAreKnown
      <4> QED BY <4>1, <4>2, <1>5
    <3>2. user'[v] = user[v] /\ v \in reopened => v \in reopened'
      BY <2>4, <1>1
    <3> QED BY <2>1, <2>2, <2>4, <3>1, <3>2, <1>4, <1>5 DEF OnePersonOneName
  <2> QED BY <2>3, <2>4
<1>9. RecordsKeepTheirParents'
  <2>1. \A j : findReference(j)' <=> findReference(j)
    BY <1>1, <1>5 DEF findReference
  <2> QED BY <2>1, <1>1, <1>3, <1>4, <1>5 DEF RecordsKeepTheirParents
<1> QED BY <1>1, <1>6, <1>7, <1>8, <1>9, SeatsFrame

LEMMA UsersKeep ==
    ASSUME AcademyInv, NEW u \in Users, NEW own \in BOOLEAN, deleteUser(u) \/ setPassword(u, own)
    PROVE AcademyInv'
<1> USE DEF AcademyInv, AcademyHolds
<1>1. UNCHANGED <<student, teacher, room, class, seat, instrument>> /\ changes' \in 0 .. MaxChanges
  BY Counted DEF deleteUser, setPassword, PeopleOnly, Keeps, Removes
<1>2. /\ Table(user', Users, UserRows) /\ DOMAIN user' \subseteq DOMAIN user
      /\ \A x \in DOMAIN user' : user'[x] = user[x] /\ (x \in reopened => x \in reopened')
      /\ reopened' \subseteq reopened /\ passphrase' \subseteq DOMAIN user'
      /\ used \subseteq used' /\ used' \subseteq used \cup {u}
  <2>1. CASE deleteUser(u)
    BY <2>1 DEF deleteUser, Removes, Table, Less, RecordTypes, RecordsKeepTheirParents
  <2>2. CASE setPassword(u, own)
    BY <2>2 DEF setPassword, Keeps, RecordTypes, RecordsKeepTheirParents, Table
  <2> QED BY <2>1, <2>2
<1>3. RecordTypes'
  BY <1>1, <1>2 DEF RecordTypes
<1>4. UsedAreGone' /\ LinksAreKnown'
  BY <1>1, <1>2, KindsDiffer DEF UsedAreGone, LinksAreKnown, RecordTypes, Table
<1>5. OnePersonOneName'
  BY <1>1, <1>2 DEF OnePersonOneName, ContractEnded
<1>6. RecordsKeepTheirParents'
  <2>1. \A j : findReference(j)' <=> findReference(j)
    BY <1>1 DEF findReference
  <2> QED BY <2>1, <1>1, <1>2 DEF RecordsKeepTheirParents
<1> QED BY <1>1, <1>3, <1>4, <1>5, <1>6, SeatsFrame

-----------------------------------------------------------------------------
(* Classes and their seats.                                                *)

LEMMA SeatsCounted ==
    ASSUME RecordTypes, NEW c, NEW status
    PROVE SeatsOf(c, status) \subseteq DOMAIN seat /\ IsFiniteSet(SeatsOf(c, status)) /\ Cardinality(SeatsOf(c, status)) \in Nat
<1>1. SeatsOf(c, status) \subseteq DOMAIN seat /\ DOMAIN seat \subseteq Seats
  BY DEF SeatsOf, RecordTypes, Table
<1>2. IsFiniteSet(SeatsOf(c, status))
  BY <1>1, FS_Subset, AcademyAssumption
<1> QED BY <1>1, <1>2, FS_CardinalityType

(* After a write the class has a teacher, a room, an instrument and its     *)
(* seats, and says of them what it said: nothing, when it is new.          *)
RowFits(k) ==
    /\ class'[k].teacher \in DOMAIN teacher /\ class'[k].room \in DOMAIN room
    /\ class'[k].instrument \in DOMAIN instrument /\ countActive(k) <= class'[k].capacity
    /\ \/ /\ k \in DOMAIN class /\ class'[k].enrolled = class[k].enrolled
          /\ class'[k].waitlist = class[k].waitlist /\ class'[k].studentIds = class[k].studentIds
       \/ /\ k \notin DOMAIN class /\ class'[k].enrolled = 0
          /\ class'[k].waitlist = 0 /\ class'[k].studentIds = {}

LEMMA ClassWritten ==
    ASSUME AcademyInv, UNCHANGED <<seat, student, teacher, room, user, instrument, passphrase, reopened>>,
           changes' \in 0 .. MaxChanges, Table(class', Classes, ClassRows),
           used \subseteq used', used' \subseteq used \cup Classes, used' \cap DOMAIN class' = {},
           \A e \in DOMAIN seat : seat[e].class \in DOMAIN class',
           \A k \in DOMAIN class' : RowFits(k)
    PROVE AcademyInv'
<1> USE DEF AcademyInv, AcademyHolds
<1>1. RecordTypes'
  BY DEF RecordTypes
<1>2. UsedAreGone'
  BY KindsDiffer DEF UsedAreGone, RecordTypes, Table
<1>3. ASSUME NEW k, NEW status PROVE SeatsOf(k, status)' = SeatsOf(k, status)
  BY DEF SeatsOf
<1>4. ASSUME NEW k PROVE countActive(k)' = countActive(k)
  BY <1>3 DEF countActive
<1>5. ASSUME NEW k, k \notin DOMAIN class, NEW status PROVE SeatsOf(k, status) = {}
  BY <1>5 DEF SeatsOf, RecordsKeepTheirParents
<1>6. SeatsHold'
  <2> SUFFICES ASSUME NEW k \in DOMAIN class'
               PROVE /\ countActive(k) <= class'[k].capacity
                     /\ \A d, e \in SeatsOf(k, "active") \cup SeatsOf(k, "waitlist") : seat[d].student = seat[e].student => d = e
    BY <1>3, <1>4 DEF SeatsHold
  <2>1. CASE k \in DOMAIN class
    BY <2>1 DEF SeatsHold, RowFits
  <2>2. CASE k \notin DOMAIN class
    BY <2>2, <1>5 DEF RowFits
  <2> QED BY <2>1, <2>2
<1>7. ProjectionsAgree'
  <2>1. ASSUME NEW k \in DOMAIN class'
        PROVE /\ class'[k].enrolled = Cardinality(SeatsOf(k, "active"))
              /\ class'[k].waitlist = Cardinality(SeatsOf(k, "waitlist"))
              /\ class'[k].studentIds = {seat'[e].student : e \in SeatsOf(k, "active")}
    <3>1. CASE k \in DOMAIN class
      BY <3>1 DEF ProjectionsAgree, countActive, RowFits
    <3>2. CASE k \notin DOMAIN class
      <4>1. SeatsOf(k, "active") = {} /\ SeatsOf(k, "waitlist") = {}
        BY <3>2, <1>5
      <4> QED BY <3>2, <4>1, FS_EmptySet DEF RowFits
    <3> QED BY <3>1, <3>2
  <2> QED BY <2>1, <1>3, <1>4 DEF ProjectionsAgree, countActive
<1>8. RecordsKeepTheirParents'
  <2>1. \A j : findReference(j)' => findReference(j) \/ j \in DOMAIN instrument
    BY DEF findReference, RowFits
  <2> QED BY <2>1 DEF RecordsKeepTheirParents, RowFits
<1> QED BY <1>1, <1>2, <1>6, <1>7, <1>8, PeopleFrame

LEMMA ClassesKeep ==
    ASSUME AcademyInv, NEW c \in Classes,
           \/ \E t \in Teachers, r \in Rooms, n \in Capacities :
                 \/ \E i \in Instruments : createClass(c, t, r, n, i)
                 \/ \E archived \in BOOLEAN : updateClass(c, t, r, n, archived)
           \/ archive(c) \/ deleteClass(c)
    PROVE AcademyInv'
<1> USE DEF AcademyInv, AcademyHolds
<1>1. /\ UNCHANGED <<seat, student, teacher, room, user, instrument, passphrase, reopened>>
      /\ changes' \in 0 .. MaxChanges
  BY Counted DEF createClass, updateClass, archive, deleteClass, ClassesOnly, Keeps, Removes
<1>3. ASSUME NEW k \in DOMAIN class
      PROVE /\ class[k] \in ClassRows /\ class[k].teacher \in DOMAIN teacher /\ class[k].room \in DOMAIN room
            /\ class[k].instrument \in DOMAIN instrument /\ countActive(k) <= class[k].capacity
  <2>1. class[k] \in ClassRows
    BY DEF RecordTypes, Table
  <2>2. findReference(class[k].instrument)
    BY DEF findReference
  <2> QED BY <2>1, <2>2 DEF ClassRows, RecordsKeepTheirParents, SeatsHold
<1>4. \A e \in DOMAIN seat : seat[e].class \in DOMAIN class
  BY DEF RecordsKeepTheirParents
<1>5. ASSUME NEW t \in Teachers, NEW r \in Rooms, NEW n \in Capacities, NEW i \in Instruments, createClass(c, t, r, n, i)
      PROVE AcademyInv'
  <2> DEFINE fresh == ClassRow(t, r, n, i)
  <2>1. /\ fresh \in ClassRows /\ fresh.teacher = t /\ fresh.room = r /\ fresh.instrument = i /\ fresh.capacity = n
        /\ fresh.enrolled = 0 /\ fresh.waitlist = 0 /\ fresh.studentIds = {}
    BY AcademyAssumption DEF ClassRow, ClassRows
  <2> HIDE DEF fresh
  <2>2. class' = With(class, c, fresh) /\ used' = used /\ c \notin DOMAIN class \cup used /\ i \in DOMAIN instrument
    BY <1>5 DEF createClass, Keeps, Unused, fresh
  <2>3. t \in DOMAIN teacher /\ r \in DOMAIN room
    BY <1>5, <2>1 DEF createClass, validateRelations, fresh
  <2>4. /\ Table(class', Classes, ClassRows) /\ DOMAIN class' = DOMAIN class \cup {c}
        /\ class'[c] = fresh /\ \A x \in DOMAIN class : class'[x] = class[x]
    BY <2>1, <2>2 DEF Table, With, RecordTypes
  <2>5. countActive(c) = 0
    <3>1. SeatsOf(c, "active") = {}
      BY <1>4, <2>2 DEF SeatsOf
    <3> QED BY <3>1, FS_EmptySet DEF countActive
  <2>6. 0 <= n
    BY AcademyAssumption
  <2>7. used' \cap DOMAIN class' = {}
    BY <2>2, <2>4 DEF UsedAreGone
  <2>8. \A k \in DOMAIN class' : RowFits(k)
    BY <1>3, <2>1, <2>2, <2>3, <2>4, <2>5, <2>6 DEF RowFits
  <2> QED BY <1>1, <1>4, <2>2, <2>4, <2>7, <2>8, ClassWritten
<1>6. ASSUME NEW t \in Teachers, NEW r \in Rooms, NEW n \in Capacities, NEW archived \in BOOLEAN,
             updateClass(c, t, r, n, archived)
      PROVE AcademyInv'
  <2> DEFINE row == [class[c] EXCEPT !.teacher = t, !.room = r, !.capacity = n, !.archived = archived]
  <2>1. c \in DOMAIN class /\ class' = [class EXCEPT ![c] = row] /\ used' = used /\ n >= countActive(c) /\ validateRelations(row)
    BY <1>6 DEF updateClass, Keeps
  <2>2. /\ row \in ClassRows /\ row.teacher = t /\ row.room = r /\ row.instrument = class[c].instrument /\ row.capacity = n
        /\ row.enrolled = class[c].enrolled /\ row.waitlist = class[c].waitlist /\ row.studentIds = class[c].studentIds
    BY <2>1, <1>3, AcademyAssumption DEF ClassRows
  <2>3. t \in DOMAIN teacher /\ r \in DOMAIN room
    BY <2>1, <2>2 DEF validateRelations
  <2> HIDE DEF row
  <2>4. /\ Table(class', Classes, ClassRows) /\ DOMAIN class' = DOMAIN class
        /\ class'[c] = row /\ \A x \in DOMAIN class : x # c => class'[x] = class[x]
    BY <2>1, <2>2 DEF Table, RecordTypes
  <2>5. countActive(c) <= n
    BY <2>1, SeatsCounted, AcademyAssumption DEF countActive
  <2>6. used' \cap DOMAIN class' = {}
    BY <2>1, <2>4 DEF UsedAreGone
  <2>7. \A k \in DOMAIN class' : RowFits(k)
    BY <1>3, <2>1, <2>2, <2>3, <2>4, <2>5 DEF RowFits
  <2> QED BY <1>1, <1>4, <2>1, <2>4, <2>6, <2>7, ClassWritten
<1>7. CASE archive(c)
  <2> DEFINE row == [class[c] EXCEPT !.archived = TRUE]
  <2>1. c \in DOMAIN class /\ class' = [class EXCEPT ![c] = row] /\ used' = used
    BY <1>7 DEF archive, Keeps
  <2>2. /\ row \in ClassRows /\ row.teacher = class[c].teacher /\ row.room = class[c].room
        /\ row.instrument = class[c].instrument /\ row.capacity = class[c].capacity
        /\ row.enrolled = class[c].enrolled /\ row.waitlist = class[c].waitlist /\ row.studentIds = class[c].studentIds
    BY <2>1, <1>3 DEF ClassRows
  <2> HIDE DEF row
  <2>3. /\ Table(class', Classes, ClassRows) /\ DOMAIN class' = DOMAIN class
        /\ class'[c] = row /\ \A x \in DOMAIN class : x # c => class'[x] = class[x]
    BY <2>1, <2>2 DEF Table, RecordTypes
  <2>4. used' \cap DOMAIN class' = {}
    BY <2>1, <2>3 DEF UsedAreGone
  <2>5. \A k \in DOMAIN class' : RowFits(k)
    BY <1>3, <2>1, <2>2, <2>3 DEF RowFits
  <2> QED BY <1>1, <1>4, <2>1, <2>3, <2>4, <2>5, ClassWritten
<1>8. CASE deleteClass(c)
  <2>1. /\ Table(class', Classes, ClassRows) /\ DOMAIN class' \subseteq DOMAIN class
        /\ \A x \in DOMAIN class' : class'[x] = class[x]
        /\ used \subseteq used' /\ used' \subseteq used \cup Classes /\ used' \cap DOMAIN class' = {}
        /\ \A e \in DOMAIN seat : seat[e].class \in DOMAIN class'
    BY <1>8, <1>4 DEF deleteClass, Removes, Table, Less, RecordTypes, UsedAreGone
  <2>2. \A k \in DOMAIN class' : RowFits(k)
    BY <1>3, <2>1 DEF RowFits
  <2> QED BY <1>1, <2>1, <2>2, ClassWritten
<1> QED BY <1>5, <1>6, <1>7, <1>8

(* A write of one class's seats: the class repeats them, the others keep   *)
(* theirs.                                                                 *)
LEMMA SeatWritten ==
    ASSUME AcademyInv, NEW c \in DOMAIN class, Seated(c), changes' \in 0 .. MaxChanges,
           Table(seat', Seats, SeatRows), used \subseteq used', used' \subseteq used \cup Seats,
           \A e \in DOMAIN seat' : \/ seat'[e].class = c
                                   \/ e \in DOMAIN seat /\ seat'[e] = seat[e] /\ seat[e].class # c,
           \A e \in DOMAIN seat : seat[e].class # c => e \in DOMAIN seat' /\ seat'[e] = seat[e],
           countActive(c)' <= class[c].capacity,
           \A d, e \in SeatsOf(c, "active")' \cup SeatsOf(c, "waitlist")' : seat'[d].student = seat'[e].student => d = e
    PROVE AcademyInv'
<1> USE DEF AcademyInv, AcademyHolds
<1> DEFINE of(status) == {e \in DOMAIN seat' : seat'[e].class = c /\ seat'[e].status = status}
           row == [class[c] EXCEPT !.enrolled = Cardinality(of("active")), !.waitlist = Cardinality(of("waitlist")),
                                   !.studentIds = {seat'[e].student : e \in of("active")}]
<1>1. /\ UNCHANGED <<student, teacher, room, user, instrument, passphrase, reopened>>
      /\ class' = [k \in DOMAIN class |-> IF k # c THEN class[k] ELSE row]
  BY DEF Seated, syncClassProjection, ClassesOnly
<1>2. ASSUME NEW status PROVE of(status) = SeatsOf(c, status)'
  BY DEF SeatsOf
<1>3. ASSUME NEW status PROVE Cardinality(of(status)) \in Nat
  <2>1. of(status) \subseteq Seats
    BY DEF Table
  <2>2. IsFiniteSet(of(status))
    BY <2>1, FS_Subset, AcademyAssumption
  <2> HIDE DEF of
  <2> QED BY <2>2, FS_CardinalityType
<1>4. {seat'[e].student : e \in of("active")} \subseteq Students
  BY DEF Table, SeatRows
<1>5. class[c] \in ClassRows
  BY DEF RecordTypes, Table
<1>6. /\ row \in ClassRows /\ row.teacher = class[c].teacher /\ row.room = class[c].room
      /\ row.instrument = class[c].instrument /\ row.capacity = class[c].capacity
      /\ row.enrolled = Cardinality(of("active")) /\ row.waitlist = Cardinality(of("waitlist"))
      /\ row.studentIds = {seat'[e].student : e \in of("active")}
  <2> HIDE DEF of
  <2> DEFINE A == Cardinality(of("active"))
             W == Cardinality(of("waitlist"))
             who == {seat'[e].student : e \in of("active")}
  <2>1. A \in Nat /\ W \in Nat /\ who \in SUBSET Students
    BY <1>3, <1>4
  <2>2. row = [class[c] EXCEPT !.enrolled = A, !.waitlist = W, !.studentIds = who]
    OBVIOUS
  <2> HIDE DEF A, W, who, row
  <2>3. /\ row \in ClassRows /\ row.teacher = class[c].teacher /\ row.room = class[c].room
        /\ row.instrument = class[c].instrument /\ row.capacity = class[c].capacity
        /\ row.enrolled = A /\ row.waitlist = W /\ row.studentIds = who
    BY <1>5, <2>1, <2>2 DEF ClassRows
  <2> QED BY <2>3 DEF A, W, who
<1> HIDE DEF row
<1>7. /\ Table(class', Classes, ClassRows) /\ DOMAIN class' = DOMAIN class
      /\ class'[c] = row /\ \A k \in DOMAIN class : k # c => class'[k] = class[k]
  BY <1>1, <1>6 DEF RecordTypes, Table
<1>8. ASSUME NEW k, k # c, NEW status PROVE SeatsOf(k, status)' = SeatsOf(k, status)
  BY <1>8 DEF SeatsOf
<1>9. ASSUME NEW k, k # c PROVE countActive(k)' = countActive(k)
  BY <1>8, <1>9 DEF countActive
<1>10. RecordTypes'
  BY <1>1, <1>7 DEF RecordTypes
<1>11. UsedAreGone'
  BY <1>1, <1>7, KindsDiffer DEF UsedAreGone, RecordTypes, Table
<1>12. SeatsHold'
  <2> SUFFICES ASSUME NEW k \in DOMAIN class
               PROVE /\ countActive(k)' <= class'[k].capacity
                     /\ \A d, e \in SeatsOf(k, "active")' \cup SeatsOf(k, "waitlist")' : seat'[d].student = seat'[e].student => d = e
    BY <1>7 DEF SeatsHold
  <2>1. CASE k = c
    BY <2>1, <1>6, <1>7
  <2>2. CASE k # c
    <3>1. countActive(k)' = countActive(k) /\ class'[k] = class[k]
      BY <2>2, <1>7, <1>9
    <3>2. SeatsOf(k, "active")' = SeatsOf(k, "active") /\ SeatsOf(k, "waitlist")' = SeatsOf(k, "waitlist")
      BY <2>2, <1>8
    <3>3. \A e \in SeatsOf(k, "active") \cup SeatsOf(k, "waitlist") : seat'[e] = seat[e]
      BY <2>2 DEF SeatsOf
    <3> QED BY <3>1, <3>2, <3>3 DEF SeatsHold
  <2> QED BY <2>1, <2>2
<1>13. ProjectionsAgree'
  <2> SUFFICES ASSUME NEW k \in DOMAIN class
               PROVE /\ class'[k].enrolled = Cardinality(SeatsOf(k, "active")')
                     /\ class'[k].waitlist = Cardinality(SeatsOf(k, "waitlist")')
                     /\ class'[k].studentIds = {seat'[e].student : e \in SeatsOf(k, "active")'}
    BY <1>7 DEF ProjectionsAgree, countActive
  <2>1. CASE k = c
    <3>1. of("active") = SeatsOf(k, "active")' /\ of("waitlist") = SeatsOf(k, "waitlist")'
      BY <2>1, <1>2
    <3> HIDE DEF of
    <3> QED BY <2>1, <3>1, <1>6, <1>7
  <2>2. CASE k # c
    <3>1. SeatsOf(k, "active")' = SeatsOf(k, "active") /\ SeatsOf(k, "waitlist")' = SeatsOf(k, "waitlist")
      BY <2>2, <1>8
    <3>2. \A e \in SeatsOf(k, "active") : seat'[e] = seat[e]
      BY <2>2 DEF SeatsOf
    <3>3. class'[k] = class[k]
      BY <2>2, <1>7
    <3> QED BY <3>1, <3>2, <3>3 DEF ProjectionsAgree, countActive
  <2> QED BY <2>1, <2>2
<1>14. RecordsKeepTheirParents'
  <2>1. ASSUME NEW k \in DOMAIN class
        PROVE /\ class'[k].teacher = class[k].teacher /\ class'[k].room = class[k].room
              /\ class'[k].instrument = class[k].instrument
    BY <1>6, <1>7
  <2>2. \A j : findReference(j)' <=> findReference(j)
    BY <2>1, <1>1, <1>7 DEF findReference
  <2>3. \A e \in DOMAIN seat' : seat'[e].class \in DOMAIN class
    BY DEF RecordsKeepTheirParents
  <2> QED BY <2>1, <2>2, <2>3, <1>1, <1>7 DEF RecordsKeepTheirParents
<1> QED BY <1>1, <1>10, <1>11, <1>12, <1>13, <1>14, PeopleFrame

(* One seat more is one more at most.                                      *)
LEMMA OneSeatMore ==
    ASSUME RecordTypes, NEW c, NEW e, SeatsOf(c, "active")' \subseteq SeatsOf(c, "active") \cup {e}
    PROVE countActive(c)' <= countActive(c) + 1 /\ countActive(c) \in Nat /\ countActive(c)' \in Nat
<1> DEFINE S == SeatsOf(c, "active")
           T == SeatsOf(c, "active")'
<1>1. IsFiniteSet(S) /\ Cardinality(S) \in Nat
  BY SeatsCounted
<1>2. T \subseteq S \cup {e}
  OBVIOUS
<1>3. countActive(c)' = Cardinality(T) /\ countActive(c) = Cardinality(S)
  BY DEF countActive
<1> HIDE DEF S, T
<1>4. IsFiniteSet(S \cup {e}) /\ Cardinality(S \cup {e}) <= Cardinality(S) + 1 /\ Cardinality(S \cup {e}) \in Nat
  BY <1>1, FS_AddElement, FS_CardinalityType
<1>5. IsFiniteSet(T) /\ Cardinality(T) <= Cardinality(S \cup {e}) /\ Cardinality(T) \in Nat
  BY <1>2, <1>4, FS_Subset, FS_CardinalityType
<1> QED BY <1>1, <1>3, <1>4, <1>5

LEMMA EnrollKeeps ==
    ASSUME AcademyInv, NEW e \in Seats, NEW s \in Students, NEW c \in Classes, NEW status \in {"active", "waitlist"},
           enroll(e, s, c, status)
    PROVE AcademyInv'
<1> DEFINE fresh == [student |-> s, class |-> c, status |-> status]
<1>1. fresh \in SeatRows /\ fresh.student = s /\ fresh.class = c /\ fresh.status = status
  BY DEF SeatRows
<1> HIDE DEF fresh
<1>2. /\ c \in DOMAIN class /\ Seated(c) /\ seat' = With(seat, e, fresh) /\ used' = used /\ e \notin DOMAIN seat
      /\ \A d \in SeatsOf(c, "active") \cup SeatsOf(c, "waitlist") : seat[d].student # s
      /\ status = "active" => countActive(c) < class[c].capacity
  BY DEF enroll, Keeps, Unused, fresh
<1>3. changes' \in 0 .. MaxChanges
  BY Counted DEF enroll, Keeps, AcademyInv
<1>4. /\ Table(seat', Seats, SeatRows) /\ DOMAIN seat' = DOMAIN seat \cup {e}
      /\ seat'[e] = fresh /\ \A x \in DOMAIN seat : seat'[x] = seat[x]
  BY <1>1, <1>2 DEF Table, With, RecordTypes, AcademyInv
<1>5. \A x \in SeatsOf(c, "active")' : x = e \/ x \in SeatsOf(c, "active")
  BY <1>4 DEF SeatsOf
<1>6. \A x \in SeatsOf(c, "waitlist")' : x = e \/ x \in SeatsOf(c, "waitlist")
  BY <1>4 DEF SeatsOf
<1>7. countActive(c)' <= class[c].capacity
  <2>1. /\ class[c].capacity \in Nat /\ countActive(c) <= class[c].capacity
    BY <1>2 DEF AcademyInv, RecordTypes, Table, ClassRows, AcademyHolds, SeatsHold
  <2>2. countActive(c)' <= countActive(c) + 1 /\ countActive(c) \in Nat /\ countActive(c)' \in Nat
    <3>1. SeatsOf(c, "active")' \subseteq SeatsOf(c, "active") \cup {e}
      BY <1>5
    <3> QED BY <3>1, OneSeatMore DEF AcademyInv
  <2>3. CASE status = "active"
    BY <2>1, <2>2, <2>3, <1>2
  <2>4. CASE status # "active"
    <3>1. SeatsOf(c, "active")' = SeatsOf(c, "active")
      BY <2>4, <1>1, <1>2, <1>4 DEF SeatsOf
    <3> QED BY <2>1, <3>1 DEF countActive
  <2> QED BY <2>3, <2>4
<1>8. \A x \in SeatsOf(c, "active") \cup SeatsOf(c, "waitlist") : x \in DOMAIN seat /\ seat'[x] = seat[x]
  BY <1>4 DEF SeatsOf
<1>9. \A x, y \in SeatsOf(c, "active")' \cup SeatsOf(c, "waitlist")' : seat'[x].student = seat'[y].student => x = y
  <2>1. \A x, y \in SeatsOf(c, "active") \cup SeatsOf(c, "waitlist") : seat[x].student = seat[y].student => x = y
    BY <1>2 DEF AcademyInv, AcademyHolds, SeatsHold
  <2> SUFFICES ASSUME NEW x \in SeatsOf(c, "active")' \cup SeatsOf(c, "waitlist")',
                      NEW y \in SeatsOf(c, "active")' \cup SeatsOf(c, "waitlist")', seat'[x].student = seat'[y].student
               PROVE x = y
    OBVIOUS
  <2>2. x = e \/ x \in SeatsOf(c, "active") \cup SeatsOf(c, "waitlist")
    BY <1>5, <1>6
  <2>3. y = e \/ y \in SeatsOf(c, "active") \cup SeatsOf(c, "waitlist")
    BY <1>5, <1>6
  <2> QED BY <2>1, <2>2, <2>3, <1>1, <1>2, <1>4, <1>8
<1> QED BY <1>2, <1>3, <1>4, <1>7, <1>9, SeatWritten, <1>1

LEMMA SeatsKeep ==
    ASSUME AcademyInv, NEW e \in Seats, NEW status \in {"active", "waitlist", "completed", "cancelled"},
           updateSeat(e, status) \/ withdraw(e) \/ deleteSeat(e)
    PROVE AcademyInv'
<1> SUFFICES ASSUME NEW c, c = seat[e].class PROVE AcademyInv'
  OBVIOUS
<1> DEFINE open == SeatsOf(c, "active") \cup SeatsOf(c, "waitlist")
<1>1. e \in DOMAIN seat /\ Seated(c)
  <2>1. CASE updateSeat(e, status)
    BY <2>1 DEF updateSeat
  <2>2. CASE withdraw(e)
    BY <2>2 DEF withdraw
  <2>3. CASE deleteSeat(e)
    BY <2>3 DEF deleteSeat
  <2> QED BY <2>1, <2>2, <2>3
<1>2. seat[e] \in SeatRows /\ c \in DOMAIN class /\ class[c].capacity \in Nat /\ countActive(c) <= class[c].capacity
  BY <1>1 DEF AcademyInv, RecordTypes, Table, ClassRows, AcademyHolds, SeatsHold, RecordsKeepTheirParents
<1>3. changes' \in 0 .. MaxChanges /\ used \subseteq used' /\ used' \subseteq used \cup Seats
  BY Counted DEF updateSeat, withdraw, deleteSeat, Keeps, Removes, AcademyInv
<1>4. /\ Table(seat', Seats, SeatRows) /\ DOMAIN seat' \subseteq DOMAIN seat
      /\ \A x \in DOMAIN seat : x # e => x \in DOMAIN seat' /\ seat'[x] = seat[x]
      /\ e \in DOMAIN seat' => /\ seat'[e].student = seat[e].student /\ seat'[e].class = c
                               /\ \/ seat'[e].status \notin {"active", "waitlist"}
                                  \/ /\ seat[e].status \in {"active", "waitlist"}
                                     /\ seat'[e].status = "active" => \/ seat[e].status = "active"
                                                                      \/ countActive(c) < class[c].capacity
  <2>1. CASE updateSeat(e, status)
    <3> DEFINE row == [seat[e] EXCEPT !.status = status]
    <3>1. seat' = [seat EXCEPT ![e] = row]
      BY <2>1 DEF updateSeat
    <3>2. row \in SeatRows /\ row.student = seat[e].student /\ row.class = c /\ row.status = status
      BY <1>2 DEF SeatRows
    <3>3. /\ seat[e].status \in {"active", "waitlist"}
          /\ status = "active" => seat[e].status = "active" \/ countActive(c) < class[c].capacity
      BY <2>1 DEF updateSeat
    <3> HIDE DEF row
    <3> QED BY <1>1, <3>1, <3>2, <3>3 DEF AcademyInv, RecordTypes, Table
  <2>2. CASE withdraw(e)
    <3> DEFINE row == [seat[e] EXCEPT !.status = "cancelled"]
    <3>1. seat' = [seat EXCEPT ![e] = row]
      BY <2>2 DEF withdraw
    <3>2. row \in SeatRows /\ row.student = seat[e].student /\ row.class = c /\ row.status = "cancelled"
      BY <1>2 DEF SeatRows
    <3> HIDE DEF row
    <3> QED BY <1>1, <3>1, <3>2 DEF AcademyInv, RecordTypes, Table
  <2>3. CASE deleteSeat(e)
    BY <2>3 DEF deleteSeat, Less, AcademyInv, RecordTypes, Table
  <2> QED BY <2>1, <2>2, <2>3
<1>5. \A x \in SeatsOf(c, "active")' : x = e \/ x \in SeatsOf(c, "active")
  BY <1>4 DEF SeatsOf
<1>6. /\ \A x \in SeatsOf(c, "active")' \cup SeatsOf(c, "waitlist")' : x \in open /\ seat'[x].student = seat[x].student
  BY <1>1, <1>4 DEF SeatsOf
<1>7. countActive(c)' <= class[c].capacity
  <2>1. countActive(c)' <= countActive(c) + 1 /\ countActive(c) \in Nat /\ countActive(c)' \in Nat
    <3>1. SeatsOf(c, "active")' \subseteq SeatsOf(c, "active") \cup {e}
      BY <1>5
    <3> QED BY <3>1, OneSeatMore DEF AcademyInv
  <2>2. CASE countActive(c) < class[c].capacity
    BY <2>1, <2>2, <1>2
  <2>3. CASE ~(countActive(c) < class[c].capacity)
    <3>1. SeatsOf(c, "active")' \subseteq SeatsOf(c, "active")
      BY <2>3, <1>1, <1>4, <1>5 DEF SeatsOf
    <3>2. IsFiniteSet(SeatsOf(c, "active"))
      BY SeatsCounted DEF AcademyInv
    <3>3. Cardinality(SeatsOf(c, "active")') <= Cardinality(SeatsOf(c, "active"))
      BY <3>1, <3>2, FS_Subset
    <3> QED BY <2>1, <3>3, <1>2 DEF countActive
  <2> QED BY <2>2, <2>3
<1>8. \A x, y \in SeatsOf(c, "active")' \cup SeatsOf(c, "waitlist")' : seat'[x].student = seat'[y].student => x = y
  <2>1. \A x, y \in open : seat[x].student = seat[y].student => x = y
    BY <1>2 DEF AcademyInv, AcademyHolds, SeatsHold
  <2> QED BY <2>1, <1>6
<1>9. \A x \in DOMAIN seat' : seat'[x].class = c \/ (x \in DOMAIN seat /\ seat'[x] = seat[x] /\ seat[x].class # c)
  BY <1>4
<1>10. \A x \in DOMAIN seat : seat[x].class # c => x \in DOMAIN seat' /\ seat'[x] = seat[x]
  BY <1>4
<1> QED BY <1>1, <1>2, <1>3, <1>4, <1>7, <1>8, <1>9, <1>10, SeatWritten

-----------------------------------------------------------------------------
(* The tables of sessions, obligations, pieces and assignments, by id.     *)
FilesTyped ==
    /\ DOMAIN lesson \subseteq Dated /\ DOMAIN debt \subseteq Dues /\ DOMAIN score \subseteq Scores
    /\ DOMAIN practice \subseteq Practices /\ logged \subseteq Practices

LEMMA AcademyStarts == AcademyInit => AcademyInv /\ FilesTyped
<1> SUFFICES ASSUME NEW s \in Students, NEW t \in Teachers, NEW r \in Rooms, NEW c \in Classes, NEW u \in Users,
                    NEW i \in Instruments, NEW e \in Seats, NEW l \in Dated, NEW name \in Names, NEW phone \in Phones,
                    NEW code \in Codes, NEW email \in Emails, NEW old,
                    AcademyStart(s, t, r, c, u, i, e, l, name, phone, code, email, old)
             PROVE AcademyInv /\ FilesTyped
  BY DEF AcademyInit
<1> DEFINE taught == [ClassRow(t, r, 1, i) EXCEPT !.enrolled = 1, !.studentIds = {s}]
           sat == [student |-> s, class |-> c, status |-> "active"]
<1>1. [code |-> code, instrument |-> i] \in StudentRows
  BY DEF StudentRows
<1>2. [name |-> name, phone |-> phone, active |-> TRUE, instrument |-> i] \in TeacherRows
  BY DEF TeacherRows
<1>3. [capacity |-> 1, active |-> TRUE] \in RoomRows
  BY DEF RoomRows
<1>4. [name |-> name, phone |-> phone, email |-> email, active |-> TRUE, teacher |-> t] \in UserRows
  BY DEF UserRows
<1>5. /\ taught \in ClassRows /\ taught.teacher = t /\ taught.room = r /\ taught.instrument = i /\ taught.capacity = 1
      /\ taught.enrolled = 1 /\ taught.waitlist = 0 /\ taught.studentIds = {s}
  BY DEF ClassRow, ClassRows
<1>6. sat \in SeatRows /\ sat.student = s /\ sat.class = c /\ sat.status = "active"
  BY DEF SeatRows
<1>7. DOMAIN <<>> = {}
  OBVIOUS
<1>8. /\ student = [x \in {s} |-> [code |-> code, instrument |-> i]]
      /\ teacher = [x \in {t} |-> [name |-> name, phone |-> phone, active |-> TRUE, instrument |-> i]]
      /\ room = [x \in {r} |-> [capacity |-> 1, active |-> TRUE]] /\ instrument = [x \in {i} |-> TRUE]
      /\ class = [x \in {c} |-> taught] /\ seat = [x \in {e} |-> sat]
      /\ user = [x \in {u} |-> [name |-> name, phone |-> phone, email |-> email, active |-> TRUE, teacher |-> t]]
      /\ passphrase = {} /\ reopened = {} /\ used = {} /\ changes = 0
  BY <1>7 DEF AcademyStart, With
<1>9. FilesTyped
  BY <1>7 DEF AcademyStart, With, FilesTyped
<1> HIDE DEF taught, sat
<1>10. RecordTypes
  BY <1>1, <1>2, <1>3, <1>4, <1>5, <1>6, <1>8, AcademyAssumption DEF RecordTypes, Table
<1>11. UsedAreGone /\ LinksAreKnown
  BY <1>8 DEF UsedAreGone, LinksAreKnown
<1>12. SeatsOf(c, "active") = {e} /\ SeatsOf(c, "waitlist") = {}
  BY <1>6, <1>8 DEF SeatsOf
<1>13. countActive(c) = 1
  BY <1>12, FS_Singleton DEF countActive
<1>14. DOMAIN class = {c} /\ class[c] = taught /\ DOMAIN seat = {e} /\ seat[e] = sat
  BY <1>8
<1>15. SeatsHold
  BY <1>5, <1>12, <1>13, <1>14 DEF SeatsHold
<1>16. ProjectionsAgree
  <2>1. {seat[x].student : x \in SeatsOf(c, "active")} = {s}
    BY <1>6, <1>12, <1>14
  <2> QED BY <2>1, <1>5, <1>12, <1>13, <1>14, FS_EmptySet DEF ProjectionsAgree
<1>17. OnePersonOneName
  BY <1>8 DEF OnePersonOneName, ContractEnded
<1>18. RecordsKeepTheirParents
  <2>1. \A j : findReference(j) => j = i
    BY <1>5, <1>8 DEF findReference
  <2> QED BY <2>1, <1>5, <1>6, <1>8 DEF RecordsKeepTheirParents
<1> QED BY <1>9, <1>10, <1>11, <1>15, <1>16, <1>17, <1>18 DEF AcademyInv, AcademyHolds

(* Sessions, obligations and pieces: the people, the rooms and the classes *)
(* stay as they are, and no id of theirs is used up.                       *)
LessonWrites(l) ==
    \/ \E t \in Teachers, r \in Rooms :
          \/ updateLesson(l, t, r) \/ \E c \in Classes : createLesson(l, c, t, r)
          \/ \E k \in Dated \ {l} : rescheduleLesson(l, k, t, r)
    \/ cancelLesson(l) \/ deleteLesson(l) \/ \E c \in Classes : generateSession(l, c)
ScoreWrites(p) == deleteScore(p) \/ \E i \in Instruments : createScore(p, i) \/ updateScore(p, i)
PracticeWrites(a) == logProgress(a) \/ deletePractice(a) \/ \E s \in Students, p \in Scores : assignScore(a, s, p)

LEMMA FilesCases ==
    FilesNext => \/ \E l \in Dated : LessonWrites(l)
                 \/ \E d \in Dues, l \in Dated, s \in Students : registerDebt(d, l, s)
                 \/ \E p \in Scores : ScoreWrites(p)
                 \/ \E a \in Practices : PracticeWrites(a)
BY DEF FilesNext, LessonWrites, ScoreWrites, PracticeWrites

LEMMA FilesFrame ==
    ASSUME FilesNext
    PROVE /\ FilesOnly /\ Changes /\ used \subseteq used' /\ used' \subseteq used \cup FileIds
<1>1. ASSUME NEW l \in Dated, LessonWrites(l)
      PROVE FilesOnly /\ Changes /\ used \subseteq used' /\ used' \subseteq used \cup FileIds
  BY <1>1 DEF LessonWrites, createLesson, updateLesson, rescheduleLesson, cancelLesson, deleteLesson, generateSession,
              LessonsOnly, Keeps, FileIds
<1>2. ASSUME NEW d \in Dues, NEW l \in Dated, NEW s \in Students, registerDebt(d, l, s)
      PROVE FilesOnly /\ Changes /\ used \subseteq used' /\ used' \subseteq used \cup FileIds
  BY <1>2 DEF registerDebt, Keeps
<1>3. ASSUME NEW p \in Scores, ScoreWrites(p)
      PROVE FilesOnly /\ Changes /\ used \subseteq used' /\ used' \subseteq used \cup FileIds
  BY <1>3 DEF ScoreWrites, createScore, updateScore, deleteScore, ScoresOnly, Keeps, Removes, FileIds
<1>4. ASSUME NEW a \in Practices, PracticeWrites(a)
      PROVE FilesOnly /\ Changes /\ used \subseteq used' /\ used' \subseteq used \cup FileIds
  BY <1>4 DEF PracticeWrites, assignScore, logProgress, deletePractice, Keeps, Removes, FileIds
<1> QED BY <1>1, <1>2, <1>3, <1>4, FilesCases

LEMMA FilesKeep == ASSUME AcademyInv, FilesNext PROVE AcademyInv'
<1> USE DEF AcademyInv, AcademyHolds
<1>1. /\ UNCHANGED <<student, teacher, room, class, seat, user, instrument, passphrase, reopened>>
      /\ changes' \in 0 .. MaxChanges /\ used \subseteq used' /\ used' \subseteq used \cup FileIds
  BY FilesFrame, Counted DEF FilesOnly
<1>2. RecordTypes'
  BY <1>1 DEF RecordTypes
<1>3. UsedAreGone'
  BY <1>1, FileIdsDiffer DEF UsedAreGone, RecordTypes, Table
<1>4. \A c \in DOMAIN class : class[c].room \in DOMAIN room'
  BY <1>1 DEF RecordsKeepTheirParents
<1> QED BY <1>1, <1>2, <1>3, <1>4, SeatsFrame, PeopleFrame, ParentsFrame

LEMMA AcademyKeeps == AcademyInv /\ [AcademyNext]_academyVars => AcademyInv'
<1> SUFFICES ASSUME AcademyInv, [AcademyNext]_academyVars PROVE AcademyInv'
  OBVIOUS
<1>1. CASE UNCHANGED academyVars
  <2> USE <1>1 DEF academyVars, AcademyInv, AcademyHolds
  <2>1. RecordTypes'
    BY DEF RecordTypes
  <2>2. UsedAreGone'
    BY DEF UsedAreGone
  <2>3. RecordsKeepTheirParents'
    BY DEF RecordsKeepTheirParents, findReference
  <2> QED BY <2>1, <2>2, <2>3, SeatsFrame, PeopleFrame
<1>2. CASE AcademyNext
  <2>1. ASSUME NEW r \in Rooms, NEW n \in Capacities, createRoom(r, n) \/ \E on \in BOOLEAN : updateRoom(r, n, on)
        PROVE AcademyInv'
    BY <2>1, RoomsKeep
  <2>2. ASSUME NEW r \in Rooms, deleteRoom(r) PROVE AcademyInv'
    BY <2>2, RoomsKeep
  <2>3. ASSUME NEW i \in Instruments,
               createInstrument(i) \/ deleteInstrument(i) \/ \E on \in BOOLEAN : setActive(i, on)
        PROVE AcademyInv'
    BY <2>3, InstrumentsKeep
  <2>4. ASSUME NEW s \in Students, NEW code \in Codes,
               updateStudent(s, code) \/ \E i \in Instruments : createStudent(s, code, i)
        PROVE AcademyInv'
    BY <2>4, StudentsKeep
  <2>5. ASSUME NEW s \in Students, deleteStudent(s) PROVE AcademyInv'
    BY <2>5, StudentsKeep
  <2>6. ASSUME NEW t \in Teachers, NEW name \in Names, NEW phone \in Phones,
               \/ \E i \in Instruments : createTeacher(t, name, phone, i)
               \/ \E on \in BOOLEAN : updateTeacher(t, name, phone, on)
        PROVE AcademyInv'
    BY <2>6, TeachersKeep
  <2>7. ASSUME NEW t \in Teachers, deactivate(t) \/ deleteTeacher(t) PROVE AcademyInv'
    BY <2>7, TeachersKeep, DeleteTeacherKeeps
  <2>8. ASSUME NEW u \in Users, NEW name \in Names, NEW email \in Emails,
               \/ createUser(u, name, email)
               \/ \E phone \in Phones \cup {Blank}, on \in BOOLEAN : updateUser(u, name, phone, email, on)
        PROVE AcademyInv'
    BY <2>8, CreateUserKeeps, UpdateUserKeeps
  <2>9. ASSUME NEW u \in Users, deleteUser(u) \/ \E own \in BOOLEAN : setPassword(u, own) PROVE AcademyInv'
    BY <2>9, UsersKeep
  <2>10. ASSUME NEW c \in Classes, NEW t \in Teachers, NEW r \in Rooms, NEW n \in Capacities,
                \/ \E i \in Instruments : createClass(c, t, r, n, i)
                \/ \E archived \in BOOLEAN : updateClass(c, t, r, n, archived)
         PROVE AcademyInv'
    BY <2>10, ClassesKeep
  <2>11. ASSUME NEW c \in Classes, archive(c) \/ deleteClass(c) PROVE AcademyInv'
    BY <2>11, ClassesKeep
  <2>12. ASSUME NEW e \in Seats, NEW s \in Students, NEW c \in Classes, NEW status \in {"active", "waitlist"},
                enroll(e, s, c, status)
         PROVE AcademyInv'
    BY <2>12, EnrollKeeps
  <2>13. ASSUME NEW e \in Seats,
                \/ withdraw(e) \/ deleteSeat(e)
                \/ \E status \in {"active", "waitlist", "completed", "cancelled"} : updateSeat(e, status)
         PROVE AcademyInv'
    BY <2>13, SeatsKeep
  <2>14. CASE FilesNext
    BY <2>14, FilesKeep
  <2> QED BY <1>2, <2>1, <2>2, <2>3, <2>4, <2>5, <2>6, <2>7, <2>8, <2>9, <2>10, <2>11, <2>12, <2>13, <2>14 DEF AcademyNext
<1> QED BY <1>1, <1>2

(* Every other step leaves sessions, obligations and pieces as they are.   *)
LEMMA OtherSteps == AcademyNext => FilesNext \/ UNCHANGED fileVars
<1>1. ASSUME NEW r \in Rooms,
             \/ \E n \in Capacities : createRoom(r, n) \/ \E on \in BOOLEAN : updateRoom(r, n, on)
             \/ deleteRoom(r)
      PROVE UNCHANGED fileVars
  BY <1>1 DEF createRoom, updateRoom, deleteRoom, RoomsOnly
<1>2. ASSUME NEW i \in Instruments,
             createInstrument(i) \/ deleteInstrument(i) \/ \E on \in BOOLEAN : setActive(i, on)
      PROVE UNCHANGED fileVars
  BY <1>2 DEF createInstrument, deleteInstrument, setActive, InstrumentsOnly
<1>3. ASSUME NEW s \in Students,
             \/ \E code \in Codes : updateStudent(s, code) \/ \E i \in Instruments : createStudent(s, code, i)
             \/ deleteStudent(s)
      PROVE UNCHANGED fileVars
  BY <1>3 DEF updateStudent, createStudent, deleteStudent, StudentsOnly
<1>4. ASSUME NEW t \in Teachers,
             \/ \E name \in Names, phone \in Phones :
                   \/ \E i \in Instruments : createTeacher(t, name, phone, i)
                   \/ \E on \in BOOLEAN : updateTeacher(t, name, phone, on)
             \/ deactivate(t) \/ deleteTeacher(t)
      PROVE UNCHANGED fileVars
  BY <1>4 DEF createTeacher, updateTeacher, deactivate, SetTeacher, deleteTeacher, PeopleOnly
<1>5. ASSUME NEW u \in Users,
             \/ \E name \in Names, email \in Emails :
                   \/ createUser(u, name, email)
                   \/ \E phone \in Phones \cup {Blank}, on \in BOOLEAN : updateUser(u, name, phone, email, on)
             \/ deleteUser(u) \/ \E own \in BOOLEAN : setPassword(u, own)
      PROVE UNCHANGED fileVars
  BY <1>5 DEF createUser, updateUser, deleteUser, setPassword, PeopleOnly
<1>6. ASSUME NEW c \in Classes,
             \/ \E t \in Teachers, r \in Rooms, n \in Capacities :
                   \/ \E i \in Instruments : createClass(c, t, r, n, i)
                   \/ \E archived \in BOOLEAN : updateClass(c, t, r, n, archived)
             \/ archive(c) \/ deleteClass(c)
      PROVE UNCHANGED fileVars
  BY <1>6 DEF createClass, updateClass, archive, deleteClass, ClassesOnly
<1>7. ASSUME NEW e \in Seats,
             \/ \E s \in Students, c \in Classes, status \in {"active", "waitlist"} : enroll(e, s, c, status)
             \/ withdraw(e) \/ deleteSeat(e)
             \/ \E status \in {"active", "waitlist", "completed", "cancelled"} : updateSeat(e, status)
      PROVE UNCHANGED fileVars
  BY <1>7 DEF enroll, updateSeat, withdraw, deleteSeat, Seated, ClassesOnly
<1> QED BY <1>1, <1>2, <1>3, <1>4, <1>5, <1>6, <1>7 DEF AcademyNext

LEMMA FilesTypedKeeps == FilesTyped /\ [AcademyNext]_academyVars => FilesTyped'
<1> SUFFICES ASSUME FilesTyped, [AcademyNext]_academyVars PROVE FilesTyped'
  OBVIOUS
<1>1. CASE UNCHANGED fileVars
  BY <1>1 DEF fileVars, FilesTyped
<1>2. ASSUME NEW l \in Dated, LessonWrites(l) PROVE FilesTyped'
  BY <1>2 DEF LessonWrites, createLesson, updateLesson, rescheduleLesson, cancelLesson, deleteLesson, generateSession,
              LessonsOnly, With, Less, FilesTyped
<1>3. ASSUME NEW d \in Dues, NEW l \in Dated, NEW s \in Students, registerDebt(d, l, s) PROVE FilesTyped'
  BY <1>3 DEF registerDebt, With, FilesTyped
<1>4. ASSUME NEW p \in Scores, ScoreWrites(p) PROVE FilesTyped'
  BY <1>4 DEF ScoreWrites, createScore, updateScore, deleteScore, ScoresOnly, With, Less, FilesTyped
<1>5. ASSUME NEW a \in Practices, PracticeWrites(a) PROVE FilesTyped'
  BY <1>5 DEF PracticeWrites, assignScore, logProgress, deletePractice, With, Less, FilesTyped
<1>6. CASE FilesNext
  BY <1>2, <1>3, <1>4, <1>5, <1>6, FilesCases
<1> QED BY <1>1, <1>6, OtherSteps DEF academyVars

(* The records, typed, whatever is done to them.                           *)
THEOREM AcademyTypes == AcademySpec => []AcademyTypeOK
<1>1. AcademyInv /\ FilesTyped => AcademyTypeOK
  BY DEF AcademyInv, RecordTypes, Table, FilesTyped, AcademyTypeOK
<1> QED BY <1>1, AcademyStarts, AcademyKeeps, FilesTypedKeeps, PTL DEF AcademySpec

(* For any numbers of people, rooms and classes: no class holds more than  *)
(* it seats, what it says of its seats is what the seats say, a teacher    *)
(* and the account are one person, and no record loses what it names.      *)
THEOREM AcademyRecordsHold == AcademySpec => []AcademyHolds
<1>1. AcademyInv => AcademyHolds
  BY DEF AcademyInv
<1> QED BY <1>1, AcademyStarts, AcademyKeeps, PTL DEF AcademySpec

-----------------------------------------------------------------------------
(* Exported files and restores.                                            *)

(* What a restore demands of people, classes and seats.                    *)
CoreRestores ==
    /\ \A c \in DOMAIN class : class[c].teacher \in DOMAIN teacher /\ class[c].room \in DOMAIN room
    /\ \A e \in DOMAIN seat : seat[e].student \in DOMAIN student /\ seat[e].class \in DOMAIN class
    /\ \A a, b \in DOMAIN student : student[a].code = student[b].code => a = b
    /\ \A u \in DOMAIN user : user[u].teacher = Blank \/ user[u].teacher \in DOMAIN teacher

LEMMA RoomsRestore ==
    ASSUME AcademyInv, CoreRestores, NEW r \in Rooms,
           \/ \E n \in Capacities : createRoom(r, n) \/ \E on \in BOOLEAN : updateRoom(r, n, on)
           \/ deleteRoom(r)
    PROVE CoreRestores' \/ Orphaned
<1>1. UNCHANGED <<student, teacher, class, seat, user>>
  BY DEF createRoom, updateRoom, deleteRoom, RoomsOnly
<1>2. CASE \E n \in Capacities : createRoom(r, n) \/ \E on \in BOOLEAN : updateRoom(r, n, on)
  <2>1. DOMAIN room \subseteq DOMAIN room'
    BY <1>2 DEF createRoom, updateRoom, With
  <2> QED BY <1>1, <2>1 DEF CoreRestores
<1>3. CASE deleteRoom(r)
  <2>1. /\ DOMAIN room' = DOMAIN room \ {r} /\ r \in DOMAIN room
        /\ \A c \in DOMAIN class : class[c].room # r
    BY <1>3 DEF deleteRoom, Less, Removes, AcademyInv, UsedAreGone
  <2> QED BY <1>1, <2>1 DEF CoreRestores, Orphaned
<1> QED BY <1>2, <1>3

LEMMA InstrumentsRestore ==
    ASSUME CoreRestores, NEW i \in Instruments, NEW on \in BOOLEAN,
           createInstrument(i) \/ setActive(i, on) \/ deleteInstrument(i)
    PROVE CoreRestores'
BY DEF createInstrument, setActive, deleteInstrument, InstrumentsOnly, CoreRestores

LEMMA StudentsRestore ==
    ASSUME AcademyInv, CoreRestores, NEW s \in Students,
           \/ \E code \in Codes : updateStudent(s, code) \/ \E i \in Instruments : createStudent(s, code, i)
           \/ deleteStudent(s)
    PROVE CoreRestores' \/ Orphaned
<1>1. UNCHANGED <<teacher, room, class, seat, user>>
  BY DEF createStudent, updateStudent, deleteStudent, StudentsOnly
<1>2. DOMAIN student \subseteq Students /\ Blank \notin Students
  BY KindsDiffer DEF AcademyInv, RecordTypes, Table
<1>3. ASSUME NEW code \in Codes, NEW i \in Instruments, createStudent(s, code, i) PROVE CoreRestores'
  <2>1. /\ DOMAIN student' = DOMAIN student \cup {s} /\ student'[s].code = code /\ s \notin DOMAIN student
        /\ \A x \in DOMAIN student : student'[x] = student[x] /\ student[x].code # code
    BY <1>2, <1>3 DEF createStudent, With, Unused, assertNationalId
  <2> QED BY <1>1, <2>1 DEF CoreRestores
<1>4. ASSUME NEW code \in Codes, updateStudent(s, code) PROVE CoreRestores'
  <2>1. student[s] \in StudentRows
    BY <1>4 DEF updateStudent, AcademyInv, RecordTypes, Table
  <2>2. /\ DOMAIN student' = DOMAIN student /\ student'[s].code = code
        /\ \A x \in DOMAIN student : x # s => student'[x] = student[x] /\ student[x].code # code
    BY <1>4, <2>1 DEF updateStudent, assertNationalId, StudentRows
  <2> QED BY <1>1, <2>2 DEF CoreRestores
<1>5. CASE deleteStudent(s)
  <2>1. /\ DOMAIN student' = DOMAIN student \ {s} /\ s \in DOMAIN student
        /\ \A x \in DOMAIN student' : student'[x] = student[x]
    BY <1>5 DEF deleteStudent, Less, Removes, AcademyInv, UsedAreGone
  <2> QED BY <1>1, <2>1 DEF CoreRestores, Orphaned
<1> QED BY <1>3, <1>4, <1>5

LEMMA TeachersRestore ==
    ASSUME AcademyInv, CoreRestores, NEW t \in Teachers,
           \/ \E name \in Names, phone \in Phones :
                 \/ \E i \in Instruments : createTeacher(t, name, phone, i)
                 \/ \E on \in BOOLEAN : updateTeacher(t, name, phone, on)
           \/ deactivate(t) \/ deleteTeacher(t)
    PROVE CoreRestores' \/ Orphaned
<1>1. UNCHANGED <<student, room, class, seat>>
  BY DEF createTeacher, updateTeacher, deactivate, SetTeacher, deleteTeacher, PeopleOnly
<1>2. /\ DOMAIN user' = DOMAIN user /\ \A u \in DOMAIN user : user'[u].teacher = user[u].teacher
      /\ \/ DOMAIN teacher \subseteq DOMAIN teacher'
         \/ DOMAIN teacher' = DOMAIN teacher \ {t} /\ t \in DOMAIN teacher /\ \A c \in DOMAIN class : class[c].teacher # t
  <2>1. ASSUME NEW name \in Names, NEW phone \in Phones, NEW i \in Instruments, createTeacher(t, name, phone, i)
        PROVE user' = user /\ DOMAIN teacher \subseteq DOMAIN teacher'
    BY <2>1 DEF createTeacher, With
  <2>2. ASSUME NEW row \in TeacherRows, SetTeacher(t, row)
        PROVE /\ DOMAIN user' = DOMAIN user /\ \A u \in DOMAIN user : user'[u].teacher = user[u].teacher
              /\ DOMAIN teacher \subseteq DOMAIN teacher'
    BY <2>2, SyncAccountShape DEF SetTeacher, With, AcademyInv
  <2>3. ASSUME t \in DOMAIN teacher, NEW name \in Names, NEW phone \in Phones, NEW on \in BOOLEAN
        PROVE /\ [teacher[t] EXCEPT !.name = name, !.phone = phone, !.active = on] \in TeacherRows
              /\ [teacher[t] EXCEPT !.active = FALSE] \in TeacherRows
    <3>1. teacher[t] \in TeacherRows
      BY <2>3 DEF AcademyInv, RecordTypes, Table
    <3> QED BY <3>1 DEF TeacherRows
  <2>4. ASSUME NEW name \in Names, NEW phone \in Phones, NEW on \in BOOLEAN, updateTeacher(t, name, phone, on)
        PROVE \E row \in TeacherRows : SetTeacher(t, row)
    BY <2>3, <2>4 DEF updateTeacher
  <2>5. ASSUME deactivate(t) PROVE \E row \in TeacherRows : SetTeacher(t, row)
    <3>1. t \in DOMAIN teacher /\ SetTeacher(t, [teacher[t] EXCEPT !.active = FALSE])
      BY <2>5 DEF deactivate
    <3>2. teacher[t] \in TeacherRows
      BY <3>1 DEF AcademyInv, RecordTypes, Table
    <3>3. [teacher[t] EXCEPT !.active = FALSE] \in TeacherRows
      BY <3>2 DEF TeacherRows
    <3> QED BY <3>1, <3>3
  <2>6. CASE deleteTeacher(t)
    <3>1. /\ DOMAIN teacher' = DOMAIN teacher \ {t} /\ t \in DOMAIN teacher
          /\ DOMAIN user' = DOMAIN user /\ \A c \in DOMAIN class : class[c].teacher # t
      BY <2>6 DEF deleteTeacher, Less, Removes, AcademyInv, UsedAreGone
    <3>2. ASSUME NEW u \in DOMAIN user PROVE user'[u].teacher = user[u].teacher
      <4>1. user[u] \in UserRows
        BY DEF AcademyInv, RecordTypes, Table
      <4>2. user'[u] = [user[u] EXCEPT !.active = user[u].active /\ u \notin Accounts(t)]
        BY <2>6 DEF deleteTeacher
      <4> QED BY <4>1, <4>2 DEF UserRows
    <3> QED BY <3>1, <3>2
  <2> QED BY <2>1, <2>2, <2>4, <2>5, <2>6
<1> QED BY <1>1, <1>2 DEF CoreRestores, Orphaned

LEMMA UsersRestore ==
    ASSUME AcademyInv, CoreRestores, NEW u \in Users,
           \/ \E name \in Names, email \in Emails :
                 \/ createUser(u, name, email)
                 \/ \E phone \in Phones \cup {Blank}, on \in BOOLEAN : updateUser(u, name, phone, email, on)
           \/ deleteUser(u) \/ \E own \in BOOLEAN : setPassword(u, own)
    PROVE CoreRestores'
<1>1. UNCHANGED <<student, room, class, seat>>
  BY DEF createUser, updateUser, deleteUser, setPassword, PeopleOnly
<1>2. /\ DOMAIN teacher' = DOMAIN teacher
      /\ \A x \in DOMAIN user' : user'[x].teacher = Blank \/ (x \in DOMAIN user /\ user'[x].teacher = user[x].teacher)
  <2>1. ASSUME NEW name \in Names, NEW email \in Emails, createUser(u, name, email)
        PROVE /\ teacher' = teacher
              /\ \A x \in DOMAIN user' : user'[x].teacher = Blank \/ (x \in DOMAIN user /\ user'[x].teacher = user[x].teacher)
    BY <2>1 DEF createUser, With
  <2>2. ASSUME NEW name \in Names, NEW email \in Emails, NEW phone \in Phones \cup {Blank}, NEW on \in BOOLEAN,
               updateUser(u, name, phone, email, on)
        PROVE /\ DOMAIN teacher' = DOMAIN teacher
              /\ \A x \in DOMAIN user' : x \in DOMAIN user /\ user'[x].teacher = user[x].teacher
    <3> DEFINE edited == [user[u] EXCEPT !.name = name, !.phone = phone, !.email = email, !.active = on]
    <3>1. u \in DOMAIN user /\ user' = [user EXCEPT ![u] = edited] /\ teacher' = syncTeacher(user'[u])
      BY <2>2 DEF updateUser
    <3>2. user[u] \in UserRows
      BY <3>1 DEF AcademyInv, RecordTypes, Table
    <3>3. edited.teacher = user[u].teacher
      BY <3>2 DEF UserRows
    <3> HIDE DEF edited
    <3>4. DOMAIN teacher' = DOMAIN teacher
      BY <3>1 DEF syncTeacher
    <3> QED BY <3>1, <3>3, <3>4
  <2>3. ASSUME deleteUser(u) \/ \E own \in BOOLEAN : setPassword(u, own)
        PROVE teacher' = teacher /\ \A x \in DOMAIN user' : x \in DOMAIN user /\ user'[x] = user[x]
    BY <2>3 DEF deleteUser, setPassword, Less
  <2> QED BY <2>1, <2>2, <2>3
<1> QED BY <1>1, <1>2 DEF CoreRestores

LEMMA ClassesRestore ==
    ASSUME AcademyInv, CoreRestores, NEW c \in Classes,
           \/ \E t \in Teachers, r \in Rooms, n \in Capacities :
                 \/ \E i \in Instruments : createClass(c, t, r, n, i)
                 \/ \E archived \in BOOLEAN : updateClass(c, t, r, n, archived)
           \/ archive(c) \/ deleteClass(c)
    PROVE CoreRestores' \/ Orphaned
<1> DEFINE Housed(f) == \A k \in DOMAIN f : f[k].teacher \in DOMAIN teacher /\ f[k].room \in DOMAIN room
<1>1. UNCHANGED <<student, teacher, room, seat, user>>
  BY DEF createClass, updateClass, archive, deleteClass, ClassesOnly
<1>2. ASSUME NEW k \in DOMAIN class PROVE class[k] \in ClassRows
  BY DEF AcademyInv, RecordTypes, Table
<1>3. Housed(class)
  BY DEF CoreRestores
<1>4. ASSUME NEW t \in Teachers, NEW r \in Rooms, NEW n \in Capacities, NEW i \in Instruments, createClass(c, t, r, n, i)
      PROVE DOMAIN class \subseteq DOMAIN class' /\ Housed(class')
  <2> DEFINE row == ClassRow(t, r, n, i)
  <2>1. row.teacher = t /\ row.room = r
    BY DEF ClassRow
  <2> HIDE DEF row
  <2>2. class' = With(class, c, row) /\ t \in DOMAIN teacher /\ r \in DOMAIN room
    BY <1>4, <2>1 DEF createClass, validateRelations, row
  <2> QED BY <1>3, <2>1, <2>2 DEF With
<1>5. ASSUME NEW t \in Teachers, NEW r \in Rooms, NEW n \in Capacities, NEW archived \in BOOLEAN,
             updateClass(c, t, r, n, archived)
      PROVE DOMAIN class \subseteq DOMAIN class' /\ Housed(class')
  <2> DEFINE row == [class[c] EXCEPT !.teacher = t, !.room = r, !.capacity = n, !.archived = archived]
  <2>1. c \in DOMAIN class /\ class' = [class EXCEPT ![c] = row] /\ validateRelations(row)
    BY <1>5 DEF updateClass
  <2> HIDE DEF row
  <2> QED BY <1>3, <2>1 DEF validateRelations
<1>6. ASSUME archive(c)
      PROVE DOMAIN class \subseteq DOMAIN class' /\ Housed(class')
  <2> DEFINE row == [class[c] EXCEPT !.archived = TRUE]
  <2>1. c \in DOMAIN class /\ class' = [class EXCEPT ![c] = row]
    BY <1>6 DEF archive
  <2>2. row.teacher = class[c].teacher /\ row.room = class[c].room
    BY <1>2, <2>1 DEF ClassRows
  <2> HIDE DEF row
  <2> QED BY <1>3, <2>1, <2>2
<1>7. ASSUME DOMAIN class \subseteq DOMAIN class', Housed(class') PROVE CoreRestores'
  BY <1>1, <1>7 DEF CoreRestores
<1>8. CASE deleteClass(c)
  <2>1. /\ DOMAIN class' = DOMAIN class \ {c} /\ \A k \in DOMAIN class' : class'[k] = class[k]
        /\ c \in DOMAIN class /\ \A e \in DOMAIN seat : seat[e].class # c
    BY <1>8 DEF deleteClass, Less, Removes, AcademyInv, UsedAreGone
  <2> QED BY <1>1, <2>1 DEF CoreRestores, Orphaned
<1> QED BY <1>4, <1>5, <1>6, <1>7, <1>8

LEMMA SeatsRestore ==
    ASSUME AcademyInv, AcademyInv', CoreRestores, NEW c, Seated(c),
           \A e \in DOMAIN seat' : seat'[e].student \in DOMAIN student
    PROVE CoreRestores'
<1>1. UNCHANGED <<student, teacher, room, user>> /\ DOMAIN class' = DOMAIN class
  BY DEF Seated, syncClassProjection, ClassesOnly
<1> QED BY <1>1 DEF CoreRestores, AcademyInv, AcademyHolds, RecordsKeepTheirParents

LEMMA CoreStep == ASSUME AcademyInv, AcademyInv', CoreRestores, AcademyNext, ~FilesNext PROVE CoreRestores' \/ Orphaned
<1>1. ASSUME NEW e \in Seats, NEW s \in Students, NEW c \in Classes, NEW status \in {"active", "waitlist"},
             enroll(e, s, c, status)
      PROVE CoreRestores'
  <2>1. Seated(c) /\ s \in DOMAIN student /\ seat' = With(seat, e, [student |-> s, class |-> c, status |-> status])
    BY <1>1 DEF enroll
  <2>2. \A x \in DOMAIN seat' : seat'[x].student \in DOMAIN student
    BY <2>1 DEF With, CoreRestores
  <2> QED BY <2>1, <2>2, SeatsRestore
<1>2. ASSUME NEW e \in Seats,
             \/ withdraw(e) \/ deleteSeat(e)
             \/ \E status \in {"active", "waitlist", "completed", "cancelled"} : updateSeat(e, status)
      PROVE CoreRestores'
  <2>1. ASSUME NEW x \in DOMAIN seat PROVE seat[x] \in SeatRows
    BY DEF AcademyInv, RecordTypes, Table
  <2>2. Seated(seat[e].class)
    BY <1>2 DEF withdraw, deleteSeat, updateSeat
  <2>3. \A x \in DOMAIN seat' : x \in DOMAIN seat /\ seat'[x].student = seat[x].student
    <3>1. CASE withdraw(e)
      BY <2>1, <3>1 DEF withdraw, SeatRows
    <3>2. CASE deleteSeat(e)
      BY <3>2 DEF deleteSeat, Less
    <3>3. CASE \E status \in {"active", "waitlist", "completed", "cancelled"} : updateSeat(e, status)
      BY <2>1, <3>3 DEF updateSeat, SeatRows
    <3> QED BY <1>2, <3>1, <3>2, <3>3
  <2>4. \A x \in DOMAIN seat' : seat'[x].student \in DOMAIN student
    BY <2>3 DEF CoreRestores
  <2> QED BY <2>2, <2>4, SeatsRestore
<1> QED BY <1>1, <1>2, RoomsRestore, InstrumentsRestore, StudentsRestore, TeachersRestore, UsersRestore, ClassesRestore
        DEF AcademyNext

(* What the other records name is still there, or its removal left it.     *)
LEMMA FilesShrink ==
    ASSUME validateDataset, UNCHANGED fileVars, ~Orphaned
    PROVE LessonsRestore' /\ DebtsRestore' /\ ScoresRestore' /\ SeedRestores'
<1> USE DEF fileVars
<1>1. ASSUME NEW l \in DOMAIN lesson
      PROVE lesson[l].class \in DOMAIN class' /\ lesson[l].teacher \in DOMAIN teacher' /\ lesson[l].room \in DOMAIN room'
  BY DEF validateDataset, LessonsRestore, Orphaned
<1>2. LessonsRestore'
  BY <1>1 DEF validateDataset, LessonsRestore
<1>3. ASSUME NEW d \in DOMAIN debt PROVE debt[d].class \in DOMAIN class' /\ debt[d].student \in DOMAIN student'
  BY DEF validateDataset, DebtsRestore, Orphaned
<1>4. DebtsRestore'
  BY <1>3 DEF validateDataset, DebtsRestore
<1>5. \A p \in DOMAIN score : score[p] \in DOMAIN instrument'
  BY DEF validateDataset, ScoresRestore, Orphaned
<1>6. \A a \in DOMAIN practice : practice[a].student \in DOMAIN student'
  BY DEF validateDataset, ScoresRestore, Orphaned
<1>7. ScoresRestore'
  BY <1>5, <1>6 DEF validateDataset, ScoresRestore
<1>8. SeedRestores'
  BY DEF validateDataset, SeedRestores, Orphaned
<1> QED BY <1>2, <1>4, <1>7, <1>8

(* A session that names a class, a teacher, a room and other sessions of   *)
(* the table, written to a table of such sessions, leaves one.             *)
GoodRow(row, ids) ==
    /\ row.class \in DOMAIN class /\ row.teacher \in DOMAIN teacher /\ row.room \in DOMAIN room
    /\ {row.from, row.to} \subseteq ids \cup {Blank}
GoodTable(f) == \A x \in DOMAIN f : GoodRow(f[x], DOMAIN f)
LEMMA WithGood ==
    ASSUME NEW f, GoodTable(f), NEW k, NEW row, GoodRow(row, DOMAIN f \cup {k})
    PROVE GoodTable(With(f, k, row)) /\ DOMAIN With(f, k, row) = DOMAIN f \cup {k}
<1>1. DOMAIN With(f, k, row) = DOMAIN f \cup {k}
  BY DEF With
<1>2. ASSUME NEW x \in DOMAIN f \cup {k} PROVE GoodRow(With(f, k, row)[x], DOMAIN f \cup {k})
  <2>1. CASE x = k
    BY <2>1 DEF With
  <2>2. CASE x # k
    BY <2>2 DEF With, GoodTable, GoodRow
  <2> QED BY <2>1, <2>2
<1> QED BY <1>1, <1>2 DEF GoodTable

LEMMA LessonsStayGood ==
    ASSUME validateDataset, ~Orphaned, NEW l \in Dated, LessonWrites(l)
    PROVE GoodTable(lesson')
<1>1. GoodTable(lesson)
  BY DEF validateDataset, LessonsRestore, GoodTable, GoodRow
<1>2. ASSUME NEW row, GoodRow(row, DOMAIN lesson \cup {l}), lesson' = With(lesson, l, row) PROVE GoodTable(lesson')
  BY <1>1, <1>2, WithGood
<1>3. ASSUME NEW c \in Classes, NEW t \in Teachers, NEW r \in Rooms, createLesson(l, c, t, r) PROVE GoodTable(lesson')
  <2>1. /\ lesson' = With(lesson, l, LessonRow(c, t, r, FALSE, Blank, Blank))
        /\ c \in DOMAIN class /\ t \in DOMAIN teacher /\ r \in DOMAIN room
    BY <1>3 DEF createLesson, Open
  <2>2. GoodRow(LessonRow(c, t, r, FALSE, Blank, Blank), DOMAIN lesson \cup {l})
    BY <2>1 DEF GoodRow, LessonRow
  <2> QED BY <1>2, <2>1, <2>2
<1>4. ASSUME NEW c \in Classes, generateSession(l, c) PROVE GoodTable(lesson')
  <2>1. PICK from, to : /\ from = IF l \in DOMAIN lesson THEN lesson[l].from ELSE Blank
                        /\ to = IF l \in DOMAIN lesson THEN lesson[l].to ELSE Blank
    OBVIOUS
  <2>2. lesson' = With(lesson, l, LessonRow(c, class[c].teacher, class[c].room, FALSE, from, to))
    BY <1>4, <2>1 DEF generateSession
  <2>3. {from, to} \subseteq DOMAIN lesson \cup {Blank}
    BY <1>1, <2>1 DEF GoodTable, GoodRow
  <2>4. c \in DOMAIN class /\ class[c].teacher \in DOMAIN teacher /\ class[c].room \in DOMAIN room
    BY <1>4 DEF generateSession, Open, validateDataset
  <2>5. GoodRow(LessonRow(c, class[c].teacher, class[c].room, FALSE, from, to), DOMAIN lesson \cup {l})
    BY <2>3, <2>4 DEF GoodRow, LessonRow
  <2> QED BY <1>2, <2>2, <2>5
<1>5. ASSUME NEW t \in Teachers, NEW r \in Rooms, updateLesson(l, t, r) PROVE GoodTable(lesson')
  <2>1. PICK cancelled, from, to :
           /\ lesson' = With(lesson, l, LessonRow(lesson[l].class, t, r, cancelled, from, to))
           /\ from = lesson[l].from /\ to = lesson[l].to
           /\ l \in DOMAIN lesson /\ t \in DOMAIN teacher /\ r \in DOMAIN room
    BY <1>5 DEF updateLesson
  <2>2. lesson[l].class \in DOMAIN class /\ {from, to} \subseteq DOMAIN lesson \cup {l} \cup {Blank}
    BY <1>1, <2>1 DEF GoodTable, GoodRow
  <2>3. GoodRow(LessonRow(lesson[l].class, t, r, cancelled, from, to), DOMAIN lesson \cup {l})
    BY <2>1, <2>2 DEF GoodRow, LessonRow
  <2> QED BY <1>2, <2>1, <2>3
<1>6. ASSUME cancelLesson(l) PROVE GoodTable(lesson')
  <2>1. PICK c, t, r, from, to :
           /\ lesson' = With(lesson, l, LessonRow(c, t, r, TRUE, from, to)) /\ l \in DOMAIN lesson
           /\ c = lesson[l].class /\ t = lesson[l].teacher /\ r = lesson[l].room
           /\ from = lesson[l].from /\ to = lesson[l].to
    BY <1>6 DEF cancelLesson
  <2>2. /\ c \in DOMAIN class /\ t \in DOMAIN teacher /\ r \in DOMAIN room
        /\ {from, to} \subseteq DOMAIN lesson \cup {l} \cup {Blank}
    BY <1>1, <2>1 DEF GoodTable, GoodRow
  <2>3. GoodRow(LessonRow(c, t, r, TRUE, from, to), DOMAIN lesson \cup {l})
    BY <2>2 DEF GoodRow, LessonRow
  <2> QED BY <1>2, <2>1, <2>3
<1>7. ASSUME NEW k \in Dated \ {l}, NEW t \in Teachers, NEW r \in Rooms, rescheduleLesson(l, k, t, r)
      PROVE GoodTable(lesson')
  <2>1. PICK c, who, where, from, fresh :
           /\ fresh = With(lesson, k, LessonRow(c, t, r, FALSE, l, Blank))
           /\ lesson' = With(fresh, l, LessonRow(c, who, where, TRUE, from, k))
           /\ c = lesson[l].class /\ who = lesson[l].teacher /\ where = lesson[l].room /\ from = lesson[l].from
           /\ l \in DOMAIN lesson /\ t \in DOMAIN teacher /\ r \in DOMAIN room
    BY <1>7 DEF rescheduleLesson
  <2>2. /\ c \in DOMAIN class /\ who \in DOMAIN teacher /\ where \in DOMAIN room /\ from \in DOMAIN lesson \cup {Blank}
    BY <1>1, <2>1 DEF GoodTable, GoodRow
  <2>3. GoodRow(LessonRow(c, t, r, FALSE, l, Blank), DOMAIN lesson \cup {k})
    <3>1. {l, Blank} \subseteq DOMAIN lesson \cup {k} \cup {Blank}
      BY <2>1
    <3> QED BY <2>1, <2>2, <3>1 DEF GoodRow, LessonRow
  <2>4. GoodTable(fresh) /\ DOMAIN fresh = DOMAIN lesson \cup {k}
    BY <1>1, <2>1, <2>3, WithGood
  <2>5. GoodRow(LessonRow(c, who, where, TRUE, from, k), DOMAIN fresh \cup {l})
    <3>1. {from, k} \subseteq DOMAIN fresh \cup {l} \cup {Blank}
      BY <2>2, <2>4
    <3> QED BY <2>2, <3>1 DEF GoodRow, LessonRow
  <2> QED BY <2>1, <2>4, <2>5, WithGood
<1>8. ASSUME deleteLesson(l) PROVE GoodTable(lesson')
  <2>1. /\ l \in DOMAIN lesson /\ DOMAIN lesson' = DOMAIN lesson \ {l} /\ \A x \in DOMAIN lesson' : lesson'[x] = lesson[x]
    BY <1>8 DEF deleteLesson, Less
  <2>2. \A x \in DOMAIN lesson' : l \notin {lesson[x].from, lesson[x].to}
    BY <2>1 DEF Orphaned
  <2> QED BY <1>1, <2>1, <2>2 DEF GoodTable, GoodRow
<1> QED BY <1>3, <1>4, <1>5, <1>6, <1>7, <1>8 DEF LessonWrites

(* A step that writes sessions, obligations, pieces or assignments leaves  *)
(* a file that can be restored, unless a session others name was deleted.  *)
LEMMA FilesRestore == ASSUME validateDataset, FilesNext, ~Orphaned PROVE validateDataset'
<1>1. UNCHANGED <<student, teacher, room, class, seat, user, instrument, seeded>>
  BY FilesFrame DEF FilesOnly
<1>2. CoreRestores' /\ SeedRestores'
  BY <1>1 DEF validateDataset, CoreRestores, SeedRestores
<1>3. ASSUME UNCHANGED lesson PROVE LessonsRestore'
  BY <1>1, <1>3 DEF validateDataset, LessonsRestore
<1>4. ASSUME UNCHANGED debt PROVE DebtsRestore'
  BY <1>1, <1>4 DEF validateDataset, DebtsRestore
<1>5. ASSUME UNCHANGED <<score, practice, logged>> PROVE ScoresRestore'
  BY <1>1, <1>5 DEF validateDataset, ScoresRestore
<1>6. ASSUME NEW l \in Dated, LessonWrites(l) PROVE LessonsRestore' /\ DebtsRestore' /\ ScoresRestore'
  <2>1. UNCHANGED <<debt, score, practice, logged>>
    BY <1>6 DEF LessonWrites, createLesson, updateLesson, rescheduleLesson, cancelLesson, deleteLesson, generateSession,
                LessonsOnly
  <2>2. GoodTable(lesson')
    BY <1>6, LessonsStayGood
  <2>3. LessonsRestore'
    BY <1>1, <2>2 DEF LessonsRestore, GoodTable, GoodRow
  <2> QED BY <1>4, <1>5, <2>1, <2>3
<1>7. ASSUME NEW d \in Dues, NEW l \in Dated, NEW s \in Students, registerDebt(d, l, s)
      PROVE LessonsRestore' /\ DebtsRestore' /\ ScoresRestore'
  <2> DEFINE owed == [original |-> l, class |-> lesson[l].class, student |-> s]
  <2>1. owed.original = l /\ owed.class = lesson[l].class /\ owed.student = s
    OBVIOUS
  <2>2. /\ debt' = With(debt, d, owed) /\ d \notin DOMAIN debt /\ lesson[l].class \in DOMAIN class /\ s \in DOMAIN student
        /\ \A o \in DOMAIN debt : debt[o].original = l => debt[o].student # s
        /\ UNCHANGED <<lesson, score, practice, logged>>
    BY <1>7 DEF registerDebt, Unused
  <2> HIDE DEF owed
  <2>3. /\ DOMAIN debt' = DOMAIN debt \cup {d} /\ debt'[d] = owed
        /\ \A o \in DOMAIN debt : debt'[o] = debt[o]
    BY <2>2 DEF With
  <2>4. DebtsRestore'
    BY <1>1, <2>1, <2>2, <2>3 DEF validateDataset, DebtsRestore
  <2> QED BY <1>3, <1>5, <2>2, <2>4
<1>8. ASSUME NEW p \in Scores, ScoreWrites(p) PROVE LessonsRestore' /\ DebtsRestore' /\ ScoresRestore'
  <2>1. UNCHANGED <<lesson, debt, practice, logged>>
    BY <1>8 DEF ScoreWrites, createScore, updateScore, deleteScore, ScoresOnly
  <2>2. /\ \A x \in DOMAIN score' : score'[x] \in DOMAIN instrument
        /\ \A x \in DOMAIN score : x \notin DOMAIN score' => \A a \in DOMAIN practice : practice[a].score # x
    <3>1. CASE deleteScore(p)
      BY <3>1 DEF deleteScore, Less, validateDataset, ScoresRestore
    <3>2. ASSUME NEW i \in Instruments, createScore(p, i) \/ updateScore(p, i)
          PROVE /\ \A x \in DOMAIN score' : score'[x] \in DOMAIN instrument
                /\ DOMAIN score \subseteq DOMAIN score'
      BY <3>2 DEF createScore, updateScore, With, validateDataset, ScoresRestore
    <3> QED BY <1>8, <3>1, <3>2 DEF ScoreWrites
  <2>3. ScoresRestore'
    BY <1>1, <2>1, <2>2 DEF validateDataset, ScoresRestore
  <2> QED BY <1>3, <1>4, <2>1, <2>3
<1>9. ASSUME NEW a \in Practices, PracticeWrites(a) PROVE LessonsRestore' /\ DebtsRestore' /\ ScoresRestore'
  <2>1. UNCHANGED <<lesson, debt, score>>
    BY <1>9 DEF PracticeWrites, assignScore, logProgress, deletePractice
  <2>2. /\ \A x \in DOMAIN practice' : practice'[x].student \in DOMAIN student /\ practice'[x].score \in DOMAIN score
        /\ logged' \subseteq DOMAIN practice'
    <3>1. CASE logProgress(a)
      BY <3>1 DEF logProgress, validateDataset, ScoresRestore
    <3>2. CASE deletePractice(a)
      BY <3>2 DEF deletePractice, Less, validateDataset, ScoresRestore
    <3>3. ASSUME NEW s \in Students, NEW p \in Scores, assignScore(a, s, p)
          PROVE /\ \A x \in DOMAIN practice' : practice'[x].student \in DOMAIN student /\ practice'[x].score \in DOMAIN score
                /\ logged' \subseteq DOMAIN practice'
      BY <3>3 DEF assignScore, With, validateDataset, ScoresRestore
    <3> QED BY <1>9, <3>1, <3>2, <3>3 DEF PracticeWrites
  <2>3. ScoresRestore'
    BY <1>1, <2>1, <2>2 DEF validateDataset, ScoresRestore
  <2> QED BY <1>3, <1>4, <2>1, <2>3
<1>10. LessonsRestore' /\ DebtsRestore' /\ ScoresRestore'
  BY <1>6, <1>7, <1>8, <1>9, FilesCases
<1> QED BY <1>2, <1>10 DEF validateDataset, CoreRestores

LEMMA ExportStep == ASSUME AcademyInv, AcademyInv', validateDataset, AcademyNext PROVE validateDataset' \/ Orphaned
<1>1. CASE FilesNext
  BY <1>1, FilesRestore
<1>2. CASE ~FilesNext
  <2>1. CoreRestores
    BY DEF validateDataset, CoreRestores
  <2>2. CoreRestores' \/ Orphaned
    BY <1>2, <2>1, CoreStep
  <2>3. UNCHANGED fileVars
    BY <1>2, OtherSteps
  <2> QED BY <2>2, <2>3, FilesShrink DEF validateDataset, CoreRestores
<1> QED BY <1>1, <1>2

(* For any numbers of records: a file exported from records that could be  *)
(* restored can be restored too, unless the step removed a record that     *)
(* another names and its repository did not look: Orphaned lists them all. *)
THEOREM AcademyExportsCanBeRestored == AcademySpec => ExportsCanBeRestored
<1>1. AcademyInv /\ AcademyInv' /\ [AcademyNext]_academyVars
      => [validateDataset => validateDataset' \/ Orphaned]_academyVars
  BY ExportStep
<1> QED BY <1>1, AcademyStarts, AcademyKeeps, PTL DEF AcademySpec, ExportsCanBeRestored

-----------------------------------------------------------------------------
(* Lists, sifted.                                                         *)

\* Induction on a set, from the least number outside it.
LEMMA SetInduction ==
  ASSUME NEW S, 0 \in S, \A n \in Nat : n \in S => n + 1 \in S
  PROVE  Nat \subseteq S
<1> SUFFICES ASSUME Nat \ S # {} PROVE FALSE
  OBVIOUS
<1> DEFINE T == Nat \ S
<1>1. T \subseteq Nat /\ T # {}
  OBVIOUS
<1>2. PICK x \in T : \A y \in T : ~(<<y, x>> \in OpToRel(<, Nat))
  <2> HIDE DEF T
  <2> QED
    BY <1>1, NatLessThanWellFounded, WFMin
<1>3. \A y \in T : ~(y < x)
  BY <1>1, <1>2 DEF OpToRel
<1>4. x # 0 /\ x - 1 \in Nat /\ (x - 1) + 1 = x
  OBVIOUS
<1>5. x - 1 \in T
  BY <1>4
<1> QED
  BY <1>3, <1>4, <1>5

(* What a list keeps: `f` sifts s as far as k, by membership in D.         *)
SiftStep(f, s, D, n) ==
  IF n = 0 THEN <<>> ELSE IF s[n] \in D THEN Append(f[n - 1], s[n]) ELSE f[n - 1]
Sifts(f, s, D, k) == f = [n \in 0..k |-> SiftStep(f, s, D, n)]

\* A list can be sifted as far as any number.
LEMMA SiftExists ==
  ASSUME NEW s, NEW D, NEW K \in Nat
  PROVE  \E f : Sifts(f, s, D, K)
<1> DEFINE S == {k \in Nat : \E f : Sifts(f, s, D, k)}
<1>1. 0 \in S
  <2> DEFINE f == [n \in 0..0 |-> SiftStep(<<>>, s, D, n)]
  <2>1. \A n \in 0..0 : SiftStep(<<>>, s, D, n) = SiftStep(f, s, D, n)
    BY DEF SiftStep
  <2>2. Sifts(f, s, D, 0)
    BY <2>1 DEF Sifts
  <2> QED
    BY <2>2
<1>2. ASSUME NEW k \in Nat, k \in S
      PROVE  k + 1 \in S
  <2>1. PICK g : Sifts(g, s, D, k)
    BY <1>2
  <2> DEFINE h == [n \in 0..(k + 1) |-> IF n = k + 1 THEN SiftStep(g, s, D, n) ELSE g[n]]
  <2>2. h = [n \in 0..(k + 1) |-> h[n]]
    OBVIOUS
  <2>3. \A n \in 0..k : h[n] = g[n] /\ g[n] = SiftStep(g, s, D, n)
    BY <2>1 DEF Sifts
  <2>4. h[k + 1] = SiftStep(g, s, D, k + 1)
    OBVIOUS
  <2> HIDE DEF h
  <2>5. \A n \in 0..(k + 1) : SiftStep(h, s, D, n) = SiftStep(g, s, D, n)
    BY <2>3 DEF SiftStep
  <2>6. \A n \in 0..(k + 1) : h[n] = SiftStep(h, s, D, n)
    BY <2>3, <2>4, <2>5
  <2>7. Sifts(h, s, D, k + 1)
    BY <2>2, <2>6 DEF Sifts
  <2> QED
    BY <2>7
<1> HIDE DEF S
<1>3. K \in S
  BY <1>1, <1>2, SetInduction
<1> QED
  BY <1>3 DEF S

\* What is kept stands in the order of the list: h says where each element was.
Embeds(h, r, s, D, k) ==
  /\ Len(r) <= k /\ h \in [1..Len(r) -> 1..k]
  /\ \A i \in 1..Len(r) : r[i] = s[h[i]] /\ s[h[i]] \in D
  /\ \A i, j \in 1..Len(r) : i < j => h[i] < h[j]
  /\ \A n \in 1..k : s[n] \in D => \E i \in 1..Len(r) : h[i] = n

LEMMA SiftKeeps ==
  ASSUME NEW T, NEW s \in Seq(T), NEW D, NEW f, Sifts(f, s, D, Len(s))
  PROVE  /\ f[Len(s)] \in Seq(T)
         /\ \E h : Embeds(h, f[Len(s)], s, D, Len(s))
<1> DEFINE S == {k \in Nat : k <= Len(s) => f[k] \in Seq(T) /\ \E h : Embeds(h, f[k], s, D, k)}
<1>1. \A n \in 0..Len(s) : f[n] = SiftStep(f, s, D, n)
  BY DEF Sifts
<1>2. 0 \in S
  <2>1. f[0] = <<>>
    BY <1>1 DEF SiftStep
  <2>2. Embeds(<<>>, f[0], s, D, 0)
    BY <2>1 DEF Embeds
  <2>3. 0 \in Nat /\ f[0] \in Seq(T)
    BY <2>1
  <2>4. \E h : Embeds(h, f[0], s, D, 0)
    BY <2>2, Zenon
  <2> QED
    BY <2>3, <2>4, Zenon
<1>3. ASSUME NEW k \in Nat, k \in S
      PROVE  k + 1 \in S
  <2> SUFFICES ASSUME k + 1 <= Len(s)
               PROVE  f[k + 1] \in Seq(T) /\ \E h : Embeds(h, f[k + 1], s, D, k + 1)
    OBVIOUS
  <2>1. f[k] \in Seq(T) /\ s[k + 1] \in T
    BY <1>3
  <2>2. PICK g : Embeds(g, f[k], s, D, k)
    BY <1>3
  <2>3. f[k + 1] = IF s[k + 1] \in D THEN Append(f[k], s[k + 1]) ELSE f[k]
    BY <1>1 DEF SiftStep
  <2>4. CASE s[k + 1] \notin D
    <3>1. Embeds(g, f[k + 1], s, D, k + 1)
      BY <2>1, <2>2, <2>3, <2>4 DEF Embeds
    <3> QED
      BY <2>1, <2>3, <2>4, <3>1
  <2>5. CASE s[k + 1] \in D
    <3> DEFINE r == f[k + 1]
               m == Len(f[k])
               h == [i \in 1..(m + 1) |-> IF i = m + 1 THEN k + 1 ELSE g[i]]
    <3>1. /\ r \in Seq(T) /\ Len(r) = m + 1 /\ r[m + 1] = s[k + 1] /\ m \in Nat
          /\ \A i \in 1..m : r[i] = f[k][i]
      BY <2>1, <2>3, <2>5
    <3>2. h = [i \in 1..(m + 1) |-> h[i]] /\ \A i \in 1..(m + 1) : h[i] = IF i = m + 1 THEN k + 1 ELSE g[i]
      OBVIOUS
    <3>3. g \in [1..m -> 1..k]
      BY <2>2 DEF Embeds
    <3> HIDE DEF h, r, m
    <3>4. h[m + 1] = k + 1 /\ \A i \in 1..m : h[i] = g[i] /\ g[i] \in 1..k
      BY <3>1, <3>2, <3>3
    <3>5. \A i \in 1..(m + 1) : h[i] \in 1..(k + 1)
      BY <3>1, <3>2, <3>3
    <3>6. h \in [1..(m + 1) -> 1..(k + 1)]
      BY <3>2, <3>5, Zenon
    <3>7. \A i \in 1..(m + 1) : i = m + 1 \/ i \in 1..m
      BY <3>1
    <3>8. \A i \in 1..(m + 1) : r[i] = s[h[i]] /\ s[h[i]] \in D
      BY <2>2, <2>5, <3>1, <3>4, <3>7 DEF Embeds, m
    <3>9. \A i, j \in 1..(m + 1) : i < j => h[i] < h[j]
      <4> TAKE i, j \in 1..(m + 1)
      <4> HAVE i < j
      <4>1. i \in 1..m
        BY <3>1
      <4>2. CASE j = m + 1
        BY <3>4, <4>1, <4>2
      <4>3. CASE j \in 1..m
        BY <2>2, <3>4, <4>1, <4>3 DEF Embeds, m
      <4> QED
        BY <3>7, <4>2, <4>3
    <3>10. \A n \in 1..(k + 1) : s[n] \in D => \E i \in 1..(m + 1) : h[i] = n
      <4> TAKE n \in 1..(k + 1)
      <4> HAVE s[n] \in D
      <4>1. CASE n = k + 1
        BY <3>1, <3>4, <4>1
      <4>2. CASE n \in 1..k
        <5>1. PICK i \in 1..m : g[i] = n
          BY <2>2, <4>2 DEF Embeds, m
        <5>2. i \in 1..(m + 1) /\ h[i] = n
          BY <3>1, <3>4, <5>1
        <5> QED
          BY <5>2
      <4> QED
        BY <4>1, <4>2
    <3>11. m <= k
      BY <2>2 DEF Embeds, m
    <3>12. Embeds(h, r, s, D, k + 1)
      BY <3>1, <3>11, <3>6, <3>8, <3>9, <3>10 DEF Embeds
    <3> QED
      BY <3>1, <3>12 DEF r
  <2> QED
    BY <2>4, <2>5
<1>4. Len(s) \in Nat
  OBVIOUS
<1> HIDE DEF S
<1>5. Len(s) \in S
  BY <1>2, <1>3, <1>4, SetInduction
<1> QED
  BY <1>4, <1>5 DEF S

-----------------------------------------------------------------------------
(* What the sign-in form remembers, and how long it stays locked.          *)

Young == {t \in Nat : instant - t < WINDOW}

\* What the form ages: of the failures it kept, those within the window.
LEMMA RecentKeeps ==
  ASSUME failures \in Seq(Nat), instant \in Nat, ThrottleAssumption
  PROVE  /\ Recent \in Seq(Nat)
         /\ \E h : Embeds(h, Recent, failures, Young, Len(failures))
<1> DEFINE Test(n) == instant - failures[n] < WINDOW
           Rec(f) == f = [n \in 0..Len(failures) |->
                             IF n = 0 THEN <<>>
                             ELSE IF instant - failures[n] < WINDOW THEN Append(f[n - 1], failures[n]) ELSE f[n - 1]]
           f == CHOOSE g : Rec(g)
<1>1. Len(failures) \in Nat /\ \A n \in 1..Len(failures) : failures[n] \in Young <=> Test(n)
  BY DEF Young
<1>2. ASSUME NEW g PROVE Rec(g) <=> Sifts(g, failures, Young, Len(failures))
  <2>1. \A n \in 0..Len(failures) :
           SiftStep(g, failures, Young, n) =
             IF n = 0 THEN <<>>
             ELSE IF instant - failures[n] < WINDOW THEN Append(g[n - 1], failures[n]) ELSE g[n - 1]
    BY <1>1 DEF SiftStep
  <2> QED
    BY <2>1 DEF Sifts
<1>3. PICK g : Sifts(g, failures, Young, Len(failures))
  BY <1>1, SiftExists
<1>4. Rec(f)
  <2>1. Rec(g)
    BY <1>2, <1>3
  <2> QED
    BY <2>1, Zenon
<1>5. Recent = f[Len(failures)]
  BY DEF Recent
<1> HIDE DEF f, Rec
<1>6. Sifts(f, failures, Young, Len(failures))
  BY <1>2, <1>4
<1> QED
  BY <1>5, <1>6, SiftKeeps

\* Every failure that is not too old keeps a place of its own.
LEMMA RecentFacts ==
  ASSUME failures \in Seq(Nat), instant \in Nat, ThrottleAssumption
  PROVE  /\ Recent \in Seq(Nat)
         /\ \A i \in 1..Len(Recent) : \E n \in 1..Len(failures) : Recent[i] = failures[n]
         /\ \E h \in [1..Len(Recent) -> 1..Len(failures)] :
               /\ \A i \in 1..Len(Recent) : Recent[i] = failures[h[i]]
               /\ \A n \in 1..Len(failures) : instant - failures[n] < WINDOW => \E i \in 1..Len(Recent) : h[i] = n
<1>1. PICK h : Embeds(h, Recent, failures, Young, Len(failures))
  BY RecentKeeps
<1>2. h \in [1..Len(Recent) -> 1..Len(failures)] /\ \A i \in 1..Len(Recent) : Recent[i] = failures[h[i]]
  BY <1>1 DEF Embeds
<1>3. \A n \in 1..Len(failures) : instant - failures[n] < WINDOW => failures[n] \in Young
  BY DEF Young
<1>4. \A n \in 1..Len(failures) : instant - failures[n] < WINDOW => \E i \in 1..Len(Recent) : h[i] = n
  BY <1>1, <1>3 DEF Embeds
<1>5. Recent \in Seq(Nat)
  BY RecentKeeps
<1>6. \A i \in 1..Len(Recent) : h[i] \in 1..Len(failures)
  BY <1>2, <1>5
<1> QED
  BY <1>2, <1>4, <1>5, <1>6

\* What the form keeps of each failure that is not too old, at its place h.
Holds(h, kept, all, time) ==
  \A j \in 1..Len(all) :
    all[j] + WINDOW > time => \E i \in 1..Len(kept) : h[i] = j /\ kept[i] = all[j]
Remembered == \E h \in [1..Len(failures) -> Nat] : Holds(h, failures, heard, instant)

HeardInOrder ==
  \A i, j \in 1..Len(heard) : i <= j => heard[i] <= heard[j] /\ heard[j] <= instant

\* The threshold was reached at i, within one window.
Full(all, i) == i >= LOCKOUT_THRESHOLD /\ all[i] - all[i - LOCKOUT_THRESHOLD + 1] < WINDOW
LocksOut ==
  \A i \in 1..Len(heard) :
    Full(heard, i) => IF i = Len(heard) THEN lockedUntil >= heard[i] + LOCKOUT
                      ELSE heard[i + 1] >= heard[i] + LOCKOUT

ThrottleType ==
  /\ instant \in 0..MaxInstant /\ lockedUntil \in 0..MaxInstant + LOCKOUT
  /\ failures \in Seq(Nat) /\ heard \in Seq(Nat)
  /\ \A i \in 1..Len(failures) : failures[i] <= instant
  /\ pending \in BOOLEAN /\ throttle \in BOOLEAN
ThrottleInv ==
  /\ ThrottleType /\ HeardInOrder /\ Remembered /\ LocksOut
  /\ pending => lockedUntil <= instant

\* The settings of the brake.
LEMMA ThrottleNumbers ==
  /\ WINDOW \in Nat /\ LOCKOUT \in Nat /\ LOCKOUT_THRESHOLD \in Nat /\ MaxInstant \in Nat
  /\ WINDOW >= 1 /\ LOCKOUT >= 1 /\ LOCKOUT_THRESHOLD >= 1
  BY ThrottleAssumption DEF ThrottleAssumption

\* A form that was never used remembers whatever was heard: nothing.
LEMMA ThrottleStarts == ThrottleInit => ThrottleInv
<1> SUFFICES ASSUME ThrottleInit PROVE ThrottleInv
  OBVIOUS
<1> USE ThrottleNumbers
<1>1. Remembered
  <2>1. <<>> \in [1..0 -> Nat] /\ Len(failures) = 0 /\ Len(heard) = 0
    BY DEF ThrottleInit
  <2>2. Holds(<<>>, failures, heard, instant)
    BY <2>1 DEF Holds
  <2> QED
    BY <2>1, <2>2 DEF Remembered
<1>2. Len(heard) = 0 /\ Len(failures) = 0
  BY DEF ThrottleInit
<1>3. ThrottleType
  <2>1. failures \in Seq(Nat) /\ heard \in Seq(Nat)
    BY DEF ThrottleInit
  <2>2. pending \in BOOLEAN /\ throttle \in BOOLEAN
    BY Zenon DEF ThrottleInit
  <2>3. instant \in 0..MaxInstant /\ lockedUntil \in 0..MaxInstant + LOCKOUT
    BY DEF ThrottleInit
  <2> QED
    BY <1>2, <2>1, <2>3, <2>2 DEF ThrottleType
<1>4. HeardInOrder /\ LocksOut
  BY <1>2 DEF HeardInOrder, LocksOut
<1> QED
  BY <1>1, <1>3, <1>4 DEF ThrottleInit, ThrottleInv

\* A failure that is not too old stays remembered as time goes by.
LEMMA AgeingForgets ==
  ASSUME ThrottleType, Remembered, instant' \in Nat, instant' >= instant, failures' = failures, heard' = heard
  PROVE  Remembered'
<1>1. PICK h \in [1..Len(failures) -> Nat] : Holds(h, failures, heard, instant)
  BY DEF Remembered
<1>2. Holds(h, failures, heard, instant')
  <2> SUFFICES ASSUME NEW j \in 1..Len(heard), heard[j] + WINDOW > instant'
               PROVE  \E i \in 1..Len(failures) : h[i] = j /\ failures[i] = heard[j]
    BY DEF Holds
  <2>1. heard[j] \in Nat /\ heard[j] + WINDOW > instant
    BY ThrottleNumbers DEF ThrottleType
  <2> QED
    BY <1>1, <2>1 DEF Holds
<1> QED
  BY <1>1, <1>2 DEF Remembered

\* Only the answer of a failed attempt and a success change what is kept.
LEMMA ThrottleWaits ==
  ASSUME ThrottleInv, instant' \in {instant, instant + 1}, instant' <= MaxInstant, failures' = failures, heard' = heard,
         lockedUntil' = lockedUntil, throttle' \in BOOLEAN, pending' \in BOOLEAN, pending' => lockedUntil <= instant'
  PROVE  ThrottleInv'
<1> USE ThrottleNumbers
<1>1. ThrottleType'
  BY DEF ThrottleInv, ThrottleType
<1>2. HeardInOrder'
  <2> SUFFICES ASSUME NEW i \in 1..Len(heard), NEW j \in 1..Len(heard), i <= j
               PROVE  heard[i] <= heard[j] /\ heard[j] <= instant'
    BY DEF HeardInOrder
  <2> QED
    BY DEF ThrottleInv, ThrottleType, HeardInOrder
<1>3. Remembered'
  BY AgeingForgets DEF ThrottleInv, ThrottleType
<1>4. LocksOut'
  BY DEF ThrottleInv, LocksOut, Full
<1> QED
  BY <1>1, <1>2, <1>3, <1>4 DEF ThrottleInv

\* A window that holds the threshold is kept whole, so the form locks.
LEMMA FullIsKept ==
  ASSUME NEW kept \in Seq(Nat), NEW all \in Seq(Nat), NEW time \in Nat, NEW h \in [1..Len(kept) -> Nat],
         Holds(h, kept, all, time), \A i, j \in 1..Len(all) : i <= j => all[i] <= all[j],
         Len(all) >= 1, all[Len(all)] = time, Full(all, Len(all))
  PROVE  Len(kept) >= LOCKOUT_THRESHOLD
<1> USE ThrottleNumbers
<1> DEFINE n == Len(all)
           low == n - LOCKOUT_THRESHOLD + 1
           J == low..n
           D == 1..Len(kept)
           T == {h[i] : i \in D}
<1>1. n \in Nat /\ low \in 1..n /\ Len(kept) \in Nat /\ n - low + 1 = LOCKOUT_THRESHOLD
  BY DEF Full
<1>2. time - all[low] < WINDOW
  BY DEF Full
<1>3. \A j \in 1..n : all[j] \in Nat
  OBVIOUS
<1> HIDE DEF low
<1>4. \A j \in J : j \in 1..n /\ all[j] + WINDOW > time
  <2> SUFFICES ASSUME NEW j \in J PROVE j \in 1..n /\ all[j] + WINDOW > time
    OBVIOUS
  <2>1. j \in 1..n /\ low <= j
    BY <1>1
  <2>2. all[low] <= all[j] /\ all[j] \in Nat /\ all[low] \in Nat
    BY <1>1, <1>3, <2>1
  <2> QED
    BY <1>2, <2>1, <2>2, SMTT(30)
<1>5. \A j \in J : \E i \in D : h[i] = j
  BY <1>4 DEF Holds
<1>6. IsFiniteSet(D) /\ Cardinality(D) = Len(kept)
  <2>1. IsFiniteSet(1..Len(kept)) /\ Cardinality(1..Len(kept)) = IF 1 > Len(kept) THEN 0 ELSE Len(kept) - 1 + 1
    <3>1. 1 \in Int /\ Len(kept) \in Int
      BY <1>1
    <3> QED
      BY <3>1, FS_Interval
  <2> QED
    BY <1>1, <2>1
<1>7. IsFiniteSet(J) /\ Cardinality(J) = LOCKOUT_THRESHOLD
  <2>1. IsFiniteSet(J) /\ Cardinality(J) = IF low > n THEN 0 ELSE n - low + 1
    <3>1. low \in Int /\ n \in Int
      BY <1>1
    <3> QED
      BY <3>1, FS_Interval
  <2>2. ~(low > n)
    BY <1>1
  <2> HIDE DEF J, n
  <2> QED
    BY <1>1, <2>1, <2>2
<1>8. h \in Surjection(D, T)
  BY DEF Surjection
<1>9. IsFiniteSet(T) /\ Cardinality(T) <= Cardinality(D)
  <2> HIDE DEF D, T
  <2> QED
    BY <1>6, <1>8, FS_Surjection
<1>10. J \subseteq T
  BY <1>5
<1> HIDE DEF J, D, T
<1>11. Cardinality(J) <= Cardinality(T) /\ Cardinality(T) \in Nat
  BY <1>9, <1>10, FS_Subset, FS_CardinalityType
<1> QED
  BY <1>1, <1>6, <1>7, <1>9, <1>11

\* A failed attempt is remembered, and locks the form when it fills a window.
LEMMA FailureKeeps ==
  ASSUME ThrottleInv, LoginFails
  PROVE  ThrottleInv'
<1> USE ThrottleNumbers
<1> DEFINE m == Len(heard)
           r == Recent
           kept == Append(r, instant)
<1>1. /\ failures' = kept /\ heard' = Append(heard, instant) /\ instant' = instant /\ pending' = FALSE
      /\ lockedUntil' = IF Len(kept) >= LOCKOUT_THRESHOLD THEN instant + LOCKOUT
                        ELSE IF Locked THEN lockedUntil ELSE 0
      /\ lockedUntil <= instant
  BY DEF LoginFails, recordFailure, ThrottleInv
<1>2. /\ failures \in Seq(Nat) /\ heard \in Seq(Nat) /\ instant \in Nat /\ instant <= MaxInstant /\ m \in Nat
      /\ lockedUntil \in 0..MaxInstant + LOCKOUT /\ \A i \in 1..Len(failures) : failures[i] <= instant
  BY DEF ThrottleInv, ThrottleType
<1>3. r \in Seq(Nat) /\ \A i \in 1..Len(r) : \E n \in 1..Len(failures) : r[i] = failures[n]
  BY <1>2, RecentFacts, ThrottleAssumption
<1>4. PICK e \in [1..Len(r) -> 1..Len(failures)] :
         /\ \A i \in 1..Len(r) : r[i] = failures[e[i]]
         /\ \A n \in 1..Len(failures) : instant - failures[n] < WINDOW => \E i \in 1..Len(r) : e[i] = n
  BY <1>2, RecentFacts, ThrottleAssumption
<1> HIDE DEF r
<1>5. /\ kept \in Seq(Nat) /\ Len(kept) = Len(r) + 1 /\ kept[Len(r) + 1] = instant /\ Len(r) \in Nat
      /\ \A i \in 1..Len(r) : kept[i] = r[i]
  BY <1>2, <1>3
<1>6. /\ heard' \in Seq(Nat) /\ Len(heard') = m + 1 /\ heard'[m + 1] = instant
      /\ \A i \in 1..m : heard'[i] = heard[i] /\ heard[i] \in Nat
  BY <1>1, <1>2
<1>7. \A i \in 1..(m + 1) : i \in 1..m \/ i = m + 1
  BY <1>2
<1> HIDE DEF kept, m
<1>8. ThrottleType'
  <2>1. \A i \in 1..Len(kept) : kept[i] <= instant
    <3> TAKE i \in 1..Len(kept)
    <3>1. CASE i = Len(r) + 1
      BY <1>2, <1>5, <3>1
    <3>2. CASE i \in 1..Len(r)
      BY <1>2, <1>3, <1>5, <3>2
    <3> QED
      BY <1>5, <3>1, <3>2
  <2>2. lockedUntil' \in 0..MaxInstant + LOCKOUT
    BY <1>1, <1>2
  <2>3. throttle' \in BOOLEAN /\ pending' \in BOOLEAN
    BY Zenon DEF LoginFails, recordFailure, Allows
  <2> QED
    BY <1>1, <1>2, <1>5, <1>6, <2>1, <2>2, <2>3 DEF ThrottleType
<1>9. \A i, j \in 1..Len(heard') : i <= j => heard'[i] <= heard'[j] /\ heard'[j] <= instant'
  <2> SUFFICES ASSUME NEW i \in 1..(m + 1), NEW j \in 1..(m + 1), i <= j
               PROVE  heard'[i] <= heard'[j] /\ heard'[j] <= instant'
    BY <1>6
  <2>1. \A a, b \in 1..m : a <= b => heard[a] <= heard[b] /\ heard[b] <= instant
    BY DEF ThrottleInv, HeardInOrder, m
  <2>2. CASE j \in 1..m
    <3>1. i \in 1..m
      BY <2>2, <1>2
    <3> QED
      BY <1>1, <1>6, <2>1, <2>2, <3>1
  <2>3. CASE j = m + 1 /\ i \in 1..m
    <3>1. heard[i] <= instant
      BY <2>1, <2>3
    <3> QED
      BY <1>1, <1>2, <1>6, <2>3, <3>1
  <2>4. CASE j = m + 1 /\ i = m + 1
    BY <1>1, <1>2, <1>6, <2>4
  <2> QED
    BY <1>7, <2>2, <2>3, <2>4
<1>10. PICK h \in [1..Len(failures) -> Nat] : Holds(h, failures, heard, instant)
  BY DEF ThrottleInv, Remembered
<1> DEFINE g == [i \in 1..Len(kept) |-> IF i = Len(r) + 1 THEN m + 1 ELSE h[e[i]]]
<1>11. \A i \in 1..Len(r) : e[i] \in 1..Len(failures) /\ h[e[i]] \in Nat
  BY <1>4, <1>10
<1>12. g \in [1..Len(kept) -> Nat]
  BY <1>2, <1>5, <1>11
<1>13. Len(r) + 1 \in 1..Len(kept) /\ g[Len(r) + 1] = m + 1 /\ \A i \in 1..Len(r) : i \in 1..Len(kept) /\ g[i] = h[e[i]]
  BY <1>5
<1> HIDE DEF g
<1>14. Holds(g, kept, heard', instant')
  <2> SUFFICES ASSUME NEW j \in 1..(m + 1), heard'[j] + WINDOW > instant
               PROVE  \E i \in 1..Len(kept) : g[i] = j /\ kept[i] = heard'[j]
    BY <1>1, <1>6 DEF Holds
  <2>1. CASE j = m + 1
    BY <1>5, <1>6, <1>13, <2>1
  <2>2. CASE j \in 1..m
    <3>1. heard[j] + WINDOW > instant /\ heard[j] \in Nat
      BY <1>6, <2>2
    <3>2. PICK n \in 1..Len(failures) : h[n] = j /\ failures[n] = heard[j]
      BY <1>10, <2>2, <3>1 DEF Holds, m
    <3>3. instant - failures[n] < WINDOW
      BY <1>2, <3>1, <3>2, SMTT(30)
    <3>4. PICK i \in 1..Len(r) : e[i] = n
      BY <1>4, <3>3
    <3>5. g[i] = j /\ kept[i] = heard'[j]
      BY <1>4, <1>5, <1>6, <1>13, <2>2, <3>2, <3>4
    <3> QED
      BY <1>13, <3>5
  <2> QED
    BY <1>7, <2>1, <2>2
<1>15. Remembered'
  BY <1>1, <1>12, <1>14 DEF Remembered
<1>16. LocksOut'
  <2> SUFFICES ASSUME NEW i \in 1..(m + 1), Full(heard', i)
               PROVE  IF i = m + 1 THEN lockedUntil' >= heard'[i] + LOCKOUT ELSE heard'[i + 1] >= heard'[i] + LOCKOUT
    BY <1>6 DEF LocksOut
  <2>1. CASE i = m + 1
    <3>1. Len(kept) >= LOCKOUT_THRESHOLD
      <4>1. Len(heard') >= 1 /\ heard'[Len(heard')] = instant
        BY <1>2, <1>6
      <4>2. \A a, b \in 1..Len(heard') : a <= b => heard'[a] <= heard'[b]
        BY <1>9
      <4>3. Holds(g, kept, heard', instant)
        BY <1>1, <1>14
      <4>4. Full(heard', Len(heard'))
        BY <1>6, <2>1
      <4> QED
        BY <1>2, <1>5, <1>6, <1>12, <4>1, <4>2, <4>3, <4>4, FullIsKept
    <3> QED
      BY <1>1, <1>2, <1>6, <2>1, <3>1
  <2>2. CASE i \in 1..m
    <3>1. Full(heard, i)
      <4>1. i >= LOCKOUT_THRESHOLD /\ i - LOCKOUT_THRESHOLD + 1 \in 1..m
        BY <1>2, <2>2 DEF Full
      <4> QED
        BY <1>6, <2>2, <4>1 DEF Full
    <3>2. IF i = m THEN lockedUntil >= heard[i] + LOCKOUT ELSE heard[i + 1] >= heard[i] + LOCKOUT
      BY <2>2, <3>1 DEF ThrottleInv, LocksOut, m
    <3>3. CASE i = m
      BY <1>1, <1>2, <1>6, <2>2, <3>2, <3>3
    <3>4. CASE i # m
      <4>1. i + 1 \in 1..m
        BY <1>2, <2>2, <3>4
      <4> QED
        BY <1>2, <1>6, <2>2, <3>2, <3>4, <4>1, SMTT(30)
    <3> QED
      BY <3>3, <3>4
  <2> QED
    BY <1>7, <2>1, <2>2
<1> QED
  BY <1>1, <1>8, <1>9, <1>15, <1>16 DEF ThrottleInv, HeardInOrder

\* Every step of the form keeps what it knows.
LEMMA ThrottleStep ==
  ASSUME ThrottleInv, [ThrottleNext]_throttleVars
  PROVE  ThrottleInv'
<1> USE ThrottleNumbers
<1>1. pending \in BOOLEAN /\ throttle \in BOOLEAN /\ (pending => lockedUntil <= instant) /\ instant \in 0..MaxInstant
  BY DEF ThrottleInv, ThrottleType
<1>2. checkThrottle \in BOOLEAN /\ (checkThrottle => lockedUntil <= instant)
  BY Zenon DEF checkThrottle, Allows
<1>3. lockedUntil \in Nat
  BY DEF ThrottleInv, ThrottleType
<1>4. CASE Tick
  <2>1. instant' \in {instant, instant + 1} /\ instant' <= MaxInstant /\ lockedUntil <= instant => lockedUntil <= instant'
    BY <1>1, <1>3, <1>4 DEF Tick
  <2> QED
    BY <1>1, <1>4, <2>1, ThrottleWaits DEF Tick
<1>5. CASE Countdown
  BY <1>1, <1>2, <1>5, ThrottleWaits DEF Countdown
<1>6. CASE AttemptLogin
  BY <1>1, <1>2, <1>6, ThrottleWaits DEF AttemptLogin
<1>7. CASE LoginFails
  BY <1>7, FailureKeeps
<1>8. CASE LoginSucceeds
  <2>1. /\ failures' = <<>> /\ heard' = <<>> /\ Len(failures') = 0 /\ Len(heard') = 0
        /\ lockedUntil' = 0 /\ instant' = instant /\ pending' = FALSE /\ throttle' = TRUE
        /\ failures' \in Seq(Nat) /\ heard' \in Seq(Nat)
    BY <1>8 DEF LoginSucceeds
  <2>2. ThrottleType'
    <3>1. pending' \in BOOLEAN /\ throttle' \in BOOLEAN
      BY <2>1, Zenon
    <3> QED
      BY <1>1, <2>1, <3>1 DEF ThrottleType
  <2>3. <<>> \in [1..0 -> Nat]
    OBVIOUS
  <2>4. Holds(<<>>, failures', heard', instant')
    BY <2>1 DEF Holds
  <2>5. Remembered'
    BY <2>1, <2>3, <2>4 DEF Remembered
  <2>6. HeardInOrder' /\ LocksOut'
    BY <2>1 DEF HeardInOrder, LocksOut
  <2> QED
    BY <2>1, <2>2, <2>5, <2>6 DEF ThrottleInv
<1>9. CASE ReloadLogin
  <2>1. pending' \in BOOLEAN /\ ~pending' /\ throttle' \in BOOLEAN
    BY <1>2, <1>9, Zenon DEF ReloadLogin
  <2> QED
    BY <1>1, <1>9, <2>1, ThrottleWaits DEF ReloadLogin
<1>10. CASE UNCHANGED throttleVars
  BY <1>1, <1>10, ThrottleWaits DEF throttleVars
<1> QED
  BY <1>4, <1>5, <1>6, <1>7, <1>8, <1>9, <1>10 DEF ThrottleNext

-----------------------------------------------------------------------------
(* The failures of one window.                                             *)

\* What a whole division tells.
LEMMA Quotient ==
  ASSUME NEW e \in Nat, NEW d \in Nat, NEW n \in Nat, d >= 1, e * d <= n
  PROVE  e <= n \div d
<1> DEFINE q == n \div d
<1>1. q \in Nat /\ n < (q + 1) * d
  OBVIOUS
<1> HIDE DEF q
<1>2. ASSUME q < e PROVE FALSE
  <2>1. q + 1 <= e
    BY <1>1, <1>2
  <2>2. (q + 1) * d <= e * d
    BY <1>1, <2>1
  <2> QED
    BY <1>1, <2>2
<1> QED
  BY <1>1, <1>2 DEF q

\* From the threshold on, the failures of a window lie a lockout apart.
LEMMA LockoutsSpace ==
  ASSUME ThrottleInv, NEW p \in 1..Len(heard), NEW q \in 1..Len(heard),
         p + LOCKOUT_THRESHOLD - 1 <= q, heard[q] - heard[p] < WINDOW
  PROVE  heard[q] >= heard[p + LOCKOUT_THRESHOLD - 1] + (q - (p + LOCKOUT_THRESHOLD - 1)) * LOCKOUT
<1> USE ThrottleNumbers
<1> DEFINE first == p + LOCKOUT_THRESHOLD - 1
           S == {d \in Nat : first + d <= q => heard[first + d] >= heard[first] + d * LOCKOUT}
<1>1. /\ first \in 1..q /\ first \in Nat /\ q <= Len(heard) /\ Len(heard) \in Nat
      /\ \A i \in 1..Len(heard) : heard[i] \in Nat
      /\ \A i, j \in 1..Len(heard) : i <= j => heard[i] <= heard[j]
  BY DEF ThrottleInv, ThrottleType, HeardInOrder
<1> HIDE DEF first
<1>2. 0 \in S
  BY <1>1
<1>3. ASSUME NEW d \in Nat, d \in S
      PROVE  d + 1 \in S
  <2> SUFFICES ASSUME first + (d + 1) <= q
               PROVE  heard[first + (d + 1)] >= heard[first] + (d + 1) * LOCKOUT
    OBVIOUS
  <2> DEFINE i == first + d
             low == i - LOCKOUT_THRESHOLD + 1
  <2>1. /\ i \in 1..Len(heard) /\ i + 1 \in 1..Len(heard) /\ i # Len(heard) /\ i <= q /\ i + 1 = first + (d + 1)
        /\ i >= LOCKOUT_THRESHOLD /\ low \in 1..Len(heard) /\ p <= low
    BY <1>1 DEF first
  <2>2. heard[i] >= heard[first] + d * LOCKOUT
    BY <1>3, <2>1
  <2>3. heard[i] <= heard[q] /\ heard[p] <= heard[low]
    BY <1>1, <2>1
  <2>4. heard[i] \in Nat /\ heard[q] \in Nat /\ heard[p] \in Nat /\ heard[low] \in Nat /\ heard[i + 1] \in Nat
        /\ heard[first] \in Nat
    BY <1>1, <2>1
  <2>5. heard[q] - heard[p] < WINDOW
    OBVIOUS
  <2>6. Full(heard, i)
    <3>1. low = i - LOCKOUT_THRESHOLD + 1
      OBVIOUS
    <3> HIDE DEF low, i
    <3>2. heard[i] - heard[low] < WINDOW
      <4> DEFINE a == heard[i]
                 b == heard[low]
                 c == heard[p]
                 e == heard[q]
      <4>1. /\ a \in Nat /\ b \in Nat /\ c \in Nat /\ e \in Nat
            /\ a <= e /\ c <= b /\ e - c < WINDOW
        BY <2>3, <2>4, <2>5
      <4> HIDE DEF a, b, c, e
      <4>2. a - b < WINDOW
        BY <4>1
      <4> QED
        BY <4>2 DEF a, b
    <3> QED
      BY <2>1, <3>1, <3>2 DEF Full
  <2> DEFINE far == d * LOCKOUT
  <2>7. heard[i + 1] >= heard[i] + LOCKOUT
    BY <2>1, <2>6 DEF ThrottleInv, LocksOut
  <2>8. (d + 1) * LOCKOUT = far + LOCKOUT /\ far \in Nat
    OBVIOUS
  <2>9. heard[i] >= heard[first] + far
    BY <2>2
  <2> HIDE DEF far, i
  <2>10. heard[i + 1] >= heard[first] + (far + LOCKOUT)
    <3> DEFINE a == heard[i]
               b == heard[i + 1]
               c == heard[first]
    <3>1. a \in Nat /\ b \in Nat /\ c \in Nat /\ far \in Nat /\ b >= a + LOCKOUT /\ a >= c + far
      BY <2>4, <2>7, <2>8, <2>9
    <3> HIDE DEF a, b, c
    <3>2. b >= c + (far + LOCKOUT)
      BY <3>1
    <3> QED
      BY <3>2 DEF b, c
  <2> QED
    BY <2>1, <2>8, <2>10
<1>4. q - first \in Nat
  BY <1>1
<1> HIDE DEF S
<1>5. q - first \in S
  BY <1>2, <1>3, <1>4, SetInduction
<1>6. first + (q - first) = q
  BY <1>1
<1> QED
  BY <1>1, <1>5, <1>6 DEF S, first

\* So a window of time holds few failures.
LEMMA WindowsHoldFew ==
  ASSUME ThrottleInv
  PROVE  GuessesAreBounded
<1> USE ThrottleNumbers
<1> DEFINE most == LOCKOUT_THRESHOLD + (WINDOW - 1) \div LOCKOUT
<1>1. /\ heard \in Seq(Nat) /\ Len(heard) \in Nat /\ DOMAIN heard = 1..Len(heard)
      /\ \A i \in 1..Len(heard) : heard[i] \in Nat
      /\ \A i, j \in 1..Len(heard) : i <= j => heard[i] <= heard[j]
  BY DEF ThrottleInv, ThrottleType, HeardInOrder
<1>2. (WINDOW - 1) \div LOCKOUT \in Nat
  OBVIOUS
<1> SUFFICES ASSUME NEW t \in Nat
             PROVE  Cardinality({i \in 1..Len(heard) : t <= heard[i] /\ heard[i] < t + WINDOW}) <= most
  <2>1. \A t \in Range(heard) : t \in Nat
    BY <1>1 DEF Range
  <2> QED
    BY <1>1, <2>1 DEF GuessesAreBounded
<1> DEFINE W == {i \in 1..Len(heard) : t <= heard[i] /\ heard[i] < t + WINDOW}
<1>3. ASSUME NEW p \in W, NEW q \in W, p <= q
      PROVE  q - p + 1 <= most
  <2>1. /\ p \in 1..Len(heard) /\ q \in 1..Len(heard) /\ heard[q] - heard[p] < WINDOW
        /\ heard[p] \in Nat /\ heard[q] \in Nat
    BY <1>1, <1>3
  <2>2. CASE p + LOCKOUT_THRESHOLD - 1 > q
    BY <1>2, <2>1, <2>2
  <2>3. CASE p + LOCKOUT_THRESHOLD - 1 <= q
    <3> DEFINE first == p + LOCKOUT_THRESHOLD - 1
               e == q - first
    <3>1. heard[q] >= heard[first] + e * LOCKOUT
      BY <2>1, <2>3, LockoutsSpace
    <3>2. first \in 1..Len(heard) /\ p <= first /\ e \in Nat /\ q - p + 1 = LOCKOUT_THRESHOLD + e
      BY <1>1, <2>1, <2>3
    <3>3. heard[first] \in Nat /\ heard[p] <= heard[first]
      BY <1>1, <2>1, <3>2
    <3> HIDE DEF first, e
    <3>4. e * LOCKOUT \in Nat /\ e * LOCKOUT <= WINDOW - 1
      BY <2>1, <3>1, <3>2, <3>3, SMTT(30)
    <3>5. e <= (WINDOW - 1) \div LOCKOUT
      <4>1. WINDOW - 1 \in Nat /\ LOCKOUT \in Nat /\ LOCKOUT >= 1 /\ e \in Nat
        BY <3>2
      <4>2. e * LOCKOUT <= WINDOW - 1
        BY <3>4
      <4> QED
        BY <4>1, <4>2, Quotient, Zenon
    <3> QED
      BY <1>2, <3>2, <3>5
  <2> QED
    BY <2>1, <2>2, <2>3
<1>4. IsFiniteSet(1..Len(heard)) /\ W \subseteq 1..Len(heard)
  BY <1>1, FS_Interval
<1>5. CASE W = {}
  BY <1>2, <1>5, FS_EmptySet
<1>6. CASE W # {}
  <2> HIDE DEF W
  <2>1. PICK p \in W : \A i \in W : p <= i
    <3>1. W \subseteq Nat
      BY <1>1, <1>4
    <3>2. PICK p \in W : \A i \in W : ~(<<i, p>> \in OpToRel(<, Nat))
      BY <1>6, <3>1, NatLessThanWellFounded, WFMin
    <3>3. \A i \in W : ~(i < p)
      BY <3>1, <3>2 DEF OpToRel
    <3>4. \A i \in W : i \in Nat /\ p \in Nat
      BY <3>1
    <3>5. \A i \in W : p <= i
      BY <3>3, <3>4
    <3> QED
      BY <3>5
  <2>2. p \in 1..Len(heard)
    BY <1>4
  <2>3. W \subseteq p..(p + most - 1)
    BY <1>1, <1>2, <1>3, <1>4, <2>1, <2>2
  <2>4. IsFiniteSet(p..(p + most - 1)) /\ Cardinality(p..(p + most - 1)) = most
    <3>1. p \in Int /\ p + most - 1 \in Int /\ most >= 1
      BY <1>1, <1>2, <2>2
    <3> HIDE DEF most
    <3>2. most \in Int
      BY <1>2 DEF most
    <3>3. /\ IsFiniteSet(p..(p + most - 1))
          /\ Cardinality(p..(p + most - 1)) = IF p > p + most - 1 THEN 0 ELSE (p + most - 1) - p + 1
      BY <3>1, FS_Interval
    <3> QED
      BY <3>1, <3>2, <3>3
  <2> HIDE DEF most
  <2>5. Cardinality(W) <= most
    BY <2>3, <2>4, FS_Subset
  <2> QED
    BY <2>5 DEF W
<1> QED
  BY <1>5, <1>6

\* However the attempts are timed, no window of time holds more failures than
\* the threshold and one for every lockout that ended within it.
THEOREM GuessesStayBounded == ThrottleSpec => []GuessesAreBounded
<1>1. ThrottleInit => ThrottleInv
  BY ThrottleStarts
<1>2. ThrottleInv /\ [ThrottleNext]_throttleVars => ThrottleInv'
  BY ThrottleStep
<1>3. ThrottleInv => GuessesAreBounded
  BY WindowsHoldFew
<1> QED
  BY <1>1, <1>2, <1>3, PTL DEF ThrottleSpec

\* The state of the brake stays within its type.
THEOREM ThrottleTypeCorrect == ThrottleSpec => []ThrottleTypeOK
<1>1. ThrottleInit => ThrottleInv
  BY ThrottleStarts
<1>2. ThrottleInv /\ [ThrottleNext]_throttleVars => ThrottleInv'
  BY ThrottleStep
<1>3. ThrottleInv => ThrottleTypeOK
  <2> SUFFICES ASSUME ThrottleInv PROVE ThrottleTypeOK
    OBVIOUS
  <2>1. ThrottleType /\ HeardInOrder
    BY DEF ThrottleInv
  <2>2. Range(failures) = {failures[i] : i \in 1..Len(failures)} /\ Range(heard) = {heard[i] : i \in 1..Len(heard)}
    BY <2>1 DEF ThrottleType, Range
  <2>3. Range(failures) \subseteq 0..instant
    BY <2>1, <2>2, ThrottleNumbers DEF ThrottleType
  <2>4. Range(heard) \subseteq 0..instant
    BY <2>1, <2>2, ThrottleNumbers DEF ThrottleType, HeardInOrder
  <2> QED
    BY <2>1, <2>3, <2>4 DEF ThrottleTypeOK, ThrottleType
<1> QED
  BY <1>1, <1>2, <1>3, PTL DEF ThrottleSpec

-----------------------------------------------------------------------------
(* The shell of the pages.                                                 *)

Others(s, x) == {s[n] : n \in 1..Len(s)} \ {x}

\* A list without one element keeps the others, each once if it was.
LEMMA WithoutKeeps ==
  ASSUME NEW T, NEW s \in Seq(T), NEW x
  PROVE  /\ AllBut(s, x) \in Seq(T)
         /\ \E h : Embeds(h, AllBut(s, x), s, Others(s, x), Len(s))
<1> DEFINE Rec(f) == f = [n \in 0..Len(s) |->
                             IF n = 0 THEN <<>> ELSE IF s[n] = x THEN f[n - 1] ELSE Append(f[n - 1], s[n])]
           f == CHOOSE g : Rec(g)
<1>1. Len(s) \in Nat /\ \A n \in 1..Len(s) : s[n] \in Others(s, x) <=> s[n] # x
  BY DEF Others
<1>2. ASSUME NEW g PROVE Rec(g) <=> Sifts(g, s, Others(s, x), Len(s))
  <2>1. \A n \in 0..Len(s) :
           SiftStep(g, s, Others(s, x), n) =
             IF n = 0 THEN <<>> ELSE IF s[n] = x THEN g[n - 1] ELSE Append(g[n - 1], s[n])
    BY <1>1 DEF SiftStep
  <2> QED
    BY <2>1 DEF Sifts
<1>3. PICK g : Sifts(g, s, Others(s, x), Len(s))
  BY <1>1, SiftExists
<1>4. Rec(f)
  <2>1. Rec(g)
    BY <1>2, <1>3
  <2> QED
    BY <2>1, Zenon
<1>5. AllBut(s, x) = f[Len(s)]
  BY DEF AllBut
<1> HIDE DEF f, Rec
<1>6. Sifts(f, s, Others(s, x), Len(s))
  BY <1>2, <1>4
<1> QED
  BY <1>5, <1>6, SiftKeeps

\* The same of AllBut, which is defined by its own recursion.
LEMMA WithoutFacts ==
  ASSUME NEW T, NEW s \in Seq(T), NEW x
  PROVE  /\ AllBut(s, x) \in Seq(T) /\ Len(AllBut(s, x)) <= Len(s)
         /\ \A i \in 1..Len(AllBut(s, x)) : /\ AllBut(s, x)[i] # x
                                             /\ \E n \in 1..Len(s) : AllBut(s, x)[i] = s[n]
         /\ (\A i, j \in 1..Len(s) : s[i] = s[j] => i = j) =>
               \A i, j \in 1..Len(AllBut(s, x)) : AllBut(s, x)[i] = AllBut(s, x)[j] => i = j
<1> DEFINE r == AllBut(s, x)
<1>1. PICK h : Embeds(h, r, s, Others(s, x), Len(s))
  BY WithoutKeeps
<1>2. r \in Seq(T)
  BY WithoutKeeps
<1> HIDE DEF r
<1>3. /\ Len(r) <= Len(s) /\ Len(r) \in Nat /\ Len(s) \in Nat
      /\ \A i \in 1..Len(r) : h[i] \in 1..Len(s) /\ r[i] = s[h[i]] /\ r[i] \in Others(s, x)
      /\ \A i, j \in 1..Len(r) : i < j => h[i] < h[j]
  BY <1>1, <1>2 DEF Embeds
<1>4. \A i \in 1..Len(r) : r[i] # x /\ \E n \in 1..Len(s) : r[i] = s[n]
  BY <1>3 DEF Others
<1>5. ASSUME \A i, j \in 1..Len(s) : s[i] = s[j] => i = j, NEW i \in 1..Len(r), NEW j \in 1..Len(r), r[i] = r[j]
      PROVE  i = j
  <2>1. h[i] = h[j] /\ h[i] \in 1..Len(s)
    BY <1>3, <1>5
  <2>2. ~(i < j) /\ ~(j < i)
    BY <1>3, <2>1
  <2> QED
    BY <1>3, <2>2
<1> QED
  BY <1>2, <1>3, <1>4, <1>5 DEF r

\* Where somebody can go, and what an address can hold of it.
Sights == {t.view : t \in Targets} \cup Range(Landing) \cup {"dashboard", "messages", "finance"}
Narrowings == {t.rest : t \in Targets} \cup {Plain}
Goals == [view : Sights, rest : Narrowings]
Safe == {t \in Goals : t.rest \notin UnsafeRests}
Locations == [fragment : Safe \cup {None}, path : Safe \cup {None}]

\* What can be navigated to, and home, are goals; None is no goal.
LEMMA GoalFacts ==
  /\ Targets \subseteq Goals /\ None \notin Goals /\ Home \in Safe /\ Safe \subseteq Goals
  /\ \A v \in Sights : [view |-> v, rest |-> Plain] \in Goals
<1>1. {t.rest : t \in Targets} \subseteq Narrowings /\ {t.view : t \in Targets} \subseteq Sights
  BY DEF Narrowings, Sights
<1>2. Targets \subseteq Goals
  BY <1>1, ShellAssumption DEF ShellAssumption, Goals
<1>3. None \notin Goals
  BY ShellAssumption DEF ShellAssumption, Goals, Narrowings, Sights
<1>4. \A v \in Sights : [view |-> v, rest |-> Plain] \in Goals
  BY DEF Goals, Narrowings
<1>5. Home \in Goals /\ Home.rest = Plain
  BY <1>4 DEF Home, Sights
<1> QED
  BY <1>2, <1>3, <1>4, <1>5, ShellAssumption DEF ShellAssumption, Safe

\* What a goal writes into the address bar is read back as that goal, or as
\* its view alone where its rest is unsafe.
LEMMA FormatFacts ==
  ASSUME NEW t \in Goals
  PROVE  /\ formatPath(t) \in Locations /\ formatPath(t).fragment = None
         /\ formatPath(t).path \in Safe /\ formatPath(t).path # None
         /\ readTarget(formatPath(t)) = formatPath(t).path
         /\ t \in Safe => formatPath(t).path = t
<1>1. [t EXCEPT !.rest = Plain] \in Safe
  BY ShellAssumption DEF ShellAssumption, Goals, Narrowings, Safe
<1>2. t \in Safe <=> t.rest \notin UnsafeRests
  BY DEF Safe
<1>3. formatPath(t).path \in Safe /\ formatPath(t).fragment = None /\ formatPath(t) = [fragment |-> None, path |-> formatPath(t).path]
  BY <1>1, <1>2 DEF formatPath
<1>4. formatPath(t).path # None
  BY <1>3, GoalFacts
<1> QED
  BY <1>2, <1>3, <1>4 DEF formatPath, readTarget, Locations

\* What is read from an address is safe to write.
LEMMA ReadFacts ==
  ASSUME NEW a \in Locations
  PROVE  readTarget(a) \in Safe
  BY GoalFacts DEF Locations, readTarget

(* The address bar.                                                        *)
AddressInv ==
  /\ trail \in Seq(Locations) /\ at \in 1..Len(trail) /\ Len(trail) <= MaxEntries + 1
  /\ mounted \in BOOLEAN /\ shown \in Goals
  /\ AddressTells

\* The bar holds an address of the history.
LEMMA BarIsALocation ==
  ASSUME AddressInv
  PROVE  Bar \in Locations
  BY DEF AddressInv, Bar

\* A new entry follows the one in the bar, and is in it.
LEMMA EntryFollows ==
  ASSUME AddressInv, NEW a \in Locations, at < MaxEntries,
         trail' = Append(SubSeq(trail, 1, at), a), at' = at + 1
  PROVE  /\ trail' \in Seq(Locations) /\ at' \in 1..Len(trail') /\ Len(trail') <= MaxEntries + 1
         /\ Bar' = a
<1> USE ShellAssumption DEF ShellAssumption
<1>1. trail \in Seq(Locations) /\ at \in 1..Len(trail)
  BY DEF AddressInv
<1>2. SubSeq(trail, 1, at) \in Seq(Locations) /\ Len(SubSeq(trail, 1, at)) = at
  BY <1>1
<1>3. trail' \in Seq(Locations) /\ Len(trail') = at + 1 /\ trail'[at + 1] = a
  BY <1>1, <1>2
<1> QED
  BY <1>1, <1>3 DEF Bar

\* Navigation keeps bar and view together, pushed or replaced.
LEMMA Moves ==
  ASSUME AddressInv, NEW t \in Goals, navigate(t), mounted' = mounted
  PROVE  AddressInv'
<1>1. shown' = t /\ formatPath(t) \in Locations /\ readTarget(formatPath(t)) = formatPath(t).path
  BY FormatFacts DEF navigate, applyTarget
<1>2. CASE Bar = formatPath(t)
  <2>1. trail' = trail /\ at' = at
    BY <1>2 DEF navigate, address
  <2> QED
    BY <1>1, <1>2, <2>1 DEF AddressInv, AddressTells, Bar
<1>3. CASE Bar # formatPath(t)
  <2>1. at < MaxEntries /\ trail' = Append(SubSeq(trail, 1, at), formatPath(t)) /\ at' = at + 1
    BY <1>3 DEF navigate
  <2>2. /\ trail' \in Seq(Locations) /\ at' \in 1..Len(trail') /\ Len(trail') <= MaxEntries + 1
        /\ Bar' = formatPath(t)
    BY <1>1, <2>1, EntryFollows
  <2> QED
    BY <1>1, <2>2 DEF AddressInv, AddressTells
<1> QED
  BY <1>2, <1>3

\* A step that does not navigate keeps them so.
LEMMA AddressStays ==
  ASSUME AddressInv, trail' = trail, at' = at, mounted' = mounted, shown' = shown
  PROVE  AddressInv'
  BY DEF AddressInv, AddressTells, Bar

(* The overlays.                                                           *)
OverlayInv ==
  /\ palette \in BOOLEAN /\ drawer \in BOOLEAN /\ locked \in BOOLEAN /\ undone \in BOOLEAN
  /\ action \in QuickActions \cup {None}
  /\ LockFollowsOverlays

\* A target that is applied closes the palette, and the lock goes with what
\* covers the page.
LEMMA Applies ==
  ASSUME OverlayInv, NEW t, applyTarget(t), action' \in {action, None}
  PROVE  OverlayInv'
<1>1. /\ palette' = FALSE /\ drawer' = (drawer /\ t = shown)
      /\ undone' = (~palette /\ action' # None /\ (undone \/ (drawer /\ ~drawer')))
      /\ locked' = IF palette' # palette \/ action' # action THEN action' # None
                   ELSE IF drawer /\ ~drawer' THEN FALSE ELSE locked
  BY DEF applyTarget, LockAfter
<1>2. palette' \in BOOLEAN /\ drawer' \in BOOLEAN /\ locked' \in BOOLEAN /\ undone' \in BOOLEAN
  BY <1>1, Zenon DEF OverlayInv
<1>3. action' \in QuickActions \cup {None}
  BY DEF OverlayInv
<1>4. LockFollowsOverlays'
  BY <1>1 DEF OverlayInv, LockFollowsOverlays
<1> QED
  BY <1>2, <1>3, <1>4 DEF OverlayInv

\* A step that leaves the overlays alone keeps the lock.
LEMMA OverlaysStay ==
  ASSUME OverlayInv, UNCHANGED overlays
  PROVE  OverlayInv'
  BY DEF OverlayInv, LockFollowsOverlays, overlays

(* The search of the palette.                                              *)
FoundWhatIsAsked(a) == a.found = <<>> \/ (a.key \in Phrases /\ a.found = Finds[a.key])
SearchInv ==
  /\ query \in Phrases \cup {Untyped} /\ told \in Goals \cup {None} /\ active \in Nat /\ asked \subseteq Phrases
  /\ answer \in [key : Phrases \cup {Untyped}, found : Seq(Targets)] /\ FoundWhatIsAsked(answer)
  /\ KeysRunWhatWasAsked

RecentsInv == recents \in Seq(Goals) /\ Len(recents) <= RECENT_MAX /\ RecentsAreDistinct

ToastInv == acted \in Nat /\ toasts \in Seq(Nat) /\ ToastsFade

ShellInv == AddressInv /\ OverlayInv /\ SearchInv /\ RecentsInv /\ ToastInv

\* What an item of the palette leads to.
LEMMA ItemFacts ==
  ASSUME NEW item \in Items
  PROVE  /\ item.kind # "record"
         /\ item.kind = "verb" => item.target \in Goals
         /\ item.kind = "words" => item.phrase \in Phrases /\ item.target \in Goals
<1>1. CASE \E t \in Targets : item = Verb(t)
  BY <1>1, GoalFacts DEF Verb
<1>2. CASE \E id \in QuickActions : item = Doing(id)
  BY <1>2 DEF Doing
<1>3. CASE \E phrase \in Phrases, t \in Targets : item = Words(phrase, t)
  BY <1>3, GoalFacts DEF Words
<1> QED
  BY <1>1, <1>2, <1>3 DEF Items

\* Two lists of items in a row are a list of both.
LEMMA CatFacts ==
  ASSUME NEW A, NEW B, NEW s \in Seq(A), NEW u \in Seq(B)
  PROVE  /\ DOMAIN (s \o u) = 1..(Len(s) + Len(u))
         /\ \A i \in 1..Len(s) : (s \o u)[i] = s[i]
         /\ \A i \in 1..(Len(s) + Len(u)) : i \notin 1..Len(s) =>
                i - Len(s) \in 1..Len(u) /\ (s \o u)[i] = u[i - Len(s)]
<1>1. s \in Seq(A \cup B) /\ u \in Seq(A \cup B)
  <2>1. \A i \in 1..Len(s) : s[i] \in A \cup B
    OBVIOUS
  <2>2. \A i \in 1..Len(u) : u[i] \in A \cup B
    OBVIOUS
  <2> QED
    BY <2>1, <2>2
<1> QED
  BY <1>1

\* The items shown are offers, and records of the last answer.
LEMMA FlatFacts ==
  ASSUME SearchInv, RecentsInv, active \in DOMAIN flat
  PROVE  /\ flat[active].kind \in {"record", "verb"} => flat[active].target \in Goals
         /\ flat[active].kind = "record" => query \in Phrases /\ flat[active].target \in Range(Finds[query])
         /\ flat[active].kind = "words" => flat[active].phrase \in Phrases /\ flat[active].target \in Goals
<1> DEFINE rs == [i \in DOMAIN recents |-> Verb(recents[i])]
           found == useDomainSearchResults
           fs == [i \in DOMAIN found |-> Record(found[i])]
           Verbs == {Verb(t) : t \in Goals}
           Hits == {Record(t) : t \in Targets}
<1>1. query \in Phrases \cup {Untyped} /\ Offers[query] \in Seq(Items)
  BY OffersAssumption DEF OffersAssumption, SearchInv
<1>2. rs \in Seq(Verbs) /\ Len(rs) = Len(recents) /\ Len(recents) \in Nat
      /\ \A i \in 1..Len(recents) : rs[i] = Verb(recents[i]) /\ recents[i] \in Goals
  BY DEF RecentsInv
<1>3. found \in Seq(Targets) /\ (found = <<>> \/ (query \in Phrases /\ found = Finds[query]))
  BY DEF SearchInv, FoundWhatIsAsked, useDomainSearchResults
<1> HIDE DEF found
<1>4. fs \in Seq(Hits) /\ Len(fs) = Len(found) /\ Len(found) \in Nat
      /\ \A i \in 1..Len(found) : fs[i] = Record(found[i]) /\ found[i] \in Targets
  BY <1>3
<1>5. flat = IF query = Untyped THEN rs \o Offers[Untyped] ELSE fs \o Offers[query]
  BY DEF flat, found
<1> HIDE DEF rs, fs, Verbs, Hits
<1>6. CASE query = Untyped
  <2> DEFINE os == Offers[Untyped]
  <2>1. os \in Seq(Items) /\ Len(os) \in Nat
    BY <1>1, <1>6
  <2> HIDE DEF os
  <2>2. flat = rs \o os
    BY <1>5, <1>6 DEF os
  <2>3. DOMAIN flat = 1..(Len(rs) + Len(os))
    <3>1. rs \in Seq(Verbs) /\ os \in Seq(Items)
      BY <1>2, <2>1
    <3>2. DOMAIN (rs \o os) = 1..(Len(rs) + Len(os))
      BY <3>1, CatFacts
    <3> QED
      BY <2>2, <3>2, Zenon
  <2>4. CASE active \in 1..Len(rs)
    <3>1. flat[active] = rs[active]
      BY <1>2, <2>1, <2>2, <2>4, CatFacts
    <3>2. flat[active] = Verb(recents[active]) /\ recents[active] \in Goals
      BY <1>2, <2>4, <3>1
    <3> QED
      BY <3>2 DEF Verb
  <2>5. CASE active \notin 1..Len(rs)
    <3>1. active - Len(rs) \in 1..Len(os) /\ flat[active] = os[active - Len(rs)]
      BY <1>2, <2>1, <2>2, <2>3, <2>5, CatFacts
    <3>2. flat[active] \in Items
      BY <2>1, <3>1
    <3> QED
      BY <3>2, ItemFacts
  <2> QED
    BY <2>4, <2>5
<1>7. CASE query # Untyped
  <2> DEFINE os == Offers[query]
  <2>1. os \in Seq(Items) /\ Len(os) \in Nat
    BY <1>1
  <2> HIDE DEF os
  <2>2. flat = fs \o os
    BY <1>5, <1>7 DEF os
  <2>3. DOMAIN flat = 1..(Len(fs) + Len(os))
    <3>1. fs \in Seq(Hits) /\ os \in Seq(Items)
      BY <1>4, <2>1
    <3>2. DOMAIN (fs \o os) = 1..(Len(fs) + Len(os))
      BY <3>1, CatFacts
    <3> QED
      BY <2>2, <3>2, Zenon
  <2>4. CASE active \in 1..Len(fs)
    <3>1. flat[active] = fs[active]
      BY <1>4, <2>1, <2>2, <2>4, CatFacts
    <3>2. flat[active] = Record(found[active]) /\ found[active] \in Targets
      BY <1>4, <2>4, <3>1
    <3>3. found # <<>>
      BY <1>4, <2>4
    <3>4. found[active] \in Range(Finds[query]) /\ query \in Phrases
      BY <1>3, <1>4, <2>4, <3>3 DEF Range
    <3> QED
      BY <3>2, <3>4, GoalFacts DEF Record
  <2>5. CASE active \notin 1..Len(fs)
    <3>1. active - Len(fs) \in 1..Len(os) /\ flat[active] = os[active - Len(fs)]
      BY <1>4, <2>1, <2>2, <2>3, <2>5, CatFacts
    <3>2. flat[active] \in Items
      BY <2>1, <3>1
    <3> QED
      BY <3>2, ItemFacts
  <2> QED
    BY <2>4, <2>5
<1> QED
  BY <1>6, <1>7

\* The field is written: what was found is forgotten with the words.
LEMMA Queries ==
  ASSUME SearchInv, NEW phrase \in Phrases \cup {Untyped}, Query(phrase),
         told' \in Goals \cup {None}, ran' = ran
  PROVE  SearchInv'
<1>1. query' = phrase /\ active' \in Nat /\ asked' \subseteq Phrases
  BY DEF Query, SearchInv
<1>2. answer' \in [key : Phrases \cup {Untyped}, found : Seq(Targets)] /\ FoundWhatIsAsked(answer')
  <2>1. CASE phrase = query
    BY <2>1 DEF Query, SearchInv
  <2>2. CASE phrase # query
    <3>1. answer' = [key |-> phrase, found |-> IF answer.key = phrase THEN answer.found ELSE <<>>]
      BY <2>2 DEF Query
    <3>2. <<>> \in Seq(Targets)
      OBVIOUS
    <3> QED
      BY <3>1, <3>2 DEF SearchInv, FoundWhatIsAsked
  <2> QED
    BY <2>1, <2>2
<1>3. KeysRunWhatWasAsked'
  BY DEF SearchInv, KeysRunWhatWasAsked
<1> QED
  BY <1>1, <1>2, <1>3 DEF SearchInv

\* A new target goes to the head of the recent ones.
LEMMA Pushes ==
  ASSUME RecentsInv, NEW t \in Goals, recents' = pushRecentTarget(t)
  PROVE  RecentsInv'
<1> DEFINE w == AllBut(recents, t)
           next == <<t>> \o w
<1>1. recents \in Seq(Goals) /\ RECENT_MAX \in Nat /\ RECENT_MAX >= 1
  BY ShellAssumption DEF RecentsInv, ShellAssumption
<1>2. /\ w \in Seq(Goals) /\ \A i \in 1..Len(w) : w[i] # t
      /\ \A i, j \in 1..Len(w) : w[i] = w[j] => i = j
  <2>1. \A i, j \in 1..Len(recents) : recents[i] = recents[j] => i = j
    BY <1>1 DEF RecentsInv, RecentsAreDistinct
  <2> QED
    BY <1>1, <2>1, WithoutFacts
<1> HIDE DEF w
<1>3. /\ next \in Seq(Goals) /\ Len(next) = Len(w) + 1 /\ next[1] = t /\ Len(w) \in Nat
      /\ \A i \in 2..(Len(w) + 1) : next[i] = w[i - 1]
  BY <1>2
<1>4. recents' = IF Len(next) > RECENT_MAX THEN SubSeq(next, 1, RECENT_MAX) ELSE next
  BY DEF pushRecentTarget, w
<1> HIDE DEF next
<1>5. \A i, j \in 1..Len(next) : next[i] = next[j] => i = j
  <2> SUFFICES ASSUME NEW i \in 1..Len(next), NEW j \in 1..Len(next), i < j
               PROVE  next[i] # next[j]
    BY <1>3
  <2>1. next[j] = w[j - 1] /\ j - 1 \in 1..Len(w)
    BY <1>3
  <2>2. CASE i = 1
    BY <1>2, <1>3, <2>1, <2>2
  <2>3. CASE i # 1
    <3>1. next[i] = w[i - 1] /\ i - 1 \in 1..Len(w) /\ i - 1 # j - 1
      BY <1>3, <2>3
    <3> QED
      BY <1>2, <2>1, <3>1
  <2> QED
    BY <2>2, <2>3
<1>6. recents' \in Seq(Goals) /\ Len(recents') <= RECENT_MAX /\ Len(recents') <= Len(next)
      /\ \A i \in 1..Len(recents') : recents'[i] = next[i]
  <2>1. CASE Len(next) > RECENT_MAX
    BY <1>1, <1>3, <1>4, <2>1
  <2>2. CASE ~(Len(next) > RECENT_MAX)
    BY <1>1, <1>3, <1>4, <2>2
  <2> QED
    BY <2>1, <2>2
<1>7. RecentsAreDistinct'
  BY <1>3, <1>5, <1>6 DEF RecentsAreDistinct
<1> QED
  BY <1>6, <1>7 DEF RecentsInv

\* A toast that leaves takes its timeout with it, and no other.
LEMMA ToastLeaves ==
  ASSUME ToastInv, NEW id, toasts' = AllBut(toasts, id), acted' = acted,
         timers' = timers \/ timers' = timers \ {id}
  PROVE  ToastInv'
<1> DEFINE w == AllBut(toasts, id)
<1>1. toasts \in Seq(Nat) /\ acted \in Nat /\ Range(toasts) = {toasts[n] : n \in 1..Len(toasts)}
  BY DEF ToastInv, Range
<1>2. /\ w \in Seq(Nat) /\ Len(w) <= Len(toasts) /\ Len(w) \in Nat /\ Len(toasts) \in Nat
      /\ \A i \in 1..Len(w) : w[i] # id /\ \E n \in 1..Len(toasts) : w[i] = toasts[n]
  BY <1>1, WithoutFacts
<1> HIDE DEF w
<1>3. Range(w) = {w[i] : i \in 1..Len(w)}
  BY <1>2 DEF Range
<1>4. Range(w) \subseteq timers'
  BY <1>1, <1>2, <1>3 DEF ToastInv, ToastsFade
<1>5. toasts' = w
  BY DEF w
<1> QED
  BY <1>1, <1>2, <1>4, <1>5 DEF ToastInv, ToastsFade

\* A toast that comes is new, has its timeout, and may push out the oldest.
LEMMA ToastComes ==
  ASSUME ToastInv, notify
  PROVE  ToastInv'
<1> DEFINE from == IF Len(toasts) > 2 THEN Len(toasts) - 1 ELSE 1
           kept == SubSeq(toasts, from, Len(toasts))
<1>1. /\ toasts \in Seq(Nat) /\ acted \in Nat /\ Len(toasts) \in 0..3 /\ acted' \in Nat
      /\ toasts' = Append(kept, acted) /\ timers' = timers \cup {acted}
      /\ \A n \in 1..Len(toasts) : toasts[n] \in timers
  <2>1. /\ toasts \in Seq(Nat) /\ acted \in Nat /\ Len(toasts) <= 3 /\ Range(toasts) \subseteq timers
    BY DEF ToastInv, ToastsFade
  <2>2. acted' = acted + 1 /\ toasts' = Append(kept, acted) /\ timers' = timers \cup {acted}
    BY DEF notify, Count
  <2>3. \A n \in 1..Len(toasts) : toasts[n] \in timers
    BY <2>1 DEF Range
  <2>4. Len(toasts) \in 0..3
    <3>1. Len(toasts) \in Nat
      BY <2>1, LenProperties
    <3>2. Len(toasts) <= 3
      BY <2>1
    <3>3. \A n \in Nat : n <= 3 => n \in 0..3
      OBVIOUS
    <3> QED
      BY <3>1, <3>2, <3>3, Zenon
  <2>5. acted' \in Nat
    BY <2>1, <2>2
  <2> HIDE DEF kept
  <2> QED
    BY <2>1, <2>2, <2>3, <2>4, <2>5
<1>2. from \in 1..(Len(toasts) + 1) /\ Len(toasts) - from + 1 \in 0..2
  BY <1>1
<1> HIDE DEF from
<1>3. /\ kept \in Seq(Nat) /\ Len(kept) = Len(toasts) - from + 1
      /\ \A i \in 1..Len(kept) : kept[i] = toasts[from + i - 1] /\ from + i - 1 \in 1..Len(toasts)
  BY <1>1, <1>2, SMTT(30)
<1> HIDE DEF kept
<1>4. /\ toasts' \in Seq(Nat) /\ Len(toasts') = Len(kept) + 1 /\ toasts'[Len(kept) + 1] = acted
      /\ \A i \in 1..Len(kept) : toasts'[i] = kept[i]
  BY <1>1, <1>3
<1>5. \A i \in 1..Len(toasts') : toasts'[i] \in timers'
  <2> TAKE i \in 1..Len(toasts')
  <2>1. CASE i = Len(kept) + 1
    BY <1>1, <1>4, <2>1
  <2>2. CASE i \in 1..Len(kept)
    BY <1>1, <1>3, <1>4, <2>2
  <2> QED
    BY <1>3, <1>4, <2>1, <2>2
<1>6. Range(toasts') \subseteq timers'
  BY <1>4, <1>5 DEF Range
<1>7. Len(toasts') <= 3
  <2>1. Len(kept) \in 0..2
    BY <1>2, <1>3, Zenon
  <2>2. \A n \in 0..2 : n + 1 <= 3
    OBVIOUS
  <2>3. Len(kept) + 1 <= 3
    BY <2>1, <2>2, Zenon
  <2> QED
    BY <1>4, <2>3, Zenon
<1> QED
  BY <1>1, <1>4, <1>6, <1>7 DEF ToastInv, ToastsFade

\* The view a refused session is led to can be shown.
LEMMA LandingIsAView == LandingView \in Sights
<1> DEFINE open == {n \in DOMAIN Landing : Landing[n] \in granted}
<1>1. Landing \in Seq(Range(Landing))
  BY ShellAssumption DEF ShellAssumption
<1>2. CASE open = {}
  BY <1>2 DEF LandingView, Sights
<1>3. CASE open # {}
  <2>1. open \subseteq Nat /\ DOMAIN Landing = 1..Len(Landing) /\ Len(Landing) \in Nat
    BY <1>1
  <2> HIDE DEF open
  <2>2. PICK n \in open : \A i \in open : ~(<<i, n>> \in OpToRel(<, Nat))
    BY <1>3, <2>1, NatLessThanWellFounded, WFMin
  <2>3. \A i \in open : ~(i < n)
    BY <2>1, <2>2 DEF OpToRel
  <2>4. \A i \in open : i \in Nat /\ n \in Nat
    BY <2>1
  <2>5. \A i \in open : n <= i
    BY <2>3, <2>4
  <2>6. Min(open) \in open
    BY <2>5 DEF Min
  <2>7. LandingView = Landing[Min(open)]
    BY <1>3 DEF LandingView, open
  <2>8. Landing[Min(open)] \in Range(Landing)
    BY <2>6 DEF open, Range
  <2> QED
    BY <2>7, <2>8 DEF Sights
<1> QED
  BY <1>2, <1>3

\* The shell is consistent when a page is opened.
LEMMA ShellStarts == ShellInit => ShellInv
<1> SUFFICES ASSUME NEW entry \in Entries, NEW views \in GrantedViews, ShellStart(entry, views)
             PROVE  ShellInv
  BY DEF ShellInit
<1>1. entry \in Locations
  BY GoalFacts DEF Entries, Locations, Safe
<1>2. AddressInv
  <2>1. trail \in Seq(Locations) /\ Len(trail) = 1 /\ at = 1 /\ mounted = FALSE /\ shown = Home
    BY <1>1 DEF ShellStart
  <2>2. mounted \in BOOLEAN /\ AddressTells
    BY <2>1, Zenon DEF AddressTells
  <2> QED
    BY <2>1, <2>2, GoalFacts, ShellAssumption DEF AddressInv, ShellAssumption
<1>3. OverlayInv
  BY Zenon DEF ShellStart, OverlayInv, LockFollowsOverlays
<1>4. SearchInv
  BY DEF ShellStart, SearchInv, FoundWhatIsAsked, NoAnswer, KeysRunWhatWasAsked
<1>5. RecentsInv
  BY ShellAssumption DEF ShellStart, RecentsInv, RecentsAreDistinct, ShellAssumption
<1>6. ToastInv
  BY DEF ShellStart, ToastInv, ToastsFade, Range
<1> QED
  BY <1>2, <1>3, <1>4, <1>5, <1>6 DEF ShellInv

\* What goes through navigate, and to where.
LEMMA NavigationGoals ==
  ASSUME ShellInv
  PROVE  /\ ReturnToAllowed => [view |-> LandingView, rest |-> Plain] \in Goals
         /\ \A v \in {"messages", "finance"} : [view |-> v, rest |-> Plain] \in Goals
         /\ EnterResult => told \in Goals
         /\ EnterKey => flat[active].target \in Goals
<1>1. [view |-> LandingView, rest |-> Plain] \in Goals
  BY LandingIsAView, GoalFacts
<1>2. \A v \in {"messages", "finance"} : [view |-> v, rest |-> Plain] \in Goals
  BY GoalFacts DEF Sights
<1>3. EnterResult => told \in Goals
  BY DEF EnterResult, ShellInv, SearchInv
<1>4. EnterKey => flat[active].target \in Goals
  BY FlatFacts DEF EnterKey, ShellInv
<1> QED
  BY <1>1, <1>2, <1>3, <1>4

\* Every step keeps bar and view together.
LEMMA AddressStep ==
  ASSUME ShellInv, [ShellNext]_shellVars
  PROVE  AddressInv'
<1> USE DEF ShellInv, address, sessionOf
<1>1. CASE Mount
  <2>1. Bar \in Locations /\ shown' = readTarget(Bar) /\ shown' \in Safe /\ mounted' = TRUE /\ at' = at
    BY <1>1, BarIsALocation, ReadFacts DEF Mount
  <2>2. trail' = IF Bar.fragment # None THEN [trail EXCEPT ![at] = formatPath(shown')] ELSE trail
    BY <1>1 DEF Mount
  <2>3. /\ formatPath(shown') \in Locations /\ formatPath(shown').path = shown'
        /\ readTarget(formatPath(shown')) = shown'
    BY <2>1, GoalFacts, FormatFacts
  <2>4. trail \in Seq(Locations) /\ at \in 1..Len(trail) /\ Len(trail) <= MaxEntries + 1
    BY DEF AddressInv
  <2>5. CASE Bar.fragment # None
    <3>1. trail' \in Seq(Locations) /\ Len(trail') = Len(trail) /\ trail'[at] = formatPath(shown')
      BY <2>2, <2>3, <2>4, <2>5
    <3> QED
      BY <2>1, <2>3, <2>4, <3>1, GoalFacts DEF AddressInv, AddressTells, Bar
  <2>6. CASE Bar.fragment = None
    BY <2>1, <2>2, <2>3, <2>4, <2>6, GoalFacts DEF AddressInv, AddressTells, Bar
  <2> QED
    BY <2>5, <2>6
<1>2. CASE BackOrForward
  <2>1. at' \in DOMAIN trail /\ trail' = trail /\ mounted' = mounted
    BY <1>2 DEF BackOrForward
  <2>2. trail \in Seq(Locations) /\ Len(trail) <= MaxEntries + 1 /\ mounted \in BOOLEAN
    BY DEF AddressInv
  <2>3. Bar' \in Locations /\ Bar' = trail[at'] /\ at' \in 1..Len(trail')
    BY <2>1, <2>2 DEF Bar
  <2>4. CASE mounted
    <3>1. shown' = readTarget(Bar') /\ shown' \in Safe
      BY <1>2, <2>3, <2>4, ReadFacts DEF BackOrForward, applyTarget
    <3> QED
      BY <2>1, <2>2, <2>3, <3>1, GoalFacts, FormatFacts DEF AddressInv, AddressTells
  <2>5. CASE ~mounted
    BY <1>2, <2>1, <2>2, <2>3, <2>5 DEF BackOrForward, AddressInv, AddressTells
  <2> QED
    BY <2>4, <2>5
<1>3. CASE SignOut
  BY <1>3, GoalFacts DEF SignOut, AddressInv, AddressTells
<1>4. CASE openPalette \/ closePalette \/ SearchAnswers \/ ArrowKey \/ EnterWords \/ Backspace
  BY <1>4, AddressStays DEF openPalette, closePalette, SearchAnswers, ArrowKey, EnterWords, Backspace
<1>5. CASE closeSheet \/ notify \/ ToastTimeout \/ dismissToast
  BY <1>5, AddressStays DEF closeSheet, notify, ToastTimeout, dismissToast
<1>6. CASE EnterKey
  BY <1>6, NavigationGoals, Moves DEF EnterKey
<1>7. CASE EnterResult
  BY <1>7, NavigationGoals, Moves DEF EnterResult
<1>8. CASE ReturnToAllowed
  BY <1>8, NavigationGoals, Moves DEF ReturnToAllowed
<1>9. CASE SheetGoes
  <2>1. PICK v \in {"messages", "finance"} : navigate([view |-> v, rest |-> Plain])
    BY <1>9 DEF SheetGoes
  <2> QED
    BY <1>9, <2>1, NavigationGoals, Moves DEF SheetGoes
<1>10. CASE \E t \in Targets : Navigate(t)
  BY <1>10, GoalFacts, Moves DEF Navigate
<1>11. ASSUME NEW t \in Targets, WriteFragment(t)
       PROVE  AddressInv'
  <2> DEFINE a == [Bar EXCEPT !.fragment = t]
  <2>1. t \in Safe /\ t # None /\ Bar \in Locations
    BY <1>11, GoalFacts, BarIsALocation DEF WriteFragment, Safe
  <2>2. a \in Locations /\ a.fragment = t
    BY <2>1 DEF Locations
  <2>3. at < MaxEntries /\ trail' = Append(SubSeq(trail, 1, at), a) /\ at' = at + 1 /\ shown' = t /\ mounted' = mounted
    BY <1>11 DEF WriteFragment, applyTarget
  <2> HIDE DEF a
  <2>4. /\ trail' \in Seq(Locations) /\ at' \in 1..Len(trail') /\ Len(trail') <= MaxEntries + 1
        /\ Bar' = a
    BY <2>2, <2>3, EntryFollows
  <2>5. readTarget(a) = t /\ formatPath(t).path = t
    BY <2>1, <2>2, GoalFacts, FormatFacts DEF readTarget
  <2> QED
    BY <2>1, <2>3, <2>4, <2>5, GoalFacts DEF AddressInv, AddressTells
<1>12. CASE \E phrase \in Phrases \cup {Untyped} : TypePhrase(phrase)
  BY <1>12, AddressStays DEF TypePhrase
<1>13. CASE \E id \in QuickActions : openSheet(id)
  BY <1>13, AddressStays DEF openSheet
<1>14. CASE \E open \in BOOLEAN : Drawer(open)
  BY <1>14, AddressStays DEF Drawer
<1>15. CASE UNCHANGED shellVars
  BY <1>15, AddressStays DEF shellVars
<1> QED
  BY <1>1, <1>2, <1>3, <1>4, <1>5, <1>6, <1>7, <1>8, <1>9, <1>10, <1>11, <1>12, <1>13, <1>14, <1>15 DEF ShellNext

\* Every step keeps the lock with what covers the page.
LEMMA OverlayStep ==
  ASSUME ShellInv, [ShellNext]_shellVars
  PROVE  OverlayInv'
<1> USE DEF ShellInv
<1>1. CASE Mount \/ SearchAnswers \/ ArrowKey \/ EnterWords \/ Backspace \/ notify \/ ToastTimeout \/ dismissToast
  BY <1>1, OverlaysStay DEF Mount, SearchAnswers, ArrowKey, EnterWords, Backspace, notify, ToastTimeout, dismissToast
<1>2. CASE \E phrase \in Phrases \cup {Untyped} : TypePhrase(phrase)
  BY <1>2, OverlaysStay DEF TypePhrase
<1>3. CASE UNCHANGED shellVars
  BY <1>3, OverlaysStay DEF shellVars
<1>4. CASE BackOrForward
  <2>1. CASE mounted
    BY <1>4, <2>1, Applies DEF BackOrForward
  <2>2. CASE ~mounted
    BY <1>4, <2>2, OverlaysStay DEF BackOrForward
  <2> QED
    BY <2>1, <2>2
<1>5. CASE EnterKey \/ EnterResult \/ ReturnToAllowed \/ SheetGoes \/ \E t \in Targets : Navigate(t)
  <2>1. action' \in {action, None} /\ \E t : navigate(t)
    BY <1>5 DEF EnterKey, EnterResult, ReturnToAllowed, SheetGoes, Navigate
  <2> QED
    BY <2>1, Applies DEF navigate
<1>6. CASE \E t \in Targets : WriteFragment(t)
  BY <1>6, Applies DEF WriteFragment
<1>7. CASE SignOut
  BY <1>7, Zenon DEF SignOut, OverlayInv, LockFollowsOverlays
<1>8. CASE openPalette \/ closePalette
  <2>1. palette \in BOOLEAN /\ drawer \in BOOLEAN /\ action \in QuickActions \cup {None} /\ LockFollowsOverlays
    BY DEF OverlayInv
  <2>2. action' = action /\ drawer' = drawer /\ undone' = FALSE
    BY <1>8 DEF openPalette, closePalette
  <2>3. \/ palette = FALSE /\ palette' = TRUE /\ locked' = TRUE
        \/ palette = TRUE /\ palette' = FALSE /\ locked' = (action # None)
    BY <1>8, <2>1 DEF openPalette, closePalette, LockAfter
  <2>4. palette' \in BOOLEAN /\ locked' \in BOOLEAN /\ undone' \in BOOLEAN /\ drawer' \in BOOLEAN
    BY <2>1, <2>2, <2>3, Zenon
  <2>5. LockFollowsOverlays'
    BY <2>2, <2>3 DEF LockFollowsOverlays
  <2> QED
    BY <2>1, <2>2, <2>4, <2>5 DEF OverlayInv
<1>9. ASSUME NEW id \in QuickActions, openSheet(id)
      PROVE  OverlayInv'
  <2>1. action' = id /\ palette' = FALSE /\ drawer' = drawer /\ undone' = FALSE /\ locked' = TRUE
    BY <1>9 DEF openSheet, LockAfter
  <2>2. palette' \in BOOLEAN /\ locked' \in BOOLEAN /\ undone' \in BOOLEAN /\ drawer' \in BOOLEAN
    BY <2>1, Zenon DEF OverlayInv
  <2>3. LockFollowsOverlays'
    BY <2>1, OffersAssumption DEF LockFollowsOverlays, OffersAssumption
  <2> QED
    BY <2>1, <2>2, <2>3 DEF OverlayInv
<1>10. CASE closeSheet
  <2>1. action' = None /\ action # None /\ palette' = palette /\ drawer' = drawer /\ undone' = FALSE /\ locked' = palette
    BY <1>10 DEF closeSheet, LockAfter, OverlayInv
  <2>2. palette' \in BOOLEAN /\ locked' \in BOOLEAN /\ undone' \in BOOLEAN /\ drawer' \in BOOLEAN
    BY <2>1, Zenon DEF OverlayInv
  <2>3. LockFollowsOverlays'
    BY <2>1 DEF LockFollowsOverlays
  <2> QED
    BY <2>1, <2>2, <2>3 DEF OverlayInv
<1>11. ASSUME NEW open \in BOOLEAN, Drawer(open)
       PROVE  OverlayInv'
  <2>1. /\ drawer' = open /\ locked' = open /\ palette' = palette /\ action' = action
        /\ undone' = (~open /\ (palette \/ action # None))
    BY <1>11 DEF Drawer
  <2>2. palette' \in BOOLEAN /\ locked' \in BOOLEAN /\ undone' \in BOOLEAN /\ drawer' \in BOOLEAN
    BY <2>1, Zenon DEF OverlayInv
  <2>3. LockFollowsOverlays'
    BY <2>1 DEF LockFollowsOverlays
  <2> QED
    BY <2>1, <2>2, <2>3 DEF OverlayInv
<1> QED
  BY <1>1, <1>2, <1>3, <1>4, <1>5, <1>6, <1>7, <1>8, <1>9, <1>10, <1>11 DEF ShellNext

\* A step that neither types nor answers keeps what a key acts on.
LEMMA SearchStays ==
  ASSUME SearchInv, query' = query, told' = told, active' \in Nat, asked' \subseteq Phrases, answer' = answer,
         ran' = ran \/ ran' = None
  PROVE  SearchInv'
  BY DEF SearchInv, KeysRunWhatWasAsked

\* Every step keeps what a key acts on: an item of what is asked.
LEMMA SearchStep ==
  ASSUME ShellInv, [ShellNext]_shellVars
  PROVE  SearchInv'
<1> USE DEF ShellInv, search
<1>1. SearchInv /\ active \in Nat /\ asked \subseteq Phrases /\ None \in Goals \cup {None}
  BY DEF SearchInv
<1>2. CASE Mount \/ BackOrForward \/ closePalette \/ EnterResult \/ ReturnToAllowed \/ closeSheet \/ SheetGoes
  BY <1>1, <1>2, SearchStays DEF Mount, BackOrForward, closePalette, EnterResult, ReturnToAllowed, closeSheet, SheetGoes
<1>3. CASE notify \/ ToastTimeout \/ dismissToast \/ UNCHANGED shellVars
  BY <1>1, <1>3, SearchStays DEF notify, ToastTimeout, dismissToast, shellVars
<1>4. CASE \E t \in Targets : Navigate(t) \/ WriteFragment(t)
  BY <1>1, <1>4, SearchStays DEF Navigate, WriteFragment
<1>5. CASE \E id \in QuickActions : openSheet(id)
  BY <1>1, <1>5, SearchStays DEF openSheet
<1>6. CASE \E open \in BOOLEAN : Drawer(open)
  BY <1>1, <1>6, SearchStays DEF Drawer
<1>7. CASE SignOut \/ openPalette
  <2>1. query' = Untyped /\ told' = None /\ active' = 1 /\ answer' = NoAnswer /\ asked' = {} /\ (ran' = ran \/ ran' = None)
    BY <1>7 DEF SignOut, openPalette
  <2>2. KeysRunWhatWasAsked'
    BY <2>1 DEF SearchInv, KeysRunWhatWasAsked
  <2> QED
    BY <1>1, <2>1, <2>2 DEF SearchInv, FoundWhatIsAsked, NoAnswer
<1>8. CASE SearchAnswers
  <2>1. PICK key \in asked, ok \in BOOLEAN :
           asked' = asked \ {key} /\ answer' = [key |-> key, found |-> IF ok THEN Finds[key] ELSE <<>>]
    BY <1>8 DEF SearchAnswers
  <2>2. key \in Phrases /\ Finds[key] \in Seq(Targets) /\ <<>> \in Seq(Targets)
    BY <1>1, <2>1, ShellAssumption DEF ShellAssumption
  <2>3. answer' \in [key : Phrases \cup {Untyped}, found : Seq(Targets)] /\ FoundWhatIsAsked(answer')
    BY <2>1, <2>2 DEF FoundWhatIsAsked
  <2>4. query' = query /\ told' = told /\ active' = active /\ ran' = ran /\ asked' \subseteq Phrases
    BY <1>1, <1>8, <2>1 DEF SearchAnswers
  <2>5. KeysRunWhatWasAsked'
    BY <2>4 DEF SearchInv, KeysRunWhatWasAsked
  <2> QED
    BY <1>1, <2>3, <2>4, <2>5 DEF SearchInv
<1>9. CASE ArrowKey
  <2>1. DOMAIN flat \subseteq Nat /\ Len(flat) \in Nat
    <3> DEFINE rs == [i \in DOMAIN recents |-> Verb(recents[i])]
               fs == [i \in DOMAIN useDomainSearchResults |-> Record(useDomainSearchResults[i])]
               All == {Verb(t) : t \in Goals} \cup {Record(t) : t \in Targets} \cup Items
    <3>1. rs \in Seq(All)
      BY DEF RecentsInv
    <3>2. useDomainSearchResults \in Seq(Targets)
      BY DEF SearchInv, useDomainSearchResults
    <3>3. fs \in Seq(All)
      BY <3>2
    <3>4. Offers[query] \in Seq(Items) /\ (query = Untyped => Offers[Untyped] = Offers[query])
      BY OffersAssumption DEF OffersAssumption, SearchInv
    <3>5. Offers[query] \in Seq(All)
      <4>1. \A i \in 1..Len(Offers[query]) : Offers[query][i] \in All
        BY <3>4
      <4> QED
        BY <3>4, <4>1
    <3>6. flat = IF query = Untyped THEN rs \o Offers[query] ELSE fs \o Offers[query]
      BY DEF flat
    <3> HIDE DEF rs, fs, All
    <3>7. flat \in Seq(All)
      BY <3>1, <3>3, <3>5, <3>6
    <3> QED
      BY <3>7
  <2>2. active' \in Nat
    BY <1>1, <1>9, <2>1 DEF ArrowKey
  <2> QED
    BY <1>1, <1>9, <2>2, SearchStays DEF ArrowKey
<1>10. CASE EnterKey
  <2>1. /\ query' = query /\ told' = told /\ active' = active /\ answer' = answer /\ asked' = asked
        /\ active \in DOMAIN flat
        /\ ran' = IF flat[active].kind = "record" THEN [target |-> flat[active].target, query |-> query] ELSE None
    BY <1>10 DEF EnterKey
  <2>2. KeysRunWhatWasAsked'
    <3>1. CASE flat[active].kind = "record"
      <4>1. flat[active].target \in Range(Finds[query])
        BY <2>1, <3>1, FlatFacts
      <4> QED
        BY <2>1, <3>1, <4>1 DEF KeysRunWhatWasAsked
    <3>2. CASE flat[active].kind # "record"
      BY <2>1, <3>2 DEF KeysRunWhatWasAsked
    <3> QED
      BY <3>1, <3>2
  <2> QED
    BY <1>1, <2>1, <2>2 DEF SearchInv
<1>11. CASE EnterWords
  <2>1. flat[active].phrase \in Phrases /\ flat[active].target \in Goals
    BY <1>11, FlatFacts DEF EnterWords
  <2> QED
    BY <1>1, <1>11, <2>1, Queries DEF EnterWords
<1>12. CASE Backspace
  BY <1>1, <1>12, Queries DEF Backspace
<1>13. CASE \E phrase \in Phrases \cup {Untyped} : TypePhrase(phrase)
  BY <1>1, <1>13, Queries DEF TypePhrase
<1> QED
  BY <1>2, <1>3, <1>4, <1>5, <1>6, <1>7, <1>8, <1>9, <1>10, <1>11, <1>12, <1>13 DEF ShellNext

\* Every step keeps the recent targets distinct and few.
LEMMA RecentsStep ==
  ASSUME ShellInv, [ShellNext]_shellVars
  PROVE  RecentsInv'
<1>1. CASE EnterKey
  BY <1>1, NavigationGoals, Pushes DEF EnterKey, ShellInv
<1>2. CASE recents' = recents
  BY <1>2 DEF ShellInv, RecentsInv, RecentsAreDistinct
<1>3. EnterKey \/ recents' = recents
  BY DEF ShellNext, Mount, BackOrForward, SignOut, openPalette, closePalette, SearchAnswers, ArrowKey, EnterWords,
         EnterResult, Backspace, ReturnToAllowed, closeSheet, SheetGoes, notify, ToastTimeout, dismissToast, Navigate,
         WriteFragment, TypePhrase, openSheet, Drawer, shellVars
<1> QED
  BY <1>1, <1>2, <1>3

\* Every step keeps a timeout for each toast shown.
LEMMA ToastStep ==
  ASSUME ShellInv, [ShellNext]_shellVars
  PROVE  ToastInv'
<1> USE DEF ShellInv, toastVars
<1>1. acted \in Nat
  BY DEF ToastInv
<1>2. CASE notify
  BY <1>2, ToastComes
<1>3. CASE ToastTimeout \/ dismissToast
  BY <1>3, ToastLeaves DEF ToastTimeout, dismissToast
<1>4. CASE toasts' = toasts /\ timers' = timers /\ acted' \in {acted, acted + 1}
  BY <1>1, <1>4 DEF ToastInv, ToastsFade
<1>5. CASE SignOut
  <2>1. toasts' = <<>> /\ acted' \in Nat
    BY <1>1, <1>5 DEF SignOut, Count
  <2> QED
    BY <2>1 DEF ToastInv, ToastsFade, Range
<1>6. \/ notify \/ ToastTimeout \/ dismissToast \/ SignOut
      \/ toasts' = toasts /\ timers' = timers /\ acted' \in {acted, acted + 1}
  BY DEF ShellNext, Mount, BackOrForward, openPalette, closePalette, SearchAnswers, ArrowKey, EnterKey, EnterWords,
         EnterResult, Backspace, ReturnToAllowed, closeSheet, SheetGoes, Navigate,
         WriteFragment, TypePhrase, openSheet, Drawer, shellVars, Count
<1> QED
  BY <1>2, <1>3, <1>4, <1>5, <1>6

\* Together: every step of the shell keeps it consistent.
LEMMA ShellStep == ShellInv /\ [ShellNext]_shellVars => ShellInv'
  BY AddressStep, OverlayStep, SearchStep, RecentsStep, ToastStep DEF ShellInv

ShellSpec == ShellInit /\ [][ShellNext]_shellVars

\* However somebody navigates, types, searches and closes, bar and view agree,
\* the page's scrolling is locked by what covers it, a key runs an item of what
\* was asked, the recent targets are distinct and every toast fades.
THEOREM ShellCorrect == ShellSpec => []ShellHolds
<1>1. ShellInv => ShellHolds
  BY DEF ShellInv, ShellHolds, AddressInv, OverlayInv, SearchInv, RecentsInv, ToastInv
<1> QED
  BY <1>1, ShellStarts, ShellStep, PTL DEF ShellSpec

\* The state of the shell stays within its type.
THEOREM ShellTypeCorrect == ShellSpec => []ShellTypeOK
<1>1. ShellInv => ShellTypeOK
  BY DEF ShellInv, ShellTypeOK, AddressInv, OverlayInv, SearchInv, RecentsInv
<1> QED
  BY <1>1, ShellStarts, ShellStep, PTL DEF ShellSpec

-----------------------------------------------------------------------------
(***************************************************************************)
(* The ladders.  Contiguity is kept as what it means rung by rung: the     *)
(* orders of a ladder are a bijection onto 1..N.                           *)
(***************************************************************************)
LadderInit ==
  \E l1, l2, l3 \in Levels, g1, g2 \in Programs, x \in Contents, s \in Pupils :
    /\ l1 # l2 /\ l1 # l3 /\ l2 # l3 /\ g1 # g2
    /\ LadderStart(l1, l2, l3, g1, g2, x, s)
LadderSpec == LadderInit /\ [][LadderNext]_ladderVars

Rung == [program : Programs, order : Nat, active : BOOLEAN, exclusive : BOOLEAN]
Standing == [program : Programs, level : Levels, history : Seq([from : Levels, to : Levels])]
Rungs(lv, g) == {l \in DOMAIN lv : lv[l].program = g}
Numbered(lv, g) ==
  /\ \A l \in Rungs(lv, g) : lv[l].order \in 1..Cardinality(Rungs(lv, g))
  /\ \A l, k \in Rungs(lv, g) : lv[l].order = lv[k].order => l = k
  /\ \A n \in 1..Cardinality(Rungs(lv, g)) : \E l \in Rungs(lv, g) : lv[l].order = n

LevelsAreTyped ==
  /\ level \in [DOMAIN level -> Rung] /\ DOMAIN level \subseteq Levels /\ spent \subseteq Levels
  /\ DOMAIN level \intersect spent = {}
PlacementsAreTyped == placement \in [DOMAIN placement -> Standing] /\ DOMAIN placement \subseteq Pupils
OthersAreTyped ==
  /\ program \subseteq Programs
  /\ content \in [DOMAIN content -> Standings] /\ DOMAIN content \subseteq Contents
  /\ link \subseteq Levels \X Contents /\ writes \in 0..MaxLadderWrites
\* The panel lists levels that exist, or did once, each of its program.
PanelIsTyped ==
  /\ DOMAIN panel.rows \subseteq DOMAIN level \union spent
  /\ panel.program \in Programs /\ panel.open \in Levels \union {Nothing}
  /\ PanelListsItsProgram
LadderInv ==
  /\ LevelsAreTyped /\ PlacementsAreTyped /\ OthersAreTyped /\ PanelIsTyped
  /\ \A g \in Programs : Numbered(level, g)
  /\ LaddersKeepTheirParents /\ HistoriesArePaths

\* A ladder is finite.
LEMMA RungsAreFinite ==
  ASSUME NEW lv, DOMAIN lv \subseteq Levels, NEW g
  PROVE  IsFiniteSet(Rungs(lv, g)) /\ Cardinality(Rungs(lv, g)) \in Nat
<1>1. Rungs(lv, g) \subseteq Levels
  BY DEF Rungs
<1> QED
  BY <1>1, LadderAssumption, FS_Subset, FS_CardinalityType DEF LadderAssumption

\* A ladder whose rows are as they were stays numbered.
LEMMA OtherLadderStays ==
  ASSUME NEW lv, NEW new, NEW g, Numbered(lv, g), Rungs(new, g) = Rungs(lv, g),
         \A l \in Rungs(lv, g) : new[l].order = lv[l].order
  PROVE  Numbered(new, g)
  BY DEF Numbered

\* What a renumbered ladder holds.
LEMMA RenumberedRows ==
  ASSUME LevelsAreTyped, NEW g, NEW order, \A l \in Siblings(g) : order[l] \in Nat
  PROVE  /\ DOMAIN Renumbered(g, order) = DOMAIN level
         /\ Renumbered(g, order) \in [DOMAIN level -> Rung]
         /\ \A l \in DOMAIN level :
              /\ Renumbered(g, order)[l].program = level[l].program
              /\ Renumbered(g, order)[l].order = IF l \in Siblings(g) THEN order[l] ELSE level[l].order
         /\ \A q : Rungs(Renumbered(g, order), q) = Rungs(level, q)
<1> DEFINE new == Renumbered(g, order)
<1>1. new = [l \in DOMAIN level |-> IF l \in Siblings(g) THEN [level[l] EXCEPT !.order = order[l]] ELSE level[l]]
  BY DEF Renumbered
<1>2. \A l \in DOMAIN level : level[l] \in Rung
  BY DEF LevelsAreTyped
<1>3. ASSUME NEW l \in DOMAIN level
      PROVE  /\ new[l] \in Rung /\ new[l].program = level[l].program
             /\ new[l].order = IF l \in Siblings(g) THEN order[l] ELSE level[l].order
  <2>1. CASE l \in Siblings(g)
    BY <1>1, <1>2, <2>1 DEF Rung
  <2>2. CASE l \notin Siblings(g)
    BY <1>1, <1>2, <2>2
  <2> QED
    BY <2>1, <2>2
<1>4. DOMAIN new = DOMAIN level
  BY <1>1
<1>5. new \in [DOMAIN level -> Rung]
  BY <1>1, <1>3
<1>6. \A q : Rungs(new, q) = Rungs(level, q)
  BY <1>3, <1>4 DEF Rungs
<1> QED
  BY <1>3, <1>4, <1>5, <1>6

\* A level put in at o shifts the ones from there up.
LEMMA NumberedWithOneMore ==
  ASSUME NEW lv, NEW new, NEW g, NEW l, NEW o, NEW n \in Nat,
         Numbered(lv, g), n = Cardinality(Rungs(lv, g)), l \notin Rungs(lv, g),
         Rungs(new, g) = Rungs(lv, g) \union {l}, Cardinality(Rungs(new, g)) = n + 1,
         o \in 1..(n + 1), new[l].order = o,
         \A k \in Rungs(lv, g) : new[k].order = lv[k].order + (IF lv[k].order >= o THEN 1 ELSE 0)
  PROVE  Numbered(new, g)
<1> DEFINE S == Rungs(lv, g)
<1>1. /\ \A k \in S : lv[k].order \in 1..n
      /\ \A k, j \in S : lv[k].order = lv[j].order => k = j
      /\ \A m \in 1..n : \E k \in S : lv[k].order = m
  BY DEF Numbered
<1>2. \A k \in S : /\ lv[k].order < o => new[k].order = lv[k].order
                   /\ lv[k].order >= o => new[k].order = lv[k].order + 1
  BY <1>1
<1>3. \A k \in S : new[k].order \in 1..(n + 1) /\ new[k].order # o
  BY <1>1, <1>2
<1>4. \A k, j \in S : new[k].order = new[j].order => lv[k].order = lv[j].order
  <2> TAKE k, j \in S
  <2>1. lv[k].order \in Int /\ lv[j].order \in Int /\ o \in Int
    BY <1>1
  <2> QED
    BY <2>1, <1>2
<1>5. ASSUME NEW m \in 1..(n + 1) PROVE \E k \in S \union {l} : new[k].order = m
  <2>1. CASE m = o
    BY <2>1
  <2>2. CASE m < o
    <3>1. PICK k \in S : lv[k].order = m
      BY <1>1, <2>2
    <3> QED
      BY <3>1, <2>2, <1>2
  <2>3. CASE m > o
    <3>1. m - 1 \in 1..n /\ m - 1 >= o /\ (m - 1) + 1 = m
      BY <2>3
    <3>2. PICK k \in S : lv[k].order = m - 1
      BY <1>1, <3>1
    <3> QED
      BY <3>1, <3>2, <1>2
  <2> QED
    BY <2>1, <2>2, <2>3
<1>6. \A k \in S \union {l} : new[k].order \in 1..(n + 1)
  BY <1>3
<1>7. \A k, j \in S \union {l} : new[k].order = new[j].order => k = j
  BY <1>1, <1>3, <1>4
<1> HIDE DEF S
<1>8. Rungs(new, g) = S \union {l}
  BY DEF S
<1> QED
  BY <1>5, <1>6, <1>7, <1>8 DEF Numbered

\* A level taken out: the gap closes.
LEMMA NumberedWithOneLess ==
  ASSUME NEW lv, NEW new, NEW g, NEW l, NEW n \in Nat,
         Numbered(lv, g), n = Cardinality(Rungs(lv, g)), l \in Rungs(lv, g),
         Rungs(new, g) = Rungs(lv, g) \ {l}, Cardinality(Rungs(new, g)) = n - 1,
         \A k \in Rungs(lv, g) \ {l} : new[k].order = lv[k].order - (IF lv[k].order > lv[l].order THEN 1 ELSE 0)
  PROVE  Numbered(new, g)
<1> DEFINE S == Rungs(lv, g)
           o == lv[l].order
<1>1. /\ \A k \in S : lv[k].order \in 1..n
      /\ \A k, j \in S : lv[k].order = lv[j].order => k = j
      /\ \A m \in 1..n : \E k \in S : lv[k].order = m
  BY DEF Numbered
<1>2. \A k \in S \ {l} : /\ lv[k].order # o
                         /\ lv[k].order < o => new[k].order = lv[k].order
                         /\ lv[k].order > o => new[k].order = lv[k].order - 1
  BY <1>1
<1>0. o \in 1..n
  BY <1>1
<1> HIDE DEF o
<1>3. \A k \in S \ {l} : new[k].order \in 1..(n - 1)
  <2> TAKE k \in S \ {l}
  <2>1. lv[k].order \in 1..n
    BY <1>1
  <2> QED
    BY <1>0, <1>2, <2>1
<1>4. \A k, j \in S \ {l} : new[k].order = new[j].order => lv[k].order = lv[j].order
  <2> TAKE k, j \in S \ {l}
  <2>1. lv[k].order \in Int /\ lv[j].order \in Int /\ o \in Int
    BY <1>0, <1>1
  <2> QED
    BY <2>1, <1>2
<1>5. ASSUME NEW m \in 1..(n - 1) PROVE \E k \in S \ {l} : new[k].order = m
  <2>2. CASE m < o
    <3>1. PICK k \in S : lv[k].order = m
      BY <1>1
    <3>2. k # l
      BY <2>2, <3>1, <1>0 DEF o
    <3> QED
      BY <3>1, <3>2, <2>2, <1>2
  <2>3. CASE m >= o
    <3>1. m + 1 \in 1..n /\ m + 1 > o /\ (m + 1) - 1 = m
      BY <2>3, <1>0
    <3>2. PICK k \in S : lv[k].order = m + 1
      BY <1>1, <3>1
    <3>3. k # l
      BY <3>1, <3>2, <1>0 DEF o
    <3> QED
      BY <3>1, <3>2, <3>3, <1>2
  <2> QED
    BY <2>2, <2>3, <1>0
<1>7. \A k, j \in S \ {l} : new[k].order = new[j].order => k = j
  BY <1>1, <1>4
<1> HIDE DEF S
<1>8. Rungs(new, g) = S \ {l}
  BY DEF S
<1> QED
  BY <1>3, <1>5, <1>7, <1>8 DEF Numbered

\* A level moved from its place to o.
LEMMA NumberedAfterMove ==
  ASSUME NEW lv, NEW new, NEW g, NEW l, NEW o, NEW n \in Nat,
         Numbered(lv, g), n = Cardinality(Rungs(lv, g)), l \in Rungs(lv, g),
         Rungs(new, g) = Rungs(lv, g), o \in 1..n,
         \A k \in Rungs(lv, g) : new[k].order =
            IF k = l THEN o
            ELSE IF lv[l].order < lv[k].order /\ lv[k].order <= o THEN lv[k].order - 1
            ELSE IF o <= lv[k].order /\ lv[k].order < lv[l].order THEN lv[k].order + 1
            ELSE lv[k].order
  PROVE  Numbered(new, g)
<1> DEFINE S == Rungs(lv, g)
           from == lv[l].order
<1>1. /\ \A k \in S : lv[k].order \in 1..n
      /\ \A k, j \in S : lv[k].order = lv[j].order => k = j
      /\ \A m \in 1..n : \E k \in S : lv[k].order = m
  BY DEF Numbered
<1>2. new[l].order = o /\ from \in 1..n
  BY <1>1
<1>3. \A k \in S \ {l} : /\ lv[k].order # from
                         /\ from < lv[k].order /\ lv[k].order <= o => new[k].order = lv[k].order - 1
                         /\ o <= lv[k].order /\ lv[k].order < from => new[k].order = lv[k].order + 1
                         /\ ~(from < lv[k].order /\ lv[k].order <= o) /\ ~(o <= lv[k].order /\ lv[k].order < from)
                              => new[k].order = lv[k].order
  BY <1>1
<1> HIDE DEF from
<1>4. \A k \in S \ {l} : new[k].order \in 1..n /\ new[k].order # o
  <2> TAKE k \in S \ {l}
  <2>1. lv[k].order \in 1..n
    BY <1>1
  <2> QED
    BY <1>2, <1>3, <2>1
<1>5. \A k, j \in S \ {l} : new[k].order = new[j].order => lv[k].order = lv[j].order
  <2> TAKE k, j \in S \ {l}
  <2>1. lv[k].order \in 1..n /\ lv[j].order \in 1..n
    BY <1>1
  <2> QED
    BY <2>1, <1>2, <1>3
<1>6. ASSUME NEW m \in 1..n PROVE \E k \in S : new[k].order = m
  <2> DEFINE atRung(h) == \E k \in S \ {l} : lv[k].order = h
  <2>0. \A h \in 1..n : h # from => atRung(h)
    BY <1>1 DEF from
  <2>1. CASE m = o
    BY <1>2, <2>1
  <2>2. CASE from <= m /\ m < o
    <3>1. m + 1 \in 1..n /\ from < m + 1 /\ m + 1 <= o /\ (m + 1) - 1 = m /\ m + 1 # from
      BY <2>2, <1>2
    <3>2. PICK k \in S \ {l} : lv[k].order = m + 1
      BY <2>0, <3>1
    <3> QED
      BY <3>1, <3>2, <1>3
  <2>3. CASE o < m /\ m <= from
    <3>1. m - 1 \in 1..n /\ o <= m - 1 /\ m - 1 < from /\ (m - 1) + 1 = m /\ m - 1 # from
      BY <2>3, <1>2
    <3>2. PICK k \in S \ {l} : lv[k].order = m - 1
      BY <2>0, <3>1
    <3> QED
      BY <3>1, <3>2, <1>3
  <2>4. CASE m # o /\ ~(from <= m /\ m < o) /\ ~(o < m /\ m <= from)
    <3>1. m # from
      BY <2>4, <1>2
    <3>2. PICK k \in S \ {l} : lv[k].order = m
      BY <2>0, <3>1
    <3>3. ~(from < m /\ m <= o) /\ ~(o <= m /\ m < from)
      BY <2>4, <1>2
    <3> QED
      BY <3>2, <3>3, <1>3
  <2> QED
    BY <2>1, <2>2, <2>3, <2>4
<1>7. \A k \in S : new[k].order \in 1..n
  BY <1>2, <1>4
<1>8. \A k, j \in S : new[k].order = new[j].order => k = j
  BY <1>1, <1>2, <1>4, <1>5
<1> HIDE DEF S
<1>9. Rungs(new, g) = S /\ Cardinality(S) = n
  BY DEF S
<1> QED
  BY <1>6, <1>7, <1>8, <1>9 DEF Numbered

-----------------------------------------------------------------------------
(* The steps.                                                              *)

\* A write is counted.
LEMMA WritesCount == ASSUME OthersAreTyped, Writes PROVE writes' \in 0..MaxLadderWrites
  BY LadderAssumption DEF OthersAreTyped, Writes, LadderAssumption

LEMMA ProgramIsMade ==
  ASSUME LadderInv, NEW g \in Programs, createProgram(g)
  PROVE  LadderInv'
<1>1. program' = program \union {g} /\ Writes /\ UNCHANGED <<level, content, link, placement, panel, spent>>
  BY DEF createProgram
<1>2. OthersAreTyped'
  BY <1>1, WritesCount DEF LadderInv, OthersAreTyped
<1>3. LaddersKeepTheirParents'
  BY <1>1 DEF LadderInv, LaddersKeepTheirParents, Stands, Siblings
<1> QED
  BY <1>1, <1>2, <1>3 DEF LadderInv, LevelsAreTyped, PlacementsAreTyped, PanelIsTyped, PanelListsItsProgram,
                          HistoriesArePaths

LEMMA ProgramIsDeleted ==
  ASSUME LadderInv, NEW g \in Programs, deleteProgram(g)
  PROVE  LadderInv'
<1>1. program' = program \ {g} /\ Writes /\ UNCHANGED <<level, content, link, placement, panel, spent>>
  BY DEF deleteProgram
<1>2. OthersAreTyped'
  BY <1>1, WritesCount DEF LadderInv, OthersAreTyped
<1>3. \A l \in DOMAIN level : level[l].program # g
  BY DEF deleteProgram, Siblings
<1>4. LaddersKeepTheirParents'
  BY <1>1, <1>3 DEF LadderInv, LaddersKeepTheirParents, Stands, Siblings
<1> QED
  BY <1>1, <1>2, <1>4 DEF LadderInv, LevelsAreTyped, PlacementsAreTyped, PanelIsTyped, PanelListsItsProgram,
                          HistoriesArePaths

\* What hangs on levels still does when no level's program changed and none went
\* that something hangs on.
LEMMA ParentsStay ==
  ASSUME LaddersKeepTheirParents, UNCHANGED <<program, content, link, placement>>,
         \A l \in DOMAIN level' : level'[l].program \in program,
         \A l \in DOMAIN level : (\E x \in DOMAIN content : <<l, x>> \in link) \/ (\E s \in DOMAIN placement : placement[s].level = l)
            => l \in DOMAIN level' /\ level'[l].program = level[l].program,
         link \subseteq Levels \X Contents
  PROVE  LaddersKeepTheirParents'
<1>1. \A p \in link' : p[1] \in DOMAIN level' /\ p[2] \in DOMAIN content'
  <2> TAKE p \in link'
  <2>1. p \in link /\ p = <<p[1], p[2]>> /\ p[1] \in DOMAIN level /\ p[2] \in DOMAIN content
    BY DEF LaddersKeepTheirParents
  <2> QED
    BY <2>1
<1>2. \A s \in DOMAIN placement : Stands(s)'
  BY DEF LaddersKeepTheirParents, Stands, Siblings
<1> QED
  BY <1>1, <1>2 DEF LaddersKeepTheirParents

LEMMA LevelIsMade ==
  ASSUME LadderInv, NEW l \in Levels, NEW g \in Programs, NEW o \in 1..Cardinality(Levels), createLevel(l, g, o)
  PROVE  LadderInv'
<1> DEFINE order == [k \in Siblings(g) |-> level[k].order + (IF level[k].order >= o THEN 1 ELSE 0)]
           shifted == Renumbered(g, order)
           n == Cardinality(Siblings(g))
<1>1. /\ l \notin DOMAIN level \union spent /\ g \in program /\ o \in 1..(n + 1) /\ Writes
      /\ level' = Including(shifted, l, LevelRow(g, o, TRUE, FALSE))
      /\ UNCHANGED <<program, content, link, placement, panel, spent>>
  BY DEF createLevel
<1>2. Siblings(g) = Rungs(level, g) /\ n \in Nat /\ IsFiniteSet(Rungs(level, g))
  BY RungsAreFinite DEF LadderInv, LevelsAreTyped, Siblings, Rungs
<1>3. \A k \in Siblings(g) : level[k].order \in Nat
  BY DEF LadderInv, LevelsAreTyped, Rung, Siblings
<1>4. \A k \in Siblings(g) : order[k] \in Nat /\ order[k] = level[k].order + (IF level[k].order >= o THEN 1 ELSE 0)
  BY <1>3
<1> HIDE DEF n, order
<1>5. /\ DOMAIN shifted = DOMAIN level /\ shifted \in [DOMAIN level -> Rung]
      /\ \A k \in DOMAIN level : /\ shifted[k].program = level[k].program
                                 /\ shifted[k].order = IF k \in Siblings(g) THEN order[k] ELSE level[k].order
      /\ \A q : Rungs(shifted, q) = Rungs(level, q)
  BY <1>4, RenumberedRows DEF LadderInv
<1> HIDE DEF shifted
<1>6. /\ DOMAIN level' = DOMAIN level \union {l}
      /\ level'[l] = [program |-> g, order |-> o, active |-> TRUE, exclusive |-> FALSE]
      /\ \A k \in DOMAIN level : level'[k] = shifted[k]
  BY <1>1, <1>5 DEF Including, LevelRow
<1>7. o \in Nat /\ level'[l] \in Rung /\ level'[l].program = g /\ level'[l].order = o
  <2>1. o \in Nat
    BY <1>1, <1>2
  <2> QED
    BY <2>1, <1>6 DEF Rung
<1>8. LevelsAreTyped'
  <2>1. level' = [k \in DOMAIN level \union {l} |-> IF k = l THEN LevelRow(g, o, TRUE, FALSE) ELSE shifted[k]]
    BY <1>1, <1>5 DEF Including
  <2>2. level' \in [DOMAIN level' -> Rung]
    BY <2>1, <1>5, <1>6, <1>7
  <2> QED
    BY <2>2, <1>1, <1>6 DEF LadderInv, LevelsAreTyped
<1>9. Rungs(level', g) = Rungs(level, g) \union {l} /\ l \notin Rungs(level, g)
  BY <1>1, <1>5, <1>6, <1>7 DEF Rungs
<1>10. Cardinality(Rungs(level', g)) = n + 1
  BY <1>2, <1>9, FS_AddElement DEF n
<1>11. \A k \in Rungs(level, g) : level'[k].order = level[k].order + (IF level[k].order >= o THEN 1 ELSE 0)
  BY <1>2, <1>4, <1>5, <1>6 DEF Rungs
<1>12. Numbered(level', g)
  <2>1. Numbered(level, g) /\ n = Cardinality(Rungs(level, g))
    BY <1>2 DEF LadderInv, n
  <2> QED
    BY <2>1, <1>1, <1>2, <1>7, <1>9, <1>10, <1>11, NumberedWithOneMore
<1>13. ASSUME NEW q \in Programs, q # g PROVE Numbered(level', q)
  <2>1. Rungs(level', q) = Rungs(level, q)
    BY <1>5, <1>6, <1>13 DEF Rungs
  <2>2. \A k \in Rungs(level, q) : level'[k].order = level[k].order
    BY <1>2, <1>5, <1>6, <1>13 DEF Rungs
  <2>3. Numbered(level, q)
    BY DEF LadderInv
  <2> QED
    BY <2>1, <2>2, <2>3, OtherLadderStays
<1>14. LaddersKeepTheirParents'
  <2>1. \A k \in DOMAIN level' : level'[k].program \in program
    BY <1>1, <1>5, <1>6, <1>7 DEF LadderInv, LaddersKeepTheirParents
  <2> QED
    BY <2>1, <1>1, <1>5, <1>6, ParentsStay DEF LadderInv, OthersAreTyped
<1>15. PanelIsTyped'
  BY <1>1, <1>5, <1>6 DEF LadderInv, PanelIsTyped, PanelListsItsProgram
<1>16. OthersAreTyped'
  BY <1>1, WritesCount DEF LadderInv, OthersAreTyped
<1> QED
  BY <1>1, <1>8, <1>12, <1>13, <1>14, <1>15, <1>16 DEF LadderInv, PlacementsAreTyped, HistoriesArePaths

\* A row that is only rewritten keeps program and place of each.
LEMMA LevelIsEdited ==
  ASSUME LadderInv, NEW l \in Levels, NEW a \in BOOLEAN, NEW e \in BOOLEAN, updateLevel(l, a, e)
  PROVE  LadderInv'
<1>1. /\ l \in DOMAIN level /\ Writes
      /\ level' = [level EXCEPT ![l].active = a, ![l].exclusive = e]
      /\ UNCHANGED <<program, content, link, placement, panel, spent>>
  BY DEF updateLevel
<1>2. level \in [DOMAIN level -> Rung]
  BY DEF LadderInv, LevelsAreTyped
<1>3. /\ DOMAIN level' = DOMAIN level /\ level' \in [DOMAIN level -> Rung]
      /\ \A k \in DOMAIN level : level'[k].program = level[k].program /\ level'[k].order = level[k].order
  BY <1>1, <1>2 DEF Rung
<1>4. \A q : Rungs(level', q) = Rungs(level, q)
  BY <1>3 DEF Rungs
<1>5. \A q \in Programs : Numbered(level', q)
  <2> TAKE q \in Programs
  <2>1. \A k \in Rungs(level, q) : level'[k].order = level[k].order
    BY <1>3 DEF Rungs
  <2>2. Numbered(level, q)
    BY DEF LadderInv
  <2> QED
    BY <1>4, <2>1, <2>2, OtherLadderStays
<1>6. LaddersKeepTheirParents'
  <2>1. \A k \in DOMAIN level' : level'[k].program \in program
    BY <1>3 DEF LadderInv, LaddersKeepTheirParents
  <2> QED
    BY <2>1, <1>1, <1>3, ParentsStay DEF LadderInv, OthersAreTyped
<1>7. PanelIsTyped' /\ LevelsAreTyped'
  BY <1>1, <1>3 DEF LadderInv, PanelIsTyped, PanelListsItsProgram, LevelsAreTyped
<1>8. OthersAreTyped'
  BY <1>1, WritesCount DEF LadderInv, OthersAreTyped
<1> QED
  BY <1>1, <1>5, <1>6, <1>7, <1>8 DEF LadderInv, PlacementsAreTyped, HistoriesArePaths

LEMMA LevelIsMoved ==
  ASSUME LadderInv, NEW l \in Levels, NEW d \in {-1, 1}, moveLevel(l, d)
  PROVE  LadderInv'
<1> DEFINE o == panel.rows[l] + d
           g == level[l].program
           order == [k \in Siblings(g) |->
            IF k = l THEN o
            ELSE IF level[l].order < level[k].order /\ level[k].order <= o THEN level[k].order - 1
            ELSE IF o <= level[k].order /\ level[k].order < level[l].order THEN level[k].order + 1
            ELSE level[k].order]
           n == Cardinality(Siblings(g))
<1>1. /\ l \in DOMAIN level /\ o \in 1..n /\ Writes /\ level' = Renumbered(g, order)
      /\ UNCHANGED <<program, content, link, placement, panel, spent>>
  BY DEF moveLevel, reorderLevel, Moved
<1> HIDE DEF o
<1>2. /\ Siblings(g) = Rungs(level, g) /\ n \in Nat /\ l \in Rungs(level, g) /\ g \in Programs
      /\ n = Cardinality(Rungs(level, g)) /\ Numbered(level, g)
  BY <1>1, RungsAreFinite DEF LadderInv, LevelsAreTyped, Siblings, Rungs, Rung
<1>3. \A k \in Rungs(level, g) : level[k].order \in 1..n
  BY <1>2 DEF Numbered
<1>4. \A k \in Siblings(g) : order[k] \in Nat
  BY <1>1, <1>2, <1>3
<1> DEFINE place(k) == IF k = l THEN o
            ELSE IF level[l].order < level[k].order /\ level[k].order <= o THEN level[k].order - 1
            ELSE IF o <= level[k].order /\ level[k].order < level[l].order THEN level[k].order + 1
            ELSE level[k].order
<1>5. \A k \in Siblings(g) : order[k] = place(k)
  OBVIOUS
<1> HIDE DEF order, n, g
<1>6. /\ DOMAIN level' = DOMAIN level /\ level' \in [DOMAIN level -> Rung]
      /\ \A k \in DOMAIN level : /\ level'[k].program = level[k].program
                                 /\ level'[k].order = IF k \in Siblings(g) THEN order[k] ELSE level[k].order
      /\ \A q : Rungs(level', q) = Rungs(level, q)
  BY <1>1, <1>4, RenumberedRows DEF LadderInv
<1>7. \A k \in Rungs(level, g) : level'[k].order = place(k)
  BY <1>2, <1>5, <1>6 DEF Rungs
<1>8. Numbered(level', g)
  BY <1>1, <1>2, <1>6, <1>7, NumberedAfterMove
<1>9. ASSUME NEW q \in Programs, q # g PROVE Numbered(level', q)
  <2>1. \A k \in Rungs(level, q) : level'[k].order = level[k].order
    BY <1>2, <1>6, <1>9 DEF Rungs
  <2>2. Numbered(level, q)
    BY DEF LadderInv
  <2> QED
    BY <2>1, <2>2, <1>6, OtherLadderStays
<1>10. LaddersKeepTheirParents'
  <2>1. \A k \in DOMAIN level' : level'[k].program \in program
    BY <1>6 DEF LadderInv, LaddersKeepTheirParents
  <2> QED
    BY <2>1, <1>1, <1>6, ParentsStay DEF LadderInv, OthersAreTyped
<1>11. PanelIsTyped' /\ LevelsAreTyped'
  BY <1>1, <1>6 DEF LadderInv, PanelIsTyped, PanelListsItsProgram, LevelsAreTyped
<1>12. OthersAreTyped'
  BY <1>1, WritesCount DEF LadderInv, OthersAreTyped
<1> QED
  BY <1>1, <1>8, <1>9, <1>10, <1>11, <1>12 DEF LadderInv, PlacementsAreTyped, HistoriesArePaths

LEMMA LevelIsDeleted ==
  ASSUME LadderInv, NEW l \in Levels, removeLevel(l)
  PROVE  LadderInv'
<1> DEFINE g == level[l].program
           order == [k \in Siblings(g) |-> level[k].order - (IF level[k].order > level[l].order THEN 1 ELSE 0)]
           closed == Renumbered(g, order)
           n == Cardinality(Siblings(g))
<1>1. /\ l \in DOMAIN level /\ Writes /\ level' = Without(closed, l) /\ spent' = spent \union {l}
      /\ \A x \in Contents : <<l, x>> \notin link
      /\ \A s \in DOMAIN placement : placement[s].level # l
      /\ UNCHANGED <<program, content, link, placement, panel>>
  BY DEF removeLevel, deleteLevel, GapClosed
<1>2. /\ Siblings(g) = Rungs(level, g) /\ n \in Nat /\ l \in Rungs(level, g) /\ g \in Programs
      /\ n = Cardinality(Rungs(level, g)) /\ Numbered(level, g) /\ IsFiniteSet(Rungs(level, g))
  BY <1>1, RungsAreFinite DEF LadderInv, LevelsAreTyped, Siblings, Rungs, Rung
<1>3. \A k \in Rungs(level, g) : level[k].order \in 1..n
  BY <1>2 DEF Numbered
<1>4. \A k \in Siblings(g) : order[k] \in Nat /\ order[k] = level[k].order - (IF level[k].order > level[l].order THEN 1 ELSE 0)
  BY <1>2, <1>3
<1> HIDE DEF order, n, g
<1>5. /\ DOMAIN closed = DOMAIN level /\ closed \in [DOMAIN level -> Rung]
      /\ \A k \in DOMAIN level : /\ closed[k].program = level[k].program
                                 /\ closed[k].order = IF k \in Siblings(g) THEN order[k] ELSE level[k].order
      /\ \A q : Rungs(closed, q) = Rungs(level, q)
  BY <1>4, RenumberedRows DEF LadderInv
<1> HIDE DEF closed
<1>6. /\ level' = [k \in DOMAIN level \ {l} |-> closed[k]] /\ DOMAIN level' = DOMAIN level \ {l}
      /\ \A k \in DOMAIN level \ {l} : level'[k] = closed[k]
  BY <1>1, <1>5 DEF Without
<1>7. LevelsAreTyped'
  <2>1. level' \in [DOMAIN level' -> Rung]
    BY <1>5, <1>6
  <2> QED
    BY <2>1, <1>1, <1>6 DEF LadderInv, LevelsAreTyped
<1>8. Rungs(level', g) = Rungs(level, g) \ {l}
  BY <1>5, <1>6 DEF Rungs
<1>9. Cardinality(Rungs(level', g)) = n - 1
  BY <1>2, <1>8, FS_RemoveElement DEF n
<1>10. \A k \in Rungs(level, g) \ {l} : level'[k].order = level[k].order - (IF level[k].order > level[l].order THEN 1 ELSE 0)
  BY <1>2, <1>4, <1>5, <1>6 DEF Rungs
<1>11. Numbered(level', g)
  BY <1>2, <1>8, <1>9, <1>10, NumberedWithOneLess
<1>12. ASSUME NEW q \in Programs, q # g PROVE Numbered(level', q)
  <2>0. l \notin Rungs(level, q)
    BY <1>2, <1>12 DEF Rungs
  <2>1. Rungs(level', q) = Rungs(level, q)
    BY <2>0, <1>5, <1>6 DEF Rungs
  <2>2. \A k \in Rungs(level, q) : level'[k].order = level[k].order
    BY <2>0, <1>2, <1>5, <1>6, <1>12 DEF Rungs
  <2>3. Numbered(level, q)
    BY DEF LadderInv
  <2> QED
    BY <2>1, <2>2, <2>3, OtherLadderStays
<1>13. LaddersKeepTheirParents'
  <2>1. \A k \in DOMAIN level' : level'[k].program \in program
    BY <1>5, <1>6 DEF LadderInv, LaddersKeepTheirParents
  <2>2. DOMAIN content \subseteq Contents
    BY DEF LadderInv, OthersAreTyped
  <2> QED
    BY <2>1, <2>2, <1>1, <1>5, <1>6, ParentsStay DEF LadderInv, OthersAreTyped
<1>14. PanelIsTyped'
  BY <1>1, <1>5, <1>6 DEF LadderInv, PanelIsTyped, PanelListsItsProgram
<1>15. OthersAreTyped'
  BY <1>1, WritesCount DEF LadderInv, OthersAreTyped
<1> QED
  BY <1>1, <1>7, <1>11, <1>12, <1>13, <1>14, <1>15 DEF LadderInv, PlacementsAreTyped, HistoriesArePaths

\* Steps that leave programs and levels alone.
LEMMA ContentIsMade ==
  ASSUME LadderInv, NEW x \in Contents, createContent(x)
  PROVE  LadderInv'
<1>1. /\ x \notin DOMAIN content /\ Writes /\ content' = Including(content, x, "open")
      /\ UNCHANGED <<program, level, link, placement, panel, spent>>
  BY DEF createContent
<1>2. /\ content' = [y \in DOMAIN content \union {x} |-> IF y = x THEN "open" ELSE content[y]]
      /\ DOMAIN content' = DOMAIN content \union {x}
  BY <1>1 DEF Including
<1>3. OthersAreTyped'
  BY <1>1, <1>2, WritesCount DEF LadderInv, OthersAreTyped, Standings
<1>4. LaddersKeepTheirParents'
  BY <1>1, <1>2 DEF LadderInv, LaddersKeepTheirParents, Stands, Siblings
<1> QED
  BY <1>1, <1>3, <1>4 DEF LadderInv, LevelsAreTyped, PlacementsAreTyped, PanelIsTyped, PanelListsItsProgram,
                          HistoriesArePaths

LEMMA ContentIsEdited ==
  ASSUME LadderInv, NEW x \in Contents, NEW v \in Standings, updateContent(x, v)
  PROVE  LadderInv'
<1>1. /\ x \in DOMAIN content /\ Writes /\ content' = [content EXCEPT ![x] = v]
      /\ UNCHANGED <<program, level, link, placement, panel, spent>>
  BY DEF updateContent
<1>2. content \in [DOMAIN content -> Standings]
  BY DEF LadderInv, OthersAreTyped
<1>3. DOMAIN content' = DOMAIN content /\ content' \in [DOMAIN content -> Standings]
  BY <1>1, <1>2
<1>4. OthersAreTyped'
  BY <1>1, <1>3, WritesCount DEF LadderInv, OthersAreTyped
<1>5. LaddersKeepTheirParents'
  BY <1>1, <1>3 DEF LadderInv, LaddersKeepTheirParents, Stands, Siblings
<1> QED
  BY <1>1, <1>4, <1>5 DEF LadderInv, LevelsAreTyped, PlacementsAreTyped, PanelIsTyped, PanelListsItsProgram,
                          HistoriesArePaths

LEMMA ContentIsDeleted ==
  ASSUME LadderInv, NEW x \in Contents, deleteContent(x)
  PROVE  LadderInv'
<1>1. /\ x \in DOMAIN content /\ Writes /\ link' = {p \in link : p[2] # x} /\ content' = Without(content, x)
      /\ UNCHANGED <<program, level, placement, panel, spent>>
  BY DEF deleteContent
<1>2. content' = [y \in DOMAIN content \ {x} |-> content[y]] /\ DOMAIN content' = DOMAIN content \ {x}
  BY <1>1 DEF Without
<1>3. OthersAreTyped'
  BY <1>1, <1>2, WritesCount DEF LadderInv, OthersAreTyped
<1>4. LaddersKeepTheirParents'
  BY <1>1, <1>2 DEF LadderInv, LaddersKeepTheirParents, Stands, Siblings
<1> QED
  BY <1>1, <1>3, <1>4 DEF LadderInv, LevelsAreTyped, PlacementsAreTyped, PanelIsTyped, PanelListsItsProgram,
                          HistoriesArePaths

LEMMA LinksChange ==
  ASSUME LadderInv, NEW x \in Contents, attach(x) \/ \E l \in Levels : detachContent(l, x)
  PROVE  LadderInv'
<1>1. Writes /\ UNCHANGED <<program, level, content, placement, panel, spent>>
  BY DEF attach, attachContent, detachContent
<1>2. link' \subseteq Levels \X Contents /\ \A p \in link' : p[1] \in DOMAIN level /\ p[2] \in DOMAIN content
  <2>1. CASE attach(x)
    <3>1. panel.open \in DOMAIN level /\ x \in DOMAIN content /\ link' = link \union {<<panel.open, x>>}
      BY <2>1 DEF attach, attachContent
    <3> QED
      BY <3>1 DEF LadderInv, LevelsAreTyped, OthersAreTyped, LaddersKeepTheirParents
  <2>2. CASE \E l \in Levels : detachContent(l, x)
    <3>1. link' \subseteq link
      BY <2>2 DEF detachContent
    <3> QED
      BY <3>1 DEF LadderInv, OthersAreTyped, LaddersKeepTheirParents
  <2> QED
    BY <2>1, <2>2
<1>3. OthersAreTyped'
  BY <1>1, <1>2, WritesCount DEF LadderInv, OthersAreTyped
<1>4. LaddersKeepTheirParents'
  BY <1>1, <1>2 DEF LadderInv, LaddersKeepTheirParents, Stands, Siblings
<1> QED
  BY <1>1, <1>3, <1>4 DEF LadderInv, LevelsAreTyped, PlacementsAreTyped, PanelIsTyped, PanelListsItsProgram,
                          HistoriesArePaths

\* The history of a placement is one path that ends at its level.
PathTo(h, l) ==
  /\ \A i \in 1..(Len(h) - 1) : h[i].to = h[i + 1].from
  /\ h # <<>> => h[Len(h)].to = l

\* A move goes on from where the path ends.
LEMMA PathGoesOn ==
  ASSUME NEW a \in Levels, NEW b \in Levels, NEW h \in Seq([from : Levels, to : Levels]), PathTo(h, a)
  PROVE  LET new == Append(h, [from |-> a, to |-> b])
         IN  new \in Seq([from : Levels, to : Levels]) /\ PathTo(new, b)
<1> DEFINE new == Append(h, [from |-> a, to |-> b])
           n == Len(h)
<1>1. /\ new \in Seq([from : Levels, to : Levels]) /\ Len(new) = n + 1 /\ n \in Nat
      /\ new[n + 1] = [from |-> a, to |-> b] /\ \A i \in 1..n : new[i] = h[i]
  OBVIOUS
<1>2. n > 0 => h[n].to = a
  BY DEF PathTo
<1> HIDE DEF new
<1>3. ASSUME NEW i \in 1..n PROVE new[i].to = new[i + 1].from
  <2>1. CASE i = n
    BY <1>1, <1>2, <2>1
  <2>2. CASE i # n
    <3>1. i \in 1..(n - 1) /\ i + 1 \in 1..n
      BY <1>1, <2>2
    <3> QED
      BY <1>1, <3>1 DEF PathTo
  <2> QED
    BY <2>1, <2>2
<1>4. (n + 1) - 1 = n
  BY <1>1
<1> QED
  BY <1>1, <1>3, <1>4 DEF PathTo, new

LEMMA StudentIsPlaced ==
  ASSUME LadderInv, NEW s \in Pupils, NEW g \in Programs, NEW l \in Levels, assignPlacement(s, g, l)
  PROVE  LadderInv'
<1>1. /\ l \in DOMAIN level /\ g \in program /\ level[l].program = g /\ Writes
      /\ UNCHANGED <<program, level, content, link, panel, spent>>
  BY DEF assignPlacement
<1>2. /\ placement \in [DOMAIN placement -> Standing] /\ DOMAIN placement \subseteq Pupils
      /\ \A p \in DOMAIN placement : PathTo(placement[p].history, placement[p].level) /\ Stands(p)
  BY DEF LadderInv, PlacementsAreTyped, HistoriesArePaths, PathTo, LaddersKeepTheirParents
<1>3. l \in Siblings(g)
  BY <1>1 DEF Siblings
<1>4. /\ placement' \in [DOMAIN placement' -> Standing] /\ DOMAIN placement' \subseteq Pupils
      /\ \A p \in DOMAIN placement' : /\ PathTo(placement'[p].history, placement'[p].level)
                                      /\ placement'[p].level \in Siblings(placement'[p].program)
  <2>1. CASE s \notin DOMAIN placement
    <3> DEFINE row == [program |-> g, level |-> l, history |-> <<>>]
    <3>1. /\ placement' = [p \in DOMAIN placement \union {s} |-> IF p = s THEN row ELSE placement[p]]
          /\ DOMAIN placement' = DOMAIN placement \union {s}
      BY <2>1 DEF assignPlacement, Including
    <3>2. row \in Standing /\ PathTo(row.history, row.level) /\ row.level \in Siblings(row.program)
      BY <1>3 DEF Standing, PathTo
    <3> HIDE DEF row
    <3> QED
      BY <1>2, <3>1, <3>2 DEF Stands
  <2>2. CASE s \in DOMAIN placement /\ placement[s].level = l /\ placement[s].program = g
    <3>1. placement' = placement
      BY <2>2 DEF assignPlacement
    <3> QED
      BY <1>2, <3>1 DEF Stands
  <2>3. CASE s \in DOMAIN placement /\ ~(placement[s].level = l /\ placement[s].program = g)
    <3> DEFINE new == Append(placement[s].history, [from |-> placement[s].level, to |-> l])
               row == [program |-> g, level |-> l, history |-> new]
    <3>1. placement' = [placement EXCEPT ![s] = row]
      BY <2>3 DEF assignPlacement
    <3>2. placement[s].level \in Levels /\ placement[s].history \in Seq([from : Levels, to : Levels])
      BY <1>2, <2>3 DEF Standing
    <3>3. new \in Seq([from : Levels, to : Levels]) /\ PathTo(new, l)
      BY <1>2, <2>3, <3>2, PathGoesOn
    <3> HIDE DEF new
    <3>4. row \in Standing /\ PathTo(row.history, row.level) /\ row.level \in Siblings(row.program)
      BY <1>3, <3>3 DEF Standing
    <3> HIDE DEF row
    <3>5. /\ DOMAIN placement' = DOMAIN placement /\ placement' \in [DOMAIN placement -> Standing]
          /\ \A p \in DOMAIN placement : placement'[p] = IF p = s THEN row ELSE placement[p]
      BY <1>2, <2>3, <3>1, <3>4
    <3> QED
      BY <1>2, <3>4, <3>5 DEF Stands
  <2> QED
    BY <2>1, <2>2, <2>3
<1>5. LaddersKeepTheirParents'
  BY <1>1, <1>4 DEF LadderInv, LaddersKeepTheirParents, Stands, Siblings
<1>6. OthersAreTyped'
  BY <1>1, WritesCount DEF LadderInv, OthersAreTyped
<1> QED
  BY <1>1, <1>4, <1>5, <1>6 DEF LadderInv, LevelsAreTyped, PlacementsAreTyped, PanelIsTyped, PanelListsItsProgram,
                                HistoriesArePaths, PathTo

LEMMA StudentLeaves ==
  ASSUME LadderInv, NEW s \in Pupils, removePlacement(s)
  PROVE  LadderInv'
<1>1. /\ Writes /\ placement' = Without(placement, s)
      /\ UNCHANGED <<program, level, content, link, panel, spent>>
  BY DEF removePlacement
<1>2. /\ placement' = [p \in DOMAIN placement \ {s} |-> placement[p]]
      /\ DOMAIN placement' = DOMAIN placement \ {s}
      /\ \A p \in DOMAIN placement \ {s} : placement'[p] = placement[p]
  BY <1>1 DEF Without
<1>3. PlacementsAreTyped'
  BY <1>2 DEF LadderInv, PlacementsAreTyped
<1>4. LaddersKeepTheirParents'
  BY <1>1, <1>2 DEF LadderInv, LaddersKeepTheirParents, Stands, Siblings
<1>5. HistoriesArePaths'
  BY <1>2 DEF LadderInv, HistoriesArePaths
<1>6. OthersAreTyped'
  BY <1>1, WritesCount DEF LadderInv, OthersAreTyped
<1> QED
  BY <1>1, <1>3, <1>4, <1>5, <1>6 DEF LadderInv, LevelsAreTyped, PanelIsTyped, PanelListsItsProgram

\* What the panel reads are the levels of its program.
LEMMA PanelActs ==
  ASSUME LadderInv, readRows \/ (\E g \in Programs : selectProgram(g)) \/ (\E l \in Levels : openLevel(l))
  PROVE  LadderInv'
<1>1. UNCHANGED <<program, level, content, link, placement, spent, writes>>
  BY DEF readRows, selectProgram, openLevel
<1>2. PanelIsTyped'
  <2>1. CASE readRows
    <3>1. program # {}
      BY <2>1 DEF readRows
    <3>2. Selected \in program
      BY <3>1 DEF Selected
    <3> HIDE DEF Selected
    <3>3. /\ panel'.program = Selected /\ panel'.rows = RowsOf(Selected)
          /\ panel'.open = IF Selected = panel.program THEN panel.open ELSE Nothing
      BY <2>1 DEF readRows
    <3>4. DOMAIN panel'.rows = Siblings(Selected)
      BY <3>3 DEF RowsOf
    <3> QED
      BY <1>1, <3>2, <3>3, <3>4 DEF LadderInv, OthersAreTyped, PanelIsTyped, PanelListsItsProgram, Siblings
  <2>2. CASE \E g \in Programs : selectProgram(g)
    BY <1>1, <2>2 DEF LadderInv, PanelIsTyped, PanelListsItsProgram, selectProgram
  <2>3. CASE \E l \in Levels : openLevel(l)
    <3>1. PICK l \in Levels : panel' = [panel EXCEPT !.open = IF @ = l THEN Nothing ELSE l]
      BY <2>3 DEF openLevel
    <3>2. panel'.program = panel.program /\ panel'.rows = panel.rows /\ panel'.open \in Levels \union {Nothing}
      BY <3>1 DEF LadderInv, PanelIsTyped
    <3> QED
      BY <1>1, <3>2 DEF LadderInv, PanelIsTyped, PanelListsItsProgram
  <2> QED
    BY <2>1, <2>2, <2>3
<1> QED
  BY <1>1, <1>2 DEF LadderInv, LevelsAreTyped, PlacementsAreTyped, OthersAreTyped, LaddersKeepTheirParents, Stands,
                    Siblings, HistoriesArePaths

LEMMA LaddersKeep == LadderInv /\ [LadderNext]_ladderVars => LadderInv'
<1> SUFFICES ASSUME LadderInv, [LadderNext]_ladderVars PROVE LadderInv'
  OBVIOUS
<1>1. CASE \E g \in Programs : createProgram(g) \/ deleteProgram(g) \/ selectProgram(g)
  BY <1>1, ProgramIsMade, ProgramIsDeleted, PanelActs
<1>2. CASE \E l \in Levels, g \in Programs, o \in 1..Cardinality(Levels) : createLevel(l, g, o)
  BY <1>2, LevelIsMade
<1>3. CASE \E l \in Levels, a, e \in BOOLEAN : updateLevel(l, a, e)
  BY <1>3, LevelIsEdited
<1>4. CASE \E l \in Levels : openLevel(l) \/ removeLevel(l) \/ \E d \in {-1, 1} : moveLevel(l, d)
  BY <1>4, LevelIsMoved, LevelIsDeleted, PanelActs
<1>5. CASE \E x \in Contents : createContent(x) \/ deleteContent(x) \/ attach(x)
  BY <1>5, ContentIsMade, ContentIsDeleted, LinksChange
<1>6. CASE \E x \in Contents, v \in Standings : updateContent(x, v)
  BY <1>6, ContentIsEdited
<1>7. CASE \E l \in Levels, x \in Contents : detachContent(l, x)
  BY <1>7, LinksChange
<1>8. CASE \E s \in Pupils, g \in Programs, l \in Levels : assignPlacement(s, g, l)
  BY <1>8, StudentIsPlaced
<1>9. CASE \E s \in Pupils : removePlacement(s)
  BY <1>9, StudentLeaves
<1>10. CASE readRows
  BY <1>10, PanelActs
<1>11. CASE UNCHANGED ladderVars
  BY <1>11 DEF ladderVars, LadderInv, LevelsAreTyped, PlacementsAreTyped, OthersAreTyped, PanelIsTyped,
               PanelListsItsProgram, LaddersKeepTheirParents, Stands, Siblings, HistoriesArePaths
<1> QED
  BY <1>1, <1>2, <1>3, <1>4, <1>5, <1>6, <1>7, <1>8, <1>9, <1>10, <1>11 DEF LadderNext

\* The academy starts with two ladders, of two levels and of one.
LEMMA LaddersStart == LadderInit => LadderInv
<1> SUFFICES ASSUME NEW l1 \in Levels, NEW l2 \in Levels, NEW l3 \in Levels, NEW g1 \in Programs, NEW g2 \in Programs,
                    NEW x \in Contents, NEW s \in Pupils, l1 # l2, l1 # l3, l2 # l3, g1 # g2,
                    LadderStart(l1, l2, l3, g1, g2, x, s)
             PROVE  LadderInv
  BY DEF LadderInit
<1>1. /\ program = {g1, g2} /\ link = {<<l2, x>>} /\ writes = 0 /\ spent = {}
      /\ level = [l \in {l1, l2, l3} |-> [program |-> IF l = l3 THEN g2 ELSE g1, order |-> IF l = l2 THEN 2 ELSE 1,
                                          active |-> TRUE, exclusive |-> FALSE]]
      /\ content = [c \in {x} |-> "open"]
      /\ placement = [p \in {s} |-> [program |-> g1, level |-> l2, history |-> <<>>]]
      /\ panel = [program |-> g1, rows |-> RowsOf(g1), open |-> Nothing]
  BY DEF LadderStart, LevelRow
<1>2. /\ DOMAIN level = {l1, l2, l3}
      /\ level[l1].program = g1 /\ level[l2].program = g1 /\ level[l3].program = g2
      /\ level[l1].order = 1 /\ level[l2].order = 2 /\ level[l3].order = 1
  BY <1>1
<1>3. LevelsAreTyped
  BY <1>1 DEF LevelsAreTyped, Rung
<1>4. PlacementsAreTyped
  BY <1>1 DEF PlacementsAreTyped, Standing
<1>5. OthersAreTyped
  BY <1>1, LadderAssumption DEF OthersAreTyped, Standings, LadderAssumption
<1>6. PanelIsTyped
  <2>1. DOMAIN panel.rows = Siblings(g1) /\ panel.program = g1 /\ panel.open = Nothing
    BY <1>1 DEF RowsOf
  <2> QED
    BY <2>1 DEF PanelIsTyped, PanelListsItsProgram, Siblings
<1>7. Numbered(level, g1)
  <2>1. Rungs(level, g1) = {l1, l2}
    BY <1>2 DEF Rungs
  <2>2. Cardinality(Rungs(level, g1)) = 2
    <3>1. Cardinality({l1}) = 1 /\ IsFiniteSet({l1})
      BY FS_Singleton
    <3>2. Cardinality({l1} \union {l2}) = 1 + 1
      BY <3>1, FS_AddElement
    <3> QED
      BY <2>1, <3>2
  <2> QED
    BY <1>2, <2>1, <2>2 DEF Numbered
<1>8. Numbered(level, g2)
  <2>1. Rungs(level, g2) = {l3}
    BY <1>2 DEF Rungs
  <2>2. Cardinality(Rungs(level, g2)) = 1
    BY <2>1, FS_Singleton
  <2> QED
    BY <1>2, <2>1, <2>2 DEF Numbered
<1>9. ASSUME NEW g \in Programs, g # g1, g # g2 PROVE Numbered(level, g)
  <2>1. Rungs(level, g) = {}
    BY <1>2, <1>9 DEF Rungs
  <2>2. Cardinality(Rungs(level, g)) = 0
    BY <2>1, FS_EmptySet
  <2> QED
    BY <2>1, <2>2 DEF Numbered
<1>10. LaddersKeepTheirParents
  <2>1. l2 \in Siblings(g1)
    BY <1>2 DEF Siblings
  <2>2. \A p \in DOMAIN placement : Stands(p)
    BY <1>1, <2>1 DEF Stands
  <2>3. \A p \in link : p[1] \in DOMAIN level /\ p[2] \in DOMAIN content
    BY <1>1, <1>2
  <2> QED
    BY <1>1, <1>2, <2>2, <2>3 DEF LaddersKeepTheirParents
<1>11. HistoriesArePaths
  <2>1. DOMAIN placement = {s} /\ placement[s].history = <<>>
    BY <1>1
  <2> QED
    BY <2>1 DEF HistoriesArePaths
<1> QED
  BY <1>3, <1>4, <1>5, <1>6, <1>7, <1>8, <1>9, <1>10, <1>11 DEF LadderInv

-----------------------------------------------------------------------------
(* What follows.                                                           *)

\* A set of numbers that is not empty has a least one.
LEMMA LeastNumber ==
  ASSUME NEW T, T \subseteq Nat, T # {}
  PROVE  \E m \in T : \A k \in T : m <= k
<1>1. PICK m \in T : \A k \in T : ~(<<k, m>> \in OpToRel(<, Nat))
  BY NatLessThanWellFounded, WFMin
<1>2. \A k \in T : ~(k < m)
  BY <1>1 DEF OpToRel
<1> QED
  BY <1>2

\* The rule, read from the student and from the content.
LEMMA RuleReadsAlike ==
  ASSUME LadderInv PROVE EligibilityAgrees
<1>1. ASSUME NEW x \in DOMAIN content, content[x] = "open"
      PROVE  resolveEligibleStudentIds(x) = {s \in DOMAIN placement : x \in resolveEligibleContent(s)}
  <2> DEFINE attached == {l \in DOMAIN level : <<l, x>> \in link /\ level[l].active}
             shared(g) == {level[l].order : l \in {k \in attached : level[k].program = g /\ ~level[k].exclusive}}
             threshold(g) == CHOOSE o \in shared(g) : \A p \in shared(g) : o <= p
             counted(s) == \/ placement[s].level \in {l \in attached : level[l].exclusive}
                           \/ /\ shared(placement[s].program) # {} /\ placement[s].level \in DOMAIN level
                              /\ level[placement[s].level].order >= threshold(placement[s].program)
  <2>1. resolveEligibleStudentIds(x) = {s \in DOMAIN placement : counted(s)}
    BY DEF resolveEligibleStudentIds
  <2>2. ASSUME NEW s \in DOMAIN placement
        PROVE  counted(s) <=> \E l \in DOMAIN level : <<l, x>> \in link /\ Reaches(s, l)
    <3> DEFINE held == placement[s].level
               g == placement[s].program
    <3>1. Stands(s) /\ held \in DOMAIN level /\ level[held].program = g
      BY DEF LadderInv, LaddersKeepTheirParents, Stands, Siblings
    <3>2. \A l \in DOMAIN level : level[l].order \in Nat /\ level[l].exclusive \in BOOLEAN /\ level[l].active \in BOOLEAN
      BY DEF LadderInv, LevelsAreTyped, Rung
    <3>3. \A l \in DOMAIN level :
            Reaches(s, l) <=> /\ level[l].program = g /\ level[l].active
                              /\ IF level[l].exclusive THEN l = held ELSE level[l].order <= level[held].order
      BY <3>1 DEF Reaches, Siblings
    <3>4. shared(g) # {} => threshold(g) \in shared(g) /\ \A p \in shared(g) : threshold(g) <= p
      <4> SUFFICES ASSUME shared(g) # {} PROVE threshold(g) \in shared(g) /\ \A p \in shared(g) : threshold(g) <= p
        OBVIOUS
      <4>1. shared(g) \subseteq Nat
        BY <3>2
      <4> HIDE DEF shared
      <4>2. \E m \in shared(g) : \A k \in shared(g) : m <= k
        BY <4>1, LeastNumber
      <4> QED
        BY <4>2
    <3> HIDE DEF threshold
    <3>5. ASSUME counted(s) PROVE \E l \in DOMAIN level : <<l, x>> \in link /\ Reaches(s, l)
      <4>1. CASE held \in {l \in attached : level[l].exclusive}
        BY <3>1, <3>3, <4>1
      <4>2. CASE shared(g) # {} /\ level[held].order >= threshold(g)
        <5>1. PICK l \in attached : level[l].program = g /\ ~level[l].exclusive /\ level[l].order = threshold(g)
          BY <3>4, <4>2
        <5>2. level[l].order <= level[held].order
          BY <3>1, <3>2, <4>2, <5>1
        <5> QED
          BY <3>3, <5>1, <5>2
      <4> QED
        BY <3>5, <4>1, <4>2
    <3>6. ASSUME NEW l \in DOMAIN level, <<l, x>> \in link, Reaches(s, l) PROVE counted(s)
      <4>1. level[l].program = g /\ level[l].active /\ l \in attached
        BY <3>3, <3>6
      <4>2. CASE level[l].exclusive
        BY <3>3, <3>6, <4>1, <4>2
      <4>3. CASE ~level[l].exclusive
        <5>1. level[l].order \in shared(g) /\ level[l].order <= level[held].order
          BY <3>3, <3>6, <4>1, <4>3
        <5>2. threshold(g) \in shared(g) /\ threshold(g) <= level[l].order
          BY <3>4, <5>1
        <5>3. threshold(g) \in Nat
          BY <3>2, <5>2
        <5>4. level[held].order >= threshold(g)
          BY <3>1, <3>2, <5>1, <5>2, <5>3
        <5> QED
          BY <3>1, <5>1, <5>4
      <4> QED
        BY <4>2, <4>3
    <3> QED
      BY <3>5, <3>6
  <2>3. \A s \in DOMAIN placement : x \in resolveEligibleContent(s) <=> \E l \in DOMAIN level : <<l, x>> \in link /\ Reaches(s, l)
    BY <1>1 DEF resolveEligibleContent
  <2> HIDE DEF counted
  <2> QED
    BY <2>1, <2>2, <2>3
<1>2. \A s \in DOMAIN placement : resolveEligibleContent(s) \intersect resolveLockedContent(s) = {}
  BY DEF resolveLockedContent
<1> QED
  BY <1>1, <1>2 DEF EligibilityAgrees

LEMMA LaddersHoldThen == LadderInv => LaddersHold
<1> SUFFICES ASSUME LadderInv PROVE LaddersHold
  OBVIOUS
<1>1. LaddersAreContiguous
  <2> SUFFICES ASSUME NEW g \in program
               PROVE  {level[l].order : l \in Siblings(g)} = 1..Cardinality(Siblings(g))
    BY DEF LaddersAreContiguous
  <2>1. Numbered(level, g) /\ Rungs(level, g) = Siblings(g)
    BY DEF LadderInv, OthersAreTyped, Rungs, Siblings
  <2> QED
    BY <2>1 DEF Numbered
<1> QED
  BY <1>1, RuleReadsAlike DEF LadderInv, PanelIsTyped, LaddersHold, LaddersStand

\* Each ladder is numbered 1 to N whatever was inserted, moved or deleted, also
\* from rows that were read before another window's change; what hangs on
\* something keeps it, a student's history is one path, and the rule says the
\* same from the student's and from the content's side (learning
\* localRepository.ts, resolveEligibleContent and resolveEligibleStudentIds).
THEOREM LaddersAlwaysHold == LadderSpec => []LaddersHold
<1> QED
  BY LaddersStart, LaddersKeep, LaddersHoldThen, PTL DEF LadderSpec

\* The ladders, their placements and the panel stay within their types.
THEOREM LadderTypeCorrect == LadderSpec => []LadderTypeOK
<1>1. LadderInv => LadderTypeOK
  <2> SUFFICES ASSUME LadderInv PROVE LadderTypeOK
    OBVIOUS
  <2>1. ASSUME NEW l \in DOMAIN level PROVE level[l].order \in 1..Cardinality(Levels)
    <3> DEFINE g == level[l].program
    <3>1. g \in Programs /\ l \in Rungs(level, g) /\ DOMAIN level \subseteq Levels
      BY DEF LadderInv, LevelsAreTyped, Rung, Rungs
    <3>2. level[l].order \in 1..Cardinality(Rungs(level, g))
      BY <3>1 DEF LadderInv, Numbered
    <3>3. Rungs(level, g) \subseteq Levels
      BY <3>1 DEF Rungs
    <3>4. Cardinality(Rungs(level, g)) <= Cardinality(Levels) /\ Cardinality(Levels) \in Nat /\ Cardinality(Rungs(level, g)) \in Nat
      BY <3>1, <3>3, RungsAreFinite, LadderAssumption, FS_Subset, FS_CardinalityType DEF LadderAssumption
    <3> QED
      BY <3>2, <3>4
  <2> QED
    BY <2>1 DEF LadderInv, LevelsAreTyped, PlacementsAreTyped, OthersAreTyped, PanelIsTyped, LadderTypeOK
<1> QED
  BY <1>1, LaddersStart, LaddersKeep, PTL DEF LadderSpec

=============================================================================
