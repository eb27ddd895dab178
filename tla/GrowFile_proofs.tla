-------------------------- MODULE GrowFile_proofs --------------------------
(***************************************************************************)
(* Proofs about GrowFile, for every set of files, size of the table and    *)
(* size of a file: the table never points at a download that is over, and  *)
(* never promises a reader blocks that are not on the card; a download     *)
(* that is followed keeps its slot until it ends.                          *)
(***************************************************************************)
EXTENDS GrowFile, WellFoundedInduction, TLAPS

\* A path has one slot at most: a file is announced once, and a download
\* starts only when the one before it has given its slot back.
OneSlotPerPath ==
    \A i, j \in Slots : slots[i].active /\ slots[j].active /\ slots[i].path = slots[j].path => i = j

TableTypes ==
    /\ slots \in [Slots -> [path : Paths \cup {NoPath}, done : 0..Size, active : BOOLEAN]]
    /\ disk \in [Paths -> 0..Size] /\ writer \in [Paths -> WriterPlaces] /\ whole \subseteq Paths

ReaderFlags == starved \in BOOLEAN /\ at_eof \in BOOLEAN /\ aborting \in BOOLEAN

\* A read in progress is short of its goal; a seek's is inside the file.
ReaderTypes ==
    /\ path \in Paths \cup {NoPath} /\ pos \in 0..Size
    /\ pc \in ReaderPlaces /\ goal \in 0..(Size + MaxBytes) /\ slot \in Slots \cup {NoSlot}
    /\ pc /= "closed" => path \in Paths
    /\ pc = "wait_seek" => goal \in 0..Size
    /\ pc \in {"short", "again", "wait_read", "refill"} => pos < goal

TInv == TableTypes /\ OneSlotPerPath /\ SlotsFollowWriters /\ ProgressIsOnDisk

\* With one slot per path at most, the first that answers is the one that does.
LEMMA FindFacts ==
  ASSUME OneSlotPerPath, NEW p \in Paths
  PROVE  \A i \in Slots : i = find_locked(p) <=> i \in SlotsOf(p)
  <1> SUFFICES ASSUME NEW i \in Slots PROVE i = find_locked(p) <=> i \in SlotsOf(p)
    OBVIOUS
  <1>1. i \in Int /\ i /= NoSlot
    BY SlotsAssumption DEF Slots, NoSlot
  <1>2. CASE SlotsOf(p) = {}
    BY <1>1, <1>2 DEF find_locked, FirstOf
  <1>3. CASE SlotsOf(p) /= {}
    <2>1. PICK k \in Slots : k \in SlotsOf(p)
      BY <1>3 DEF SlotsOf
    <2>2. SlotsOf(p) = {k}
      BY <2>1 DEF SlotsOf, OneSlotPerPath
    <2>3. k \in Int
      BY SlotsAssumption DEF Slots
    <2>4. Min({k}) = k
      BY <2>3 DEF Min
    <2>5. find_locked(p) = k
      BY <1>3, <2>2, <2>4 DEF find_locked, FirstOf
    <2> QED
      BY <2>2, <2>5
  <1> QED
    BY <1>2, <1>3

\* A set of numbers has a least one.
LEMMA Smallest == ASSUME NEW S \in SUBSET Nat, S /= {} PROVE \E n \in S : \A k \in S : n <= k
  <1> DEFINE Below == {ss \in Nat \X Nat : ss[1] < ss[2]}
  <1>1. IsWellFoundedOn(Below, Nat)
    BY NatLessThanWellFounded, Zenon DEF OpToRel
  <1>2. \A k, n \in Nat : k < n => <<k, n>> \in Below
    OBVIOUS
  <1> HIDE DEF Below
  <1>3. PICK n \in S : \A k \in S : <<k, n>> \notin Below
    BY <1>1, WFMin, Zenon
  <1>4. \A k \in S : ~(k < n)
    BY <1>2, <1>3, Zenon
  <1> QED
    BY <1>4

\* With no slot free there is none; otherwise what is found is free.
LEMMA FreeSlotIs == free_slot = NoSlot \/ (free_slot \in Slots /\ ~slots[free_slot].active)
  <1> DEFINE S == {i \in Slots : ~slots[i].active}
  <1>1. CASE S = {}
    BY <1>1 DEF free_slot, FirstOf
  <1>2. CASE S /= {}
    <2>1. S \subseteq Nat
      BY SlotsAssumption DEF Slots
    <2> HIDE DEF S
    <2>3. PICK k \in S : \A j \in S : k <= j
      BY <1>2, <2>1, Smallest
    <2>4. Min(S) \in S
      BY <2>3 DEF Min
    <2>5. free_slot = Min(S)
      BY <1>2 DEF free_slot, FirstOf, S
    <2> QED
      BY <2>4, <2>5 DEF S
  <1> QED
    BY <1>1, <1>2

-----------------------------------------------------------------------------

\* The empty table is sound.
LEMMA InitTable == Init => TInv
  BY SizeAssumption, PathsAssumption
  DEF Init, TInv, TableTypes, OneSlotPerPath, SlotsFollowWriters, ProgressIsOnDisk, WriterPlaces

\* Truncating a file disturbs no slot: no download of it is running.
LEMMA CreateKeepsTable == ASSUME TInv, NEW p \in Paths, CreateFile(p) PROVE TInv'
  <1> USE DEF TInv, TableTypes, CreateFile, table, WriterPlaces
  <1>1. TableTypes'
    BY SizeAssumption
  <1>2. OneSlotPerPath'
    BY DEF OneSlotPerPath
  <1>3. SlotsFollowWriters'
    BY DEF SlotsFollowWriters
  <1>4. ProgressIsOnDisk'
    BY DEF ProgressIsOnDisk, SlotsFollowWriters
  <1> QED
    BY <1>1, <1>2, <1>3, <1>4

\* A new slot names a path that no slot in use named, and promises nothing.
LEMMA AnnounceKeepsTable == ASSUME TInv, NEW p \in Paths, growfile_announce(p) PROVE TInv'
  <1> USE DEF TInv, TableTypes, growfile_announce, announced, WriterPlaces
  <1> DEFINE i == IF growfile_is_growing(p) THEN find_locked(p) ELSE free_slot
  <1>1. writer' = [writer EXCEPT ![p] = "writing"] /\ writer[p] = "created" /\ UNCHANGED <<disk, whole>>
    OBVIOUS
  <1>2. slots' = slots \/ slots' = [slots EXCEPT ![i] = [path |-> p, done |-> 0, active |-> TRUE]]
    OBVIOUS
  <1>3. \A j \in Slots : slots[j].active => slots[j].path /= p
    <2> SUFFICES ASSUME NEW j \in Slots, slots[j].active, slots[j].path = p PROVE FALSE
      OBVIOUS
    <2>1. writer[p] \in {"writing", "written"}
      BY DEF SlotsFollowWriters
    <2> QED
      BY <1>1, <2>1
  <1> HIDE DEF i, growfile_announce
  <1>4. TableTypes'
    <2>1. [path |-> p, done |-> 0, active |-> TRUE] \in [path : Paths \cup {NoPath}, done : 0..Size, active : BOOLEAN]
      BY SizeAssumption
    <2>2. slots' \in [Slots -> [path : Paths \cup {NoPath}, done : 0..Size, active : BOOLEAN]]
      BY <1>2, <2>1, ZenonT(40)
    <2>3. writer' \in [Paths -> WriterPlaces]
      BY <1>1
    <2> QED
      BY <1>1, <2>2, <2>3
  <1>5. OneSlotPerPath'
    BY <1>2, <1>3 DEF OneSlotPerPath
  <1>6. SlotsFollowWriters'
    BY <1>1, <1>2, <1>3 DEF SlotsFollowWriters
  <1>7. ProgressIsOnDisk'
    BY <1>1, <1>2 DEF ProgressIsOnDisk
  <1> QED
    BY <1>4, <1>5, <1>6, <1>7

\* A file that grows keeps what was promised of it.
LEMMA WriteKeepsTable == ASSUME TInv, NEW p \in Paths, WriteChunk(p) PROVE TInv'
  <1> USE DEF TInv, TableTypes, WriteChunk, table, WriterPlaces
  <1>0. \A q \in Paths : disk'[q] >= disk[q] /\ disk'[q] \in 0..Size
    BY SizeAssumption
  <1>1. TableTypes'
    BY <1>0
  <1>2. OneSlotPerPath'
    BY DEF OneSlotPerPath
  <1>3. SlotsFollowWriters'
    BY DEF SlotsFollowWriters
  <1>4. ProgressIsOnDisk'
    BY <1>0, SizeAssumption DEF ProgressIsOnDisk, SlotsFollowWriters
  <1> QED
    BY <1>1, <1>2, <1>3, <1>4

\* What is promised is what was written before.
LEMMA ProgressKeepsTable == ASSUME TInv, NEW p \in Paths, growfile_progress(p) PROVE TInv'
  <1> USE DEF TInv, TableTypes, growfile_progress, WriterPlaces
  <1>0. \A j \in Slots : /\ slots'[j].path = slots[j].path /\ slots'[j].active = slots[j].active
                         /\ \/ slots'[j].done = slots[j].done
                            \/ slots[j].active /\ slots[j].path = p /\ slots'[j].done = disk[p]
    <2> SUFFICES ASSUME NEW j \in Slots
                 PROVE  /\ slots'[j].path = slots[j].path /\ slots'[j].active = slots[j].active
                        /\ \/ slots'[j].done = slots[j].done
                           \/ slots[j].active /\ slots[j].path = p /\ slots'[j].done = disk[p]
      OBVIOUS
    <2>1. CASE j = find_locked(p)
      <3>1. slots[j].active /\ slots[j].path = p
        BY <2>1, FindFacts DEF SlotsOf
      <3>2. slots'[j] = [slots[j] EXCEPT !.done = disk[p]]
        BY <2>1
      <3> QED
        BY <3>1, <3>2
    <2>2. CASE j /= find_locked(p)
      BY <2>2
    <2> QED
      BY <2>1, <2>2
  <1>1. TableTypes'
    BY SizeAssumption
  <1>2. OneSlotPerPath'
    BY <1>0 DEF OneSlotPerPath
  <1>3. SlotsFollowWriters'
    BY <1>0 DEF SlotsFollowWriters
  <1>4. ProgressIsOnDisk'
    BY <1>0 DEF ProgressIsOnDisk
  <1> QED
    BY <1>1, <1>2, <1>3, <1>4

\* A download that ends, well or not, leaves no slot in use behind.
LEMMA EndKeepsTable == ASSUME TInv, NEW p \in Paths, NEW ok \in BOOLEAN, EndDownload(p, ok) PROVE TInv'
  <1> USE DEF TInv, TableTypes, EndDownload, growfile_finish, WriterPlaces
  <1>0. \A j \in Slots : /\ slots'[j].path = slots[j].path /\ slots'[j].done = slots[j].done
                         /\ slots'[j].active => slots[j].active /\ slots[j].path /= p
    BY FindFacts DEF SlotsOf
  <1>1. TableTypes'
    BY ZenonT(40)
  <1>2. OneSlotPerPath'
    BY <1>0 DEF OneSlotPerPath
  <1>3. SlotsFollowWriters'
    BY <1>0 DEF SlotsFollowWriters
  <1>4. ProgressIsOnDisk'
    BY <1>0 DEF ProgressIsOnDisk
  <1> QED
    BY <1>1, <1>2, <1>3, <1>4

\* The reader writes nothing of the table or of the files.
LEMMA ReaderLeavesTable == Inside \/ Calls \/ Command => UNCHANGED <<table, files>>
  BY DEF Inside, Calls, Command, NoteStarved, AbortRead, StartWait, WaitTimesOut, WaitWakes, ReadLooks, Refill,
         SeekTimesOut, SeekWakes, SeekLooks, growfile_open, growfile_close, growfile_take_starved, growfile_read,
         growfile_seek

-----------------------------------------------------------------------------
(* A download that is followed stays followed.                              *)

\* There is a slot in use for this file.
Followed(q) == \E i \in Slots : slots[i].active /\ slots[i].path = q

\* The look through the table finds it.
LEMMA GrowingIs == ASSUME OneSlotPerPath, NEW p \in Paths PROVE growfile_is_growing(p) <=> Followed(p)
  <1>1. CASE SlotsOf(p) = {}
    BY <1>1 DEF growfile_is_growing, find_locked, FirstOf, Followed, SlotsOf
  <1>2. CASE SlotsOf(p) /= {}
    <2>1. PICK k \in Slots : k \in SlotsOf(p)
      BY <1>2 DEF SlotsOf
    <2>2. k = find_locked(p)
      BY <2>1, FindFacts
    <2>3. k /= NoSlot
      BY SlotsAssumption DEF Slots, NoSlot
    <2> QED
      BY <2>1, <2>2, <2>3 DEF growfile_is_growing, Followed, SlotsOf
  <1> QED
    BY <1>1, <1>2

\* An announcement takes a slot that nobody has, or the file's own.
LEMMA AnnounceKeepsOthers ==
  ASSUME TInv, NEW p \in Paths, growfile_announce(p), NEW q \in Paths, Followed(q)
  PROVE  Followed(q)'
  <1>1. PICK k \in Slots : slots[k].active /\ slots[k].path = q
    BY DEF Followed
  <1> DEFINE i == IF growfile_is_growing(p) THEN find_locked(p) ELSE free_slot
  <1>2. slots' = IF i = NoSlot THEN slots ELSE announced(i, p)
    BY DEF growfile_announce
  <1>3. slots \in [Slots -> [path : Paths \cup {NoPath}, done : 0..Size, active : BOOLEAN]]
    BY DEF TInv, TableTypes
  <1>4. i = k => q = p
    <2>1. CASE growfile_is_growing(p)
      BY <1>1, <2>1, FindFacts DEF TInv, SlotsOf
    <2>2. CASE ~growfile_is_growing(p)
      <3>1. k /= NoSlot
        BY SlotsAssumption DEF Slots, NoSlot
      <3> QED
        BY <1>1, <2>2, <3>1, FreeSlotIs
    <2> QED
      BY <2>1, <2>2
  <1> HIDE DEF i
  <1>5. slots'[k].active /\ slots'[k].path = q
    <2>1. CASE i = k /\ i /= NoSlot
      <3>1. slots'[k] = [path |-> p, done |-> 0, active |-> TRUE]
        BY <1>2, <1>3, <2>1 DEF announced
      <3> QED
        BY <1>4, <2>1, <3>1
    <2>2. CASE ~(i = k /\ i /= NoSlot)
      <3>1. slots'[k] = slots[k]
        BY <1>2, <1>3, <2>2 DEF announced
      <3> QED
        BY <1>1, <3>1
    <2> QED
      BY <2>1, <2>2
  <1> QED
    BY <1>5 DEF Followed

\* A file's slot stays in use, unless this step ends its download.
LEMMA DownloadIsFollowed ==
  ASSUME TInv, [Next]_vars, NEW q \in Paths, Followed(q), writer'[q] /= "none"
  PROVE  Followed(q)'
  <1>1. CASE slots' = slots
    BY <1>1 DEF Followed
  <1>2. ASSUME NEW p \in Paths, growfile_progress(p) PROVE Followed(q)'
    <2>1. \A i \in Slots : slots'[i].path = slots[i].path /\ slots'[i].active = slots[i].active
      BY <1>2 DEF growfile_progress, TInv, TableTypes
    <2> QED
      BY <2>1 DEF Followed
  <1>3. ASSUME NEW p \in Paths, NEW ok \in BOOLEAN, EndDownload(p, ok) PROVE Followed(q)'
    <2>1. q /= p
      BY <1>3 DEF EndDownload, TInv, TableTypes
    <2>2. PICK k \in Slots : slots[k].active /\ slots[k].path = q
      BY DEF Followed
    <2>3. k /= find_locked(p)
      BY <2>1, <2>2, FindFacts DEF TInv, SlotsOf
    <2>4. slots'[k] = slots[k]
      BY <1>3, <2>3 DEF EndDownload, growfile_finish
    <2> QED
      BY <2>2, <2>4 DEF Followed
  <1>4. CASE UNCHANGED table
    BY <1>1, <1>4 DEF table
  <1>5. ASSUME NEW p \in Paths, Writer(p) PROVE Followed(q)'
    BY <1>2, <1>3, <1>4, <1>5, AnnounceKeepsOthers DEF Writer, CreateFile, WriteChunk
  <1> QED
    BY <1>4, <1>5, ReaderLeavesTable DEF Next, vars

-----------------------------------------------------------------------------

\* The table is sound in every reachable state.
THEOREM TableHolds == Spec => []TInv
  <1>1. TInv /\ [Next]_vars => TInv'
    <2> SUFFICES ASSUME TInv, [Next]_vars PROVE TInv'
      OBVIOUS
    <2>1. CASE UNCHANGED <<table, files>>
      BY <2>1 DEF TInv, TableTypes, OneSlotPerPath, SlotsFollowWriters, ProgressIsOnDisk, table, files
    <2>2. ASSUME NEW p \in Paths, Writer(p) PROVE TInv'
      BY <2>2, CreateKeepsTable, AnnounceKeepsTable, WriteKeepsTable, ProgressKeepsTable, EndKeepsTable
      DEF Writer
    <2> QED
      BY <2>1, <2>2, ReaderLeavesTable DEF Next, vars
  <1> QED
    BY <1>1, InitTable, PTL DEF Spec

\* A slot in use belongs to a running download.
THEOREM SlotsHold == Spec => []SlotsFollowWriters
  BY TableHolds, PTL DEF TInv

\* No reader is told of blocks that are not on the card.
THEOREM ProgressHolds == Spec => []ProgressIsOnDisk
  BY TableHolds, PTL DEF TInv

\* The table is true of the downloads and of the card.
THEOREM TableIsTrueHolds == Spec => []TableIsTrue
  BY SlotsHold, ProgressHolds, PTL DEF TableIsTrue

\* A download that is followed stays followed until it ends: an announcement
\* takes no slot in use, and an end gives back its own only (growfile_announce,
\* growfile_finish).
THEOREM SlotIsKept == Spec => DownloadsKeepTheirSlot
  <1> DEFINE Kept == \A p \in Paths : growfile_is_growing(p) /\ writer'[p] /= "none" => growfile_is_growing(p)'
  <1> DEFINE Found == \A p \in Paths : growfile_is_growing(p) <=> Followed(p)
  <1>1. TInv => Found
    BY GrowingIs DEF TInv
  <1>2. TInv /\ Found /\ Found' /\ [Next]_vars => [Kept]_vars
    <2> SUFFICES ASSUME TInv, Found, Found', [Next]_vars, NEW p \in Paths, growfile_is_growing(p), writer'[p] /= "none"
                 PROVE  growfile_is_growing(p)'
      OBVIOUS
    <2>1. Followed(p)
      OBVIOUS
    <2>2. Followed(p)'
      BY <2>1, DownloadIsFollowed
    <2> QED
      BY <2>2
  <1> QED
    BY <1>1, <1>2, TableHolds, PTL DEF Spec, DownloadsKeepTheirSlot


-----------------------------------------------------------------------------
(***************************************************************************)
(* Types of the reader.                                                    *)
(***************************************************************************)

\* A read gives no more than was asked for, and stays inside the file.
LEMMA FreadFacts ==
  ASSUME TableTypes, ReaderTypes, path \in Paths, NEW n \in Nat
  PROVE  fread(n) \in 0..n /\ pos + fread(n) \in 0..Size
  <1>1. OnCard \in Nat /\ pos + OnCard \in 0..Size
    BY SizeAssumption DEF OnCard, TableTypes, ReaderTypes
  <1>2. fread(n) \in {n, OnCard} /\ fread(n) <= n /\ fread(n) <= OnCard
    <2>1. CASE n <= OnCard
      <3>1. Min({n, OnCard}) = n
        BY <1>1, <2>1 DEF Min
      <3> QED
        BY <1>1, <2>1, <3>1 DEF fread
    <2>2. CASE OnCard < n
      <3>1. Min({n, OnCard}) = OnCard
        BY <1>1, <2>2 DEF Min
      <3> QED
        BY <1>1, <2>2, <3>1 DEF fread
    <2> QED
      BY <1>1, <2>1, <2>2
  <1> QED
    BY <1>1, <1>2, SizeAssumption DEF ReaderTypes

\* A look at the table finds a slot of the table, or none.
LEMMA FoundIsASlot ==
  ASSUME OneSlotPerPath, path \in Paths
  PROVE  found \in Slots \cup {NoSlot}
  <1>1. CASE SlotsOf(path) = {}
    BY <1>1 DEF found, find_locked, FirstOf
  <1>2. CASE SlotsOf(path) /= {}
    BY <1>2, FindFacts DEF SlotsOf, found
  <1> QED
    BY <1>1, <1>2

\* Every call and every step of one keeps the reader's flags Boolean.
LEMMA ReaderKeepsFlags == ReaderFlags /\ (Inside \/ Calls \/ Command) => ReaderFlags'
  <1> SUFFICES ASSUME ReaderFlags, Inside \/ Calls \/ Command PROVE ReaderFlags'
    OBVIOUS
  <1> USE DEF ReaderFlags, handle
  <1>1. CASE NoteStarved
    BY <1>1, Zenon DEF NoteStarved
  <1>2. CASE AbortRead \/ StartWait \/ WaitWakes \/ WaitTimesOut
    BY <1>2, Zenon DEF AbortRead, StartWait, WaitWakes, WaitTimesOut, ReadLooks
  <1>3. CASE Refill
    <2>1. at_eof' = (pos' < goal) /\ starved' = starved /\ aborting' = aborting
      BY <1>3, Zenon DEF Refill
    <2>2. at_eof' = TRUE \/ at_eof' = FALSE
      <3>1. CASE pos' < goal
        BY <2>1, <3>1, Zenon
      <3>2. CASE ~(pos' < goal)
        BY <2>1, <3>2
      <3> QED
        BY <3>1, <3>2, Zenon
    <2> QED
      BY <2>1, <2>2, Zenon
  <1>4. ASSUME NEW n, NEW t, SeekAnswer(n, t), UNCHANGED <<starved, aborting>> PROVE ReaderFlags'
    BY <1>4, Zenon DEF SeekAnswer
  <1>5. CASE SeekTimesOut
    BY <1>4, <1>5, Zenon DEF SeekTimesOut
  <1>6. CASE SeekWakes
    BY <1>4, <1>6, Zenon DEF SeekWakes, SeekLooks
  <1>7. ASSUME NEW p \in Paths, growfile_open(p) PROVE ReaderFlags'
    BY <1>7, Zenon DEF growfile_open
  <1>8. CASE growfile_close \/ growfile_take_starved
    BY <1>8, Zenon DEF growfile_close, growfile_take_starved
  <1>9. ASSUME NEW n \in 1..MaxBytes, growfile_read(n) PROVE ReaderFlags'
    BY <1>9, Zenon DEF growfile_read
  <1>10. ASSUME NEW t \in 0..Size, growfile_seek(t) PROVE ReaderFlags'
    BY <1>10, Zenon DEF growfile_seek, SeekLooks, SeekAnswer
  <1>11. CASE Command
    BY <1>11, Zenon DEF Command
  <1> QED
    BY <1>1, <1>2, <1>3, <1>5, <1>6, <1>7, <1>8, <1>9, <1>10, <1>11 DEF Inside, Calls

\* Every call and every step of one keeps the reader inside the file.
LEMMA ReaderKeepsTypes ==
  ASSUME TInv, ReaderTypes, Inside \/ Calls \/ Command
  PROVE  ReaderTypes'
  <1> USE SizeAssumption DEF TInv, ReaderTypes, ReaderPlaces, call, handle, Return
  <1>1. CASE NoteStarved
    BY <1>1 DEF NoteStarved, growfile_is_growing
  <1>2. CASE AbortRead
    BY <1>2 DEF AbortRead
  <1>3. CASE StartWait \/ WaitWakes
    BY <1>3, FoundIsASlot DEF StartWait, WaitWakes, ReadLooks, ReadAnswer
  <1>4. CASE WaitTimesOut
    BY <1>4 DEF WaitTimesOut, ReadAnswer
  <1>5. CASE Refill
    <2>1. goal - pos \in Nat
      BY <1>5 DEF Refill
    <2>2. fread(goal - pos) \in 0..(goal - pos) /\ pos + fread(goal - pos) \in 0..Size
      BY <1>5, <2>1, FreadFacts DEF Refill
    <2> QED
      BY <1>5, <2>2 DEF Refill
  <1>6. CASE SeekTimesOut
    BY <1>6 DEF SeekTimesOut, SeekAnswer
  <1>7. CASE SeekWakes
    BY <1>7, FoundIsASlot DEF SeekWakes, SeekLooks, SeekAnswer
  <1>8. ASSUME NEW p \in Paths, growfile_open(p) PROVE ReaderTypes'
    BY <1>8 DEF growfile_open
  <1>9. CASE growfile_close
    BY <1>9 DEF growfile_close
  <1>10. CASE growfile_take_starved
    BY <1>10 DEF growfile_take_starved
  <1>11. ASSUME NEW n \in 1..MaxBytes, growfile_read(n) PROVE ReaderTypes'
    <2>1. fread(n) \in 0..n /\ pos + fread(n) \in 0..Size
      BY <1>11, FreadFacts DEF growfile_read
    <2> QED
      BY <1>11, <2>1 DEF growfile_read
  <1>12. ASSUME NEW t \in 0..Size, growfile_seek(t) PROVE ReaderTypes'
    BY <1>12, FoundIsASlot DEF growfile_seek, SeekLooks, SeekAnswer
  <1>13. CASE Command
    BY <1>13 DEF Command
  <1> QED
    BY <1>1, <1>2, <1>3, <1>4, <1>5, <1>6, <1>7, <1>8, <1>9, <1>10, <1>11, <1>12, <1>13 DEF Inside, Calls

\* Every variable keeps its type; a read in progress has its goal ahead of it.
THEOREM TypeCorrect == Spec => []TypeOK
  <1>1. Init => ReaderTypes /\ ReaderFlags
    <2>1. Init => ReaderFlags
      BY Zenon DEF Init, ReaderFlags
    <2>2. Init => ReaderTypes
      BY SizeAssumption DEF Init, ReaderTypes, ReaderPlaces
    <2> QED
      BY <2>1, <2>2
  <1>2. TInv /\ ReaderTypes /\ ReaderFlags /\ [Next]_vars => (ReaderTypes /\ ReaderFlags)'
    <2> SUFFICES ASSUME TInv, ReaderTypes, ReaderFlags, [Next]_vars PROVE ReaderTypes' /\ ReaderFlags'
      OBVIOUS
    <2>1. CASE Inside \/ Calls \/ Command
      BY <2>1, ReaderKeepsTypes, ReaderKeepsFlags
    <2>2. ASSUME UNCHANGED <<handle, pc, call, aborting>> PROVE ReaderTypes' /\ ReaderFlags'
      <3>1. ReaderTypes'
        BY <2>2 DEF ReaderTypes, handle, call
      <3>2. ReaderFlags'
        BY <2>2, Zenon DEF ReaderFlags, handle
      <3> QED
        BY <3>1, <3>2
    <2>3. ASSUME NEW p \in Paths, Writer(p) PROVE UNCHANGED <<handle, pc, call, aborting>>
      BY <2>3 DEF Writer, CreateFile, growfile_announce, WriteChunk, growfile_progress, EndDownload
    <2> QED
      BY <2>1, <2>2, <2>3 DEF Next, vars
  <1>3. TInv /\ ReaderTypes /\ ReaderFlags => TypeOK
    BY DEF TInv, TableTypes, ReaderTypes, ReaderFlags, TypeOK
  <1> QED
    BY <1>1, <1>2, <1>3, TableHolds, PTL DEF Spec

=============================================================================
