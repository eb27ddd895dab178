----------------------------- MODULE GrowFile ------------------------------
(***************************************************************************)
(* Reading a file while it is being downloaded: decode/growfile.c, a table *)
(* of the files being written, its writers (the download threads of the    *)
(* caches) and one reader (a decoder on the playback thread).              *)
(*                                                                         *)
(* One action is one hold of the table's lock, or one access to the file   *)
(* between two holds.  Bytes are counted in blocks.  A wait is a sequence  *)
(* of slices; time is not modelled, so that any slice may be the last.     *)
(***************************************************************************)
EXTENDS Integers, FiniteSets, FiniteSetsExt

CONSTANTS
    Paths,          \* the files that can be downloaded
    NoPath,
    GROWFILE_MAX,   \* slots in the table
    Size,           \* blocks in a whole file
    MaxBytes        \* the most blocks one read asks for

ASSUME PathsAssumption == NoPath \notin Paths
ASSUME SlotsAssumption == GROWFILE_MAX \in Nat
ASSUME SizeAssumption == Size \in Nat /\ MaxBytes \in Nat

Slots == 1..GROWFILE_MAX
NoSlot == 0

VARIABLES
    slots,      \* the table: path, bytes done, and whether in use
    disk,       \* blocks of each file on the card
    writer,     \* each file's download: see WriterPlaces
    whole,      \* the files whose download has ended well
    \* The reader, growfile_t and the locals of growfile_read and growfile_seek.
    path, pos, starved,
    at_eof,     \* stdio's end-of-file mark: reads give nothing until it is cleared
    pc,
    goal,       \* where the call in progress wants to get: the end of the read, or the seek
    slot,       \* the slot it waits on
    aborting    \* what reader_abort_cb would answer

table == <<slots>>
files == <<disk, writer, whole>>
handle == <<path, pos, starved, at_eof>>
call == <<goal, slot>>
vars == <<table, files, handle, pc, call, aborting>>

WriterPlaces == {"none", "created", "writing", "written"}
ReaderPlaces == {"closed", "ready", "short", "again", "wait_read", "refill", "wait_seek"}

Init ==
    /\ slots = [i \in Slots |-> [path |-> NoPath, done |-> 0, active |-> FALSE]]
    /\ disk = [p \in Paths |-> 0] /\ writer = [p \in Paths |-> "none"] /\ whole = {}
    /\ path = NoPath /\ pos = 0 /\ starved = FALSE /\ at_eof = FALSE
    /\ pc = "closed" /\ goal = 0 /\ slot = NoSlot
    /\ aborting = FALSE

SlotsOf(p) == {i \in Slots : slots[i].active /\ slots[i].path = p}

\* The first slot that satisfies the loop's condition, or NoSlot (NULL).
FirstOf(S) == IF S = {} THEN NoSlot ELSE Min(S)

find_locked(p) == FirstOf(SlotsOf(p))
growfile_is_growing(p) == find_locked(p) /= NoSlot

-----------------------------------------------------------------------------
(***************************************************************************)
(* The writer: a download, as qobuzcache.c, tidalcache.c and               *)
(* podcastcache.c run it.                                                  *)
(***************************************************************************)

\* A file that is whole, or still growing, is played and not fetched again;
\* opening for writing truncates what an earlier download left.
CreateFile(p) ==
    /\ writer[p] = "none" /\ p \notin whole /\ ~growfile_is_growing(p)
    /\ writer' = [writer EXCEPT ![p] = "created"]
    /\ disk' = [disk EXCEPT ![p] = 0]
    /\ UNCHANGED <<table, whole, handle, pc, call, aborting>>

free_slot_first == FirstOf(Slots)   \* Faulty variant: a slot in use is taken.
free_slot == FirstOf({i \in Slots : ~slots[i].active})

\* Faulty variant: the count of the download that had the slot is kept.
announced_keepingDone(i, p) == [slots EXCEPT ![i].path = p, ![i].active = TRUE]
announced(i, p) == [slots EXCEPT ![i] = [path |-> p, done |-> 0, active |-> TRUE]]

\* With no slot free the file grows unseen.
growfile_announce(p) ==
    /\ writer[p] = "created"
    /\ LET i == IF growfile_is_growing(p) THEN find_locked(p) ELSE free_slot IN
          slots' = IF i = NoSlot THEN slots ELSE announced(i, p)
    /\ writer' = [writer EXCEPT ![p] = "writing"]
    /\ UNCHANGED <<disk, whole, handle, pc, call, aborting>>

\* fwrite and fflush: the blocks are on the card before they are announced.
WriteChunk(p) ==
    /\ writer[p] = "writing" /\ disk[p] < Size
    /\ disk' = [disk EXCEPT ![p] = @ + 1]
    /\ writer' = [writer EXCEPT ![p] = "written"]
    /\ UNCHANGED <<table, whole, handle, pc, call, aborting>>

growfile_progress(p) ==
    /\ writer[p] = "written"
    /\ slots' = [i \in Slots |-> IF i = find_locked(p) THEN [slots[i] EXCEPT !.done = disk[p]] ELSE slots[i]]
    /\ writer' = [writer EXCEPT ![p] = "writing"]
    /\ UNCHANGED <<disk, whole, handle, pc, call, aborting>>

growfile_finish(p, ok) ==
    /\ slots' = [i \in Slots |-> IF i = find_locked(p) THEN [slots[i] EXCEPT !.active = FALSE] ELSE slots[i]]

\* download_end(): all of it arrived, or it died or was abandoned on the way.
EndDownload(p, ok) ==
    /\ writer[p] = "writing" /\ (ok => disk[p] = Size)
    /\ growfile_finish(p, ok)
    /\ writer' = [writer EXCEPT ![p] = "none"]
    /\ whole' = IF ok THEN whole \cup {p} ELSE whole
    /\ UNCHANGED <<disk, handle, pc, call, aborting>>

Writer(p) ==
    \/ CreateFile(p) \/ growfile_announce(p) \/ WriteChunk(p) \/ growfile_progress(p)
    \/ \E ok \in BOOLEAN : EndDownload(p, ok)

-----------------------------------------------------------------------------
(***************************************************************************)
(* The reader.                                                             *)
(***************************************************************************)

\* decoder_open() reads through the table only a file that is growing.
growfile_open(p) ==
    /\ pc = "closed" /\ growfile_is_growing(p)
    /\ path' = p /\ pos' = 0 /\ starved' = FALSE /\ at_eof' = FALSE
    /\ pc' = "ready"
    /\ UNCHANGED <<table, files, call, aborting>>

growfile_close ==
    /\ pc = "ready"
    /\ pc' = "closed" /\ path' = NoPath /\ pos' = 0 /\ starved' = FALSE /\ at_eof' = FALSE
    /\ UNCHANGED <<table, files, call, aborting>>

\* fread(): what lies between pos and the end of the file, up to n blocks.
OnCard == IF disk[path] > pos THEN disk[path] - pos ELSE 0
fread_unbounded(n) == n   \* Faulty variant: stdio gives what was asked for.
fread(n) == Min({n, OnCard})

Return == pc' = "ready" /\ goal' = 0 /\ slot' = NoSlot

\* growfile_read(): a read that is filled at once needs nothing of the table.
growfile_read(n) ==
    /\ pc = "ready"
    /\ LET got == IF at_eof THEN 0 ELSE fread(n) IN
          /\ pos' = pos + got
          /\ at_eof' = (at_eof \/ got < n)
          /\ IF got = n THEN UNCHANGED <<pc, goal>> ELSE pc' = "short" /\ goal' = pos + n
    /\ UNCHANGED <<table, files, path, starved, slot, aborting>>

NoteStarved ==
    /\ pc = "short"
    /\ starved' = (starved \/ growfile_is_growing(path))
    /\ pc' = "again"
    /\ UNCHANGED <<table, files, path, pos, at_eof, call, aborting>>

AbortRead ==
    /\ pc = "again" /\ aborting
    /\ Return
    /\ UNCHANGED <<table, files, handle, aborting>>

NobodyWrites == -1
found == find_locked(path)
done == slots[found].done

\* What wait_for_bytes() came back with: no more than there was ends the read.
ReadAnswer(available) ==
    IF available > pos THEN pc' = "refill" /\ slot' = NoSlot /\ UNCHANGED goal ELSE Return

\* A look at the table, at the start of a wait and after each slice of it.
ReadLooks ==
    /\ IF found = NoSlot THEN ReadAnswer(NobodyWrites)
       ELSE IF done >= goal \/ aborting THEN ReadAnswer(done)
       ELSE pc' = "wait_read" /\ slot' = found /\ UNCHANGED goal
    /\ UNCHANGED <<table, files, handle, aborting>>

StartWait == pc = "again" /\ ~aborting /\ ReadLooks
WaitWakes == pc = "wait_read" /\ ReadLooks

TimesOut_never == FALSE   \* Faulty variant: the wait has no deadline.

\* The last slice is over: what the slot says is taken without looking whether
\* it still is this file's.
TimesOut == pc \in {"wait_read", "wait_seek"}

WaitTimesOut ==
    /\ TimesOut /\ pc = "wait_read"
    /\ ReadAnswer(slots[slot].done)
    /\ UNCHANGED <<table, files, handle, aborting>>

\* clearerr(), fseek(), fread(): nothing more means the read is over.
Refill ==
    /\ pc = "refill"
    /\ LET more == fread(goal - pos) IN
          /\ pos' = pos + more
          /\ at_eof' = (pos' < goal)
          /\ IF more = 0 \/ pos' = goal THEN Return ELSE pc' = "again" /\ UNCHANGED call
    /\ UNCHANGED <<table, files, path, starved, aborting>>

SeekAnswer(available, t) ==
    /\ Return
    /\ IF available /= NobodyWrites /\ available < t
       THEN UNCHANGED <<pos, at_eof>>
       ELSE pos' = t /\ at_eof' = FALSE

\* growfile_seek(): in a file that does not grow every place is taken as
\* reached; in one that does, the wait is shorter than a read's.
SeekLooks(t) ==
    /\ IF found = NoSlot THEN SeekAnswer(NobodyWrites, t)
       ELSE IF done >= t \/ aborting THEN SeekAnswer(done, t)
       ELSE pc' = "wait_seek" /\ slot' = found /\ goal' = t /\ UNCHANGED <<pos, at_eof>>
    /\ UNCHANGED <<table, files, path, aborting>>

growfile_seek(t) == pc = "ready" /\ SeekLooks(t) /\ starved' = FALSE
SeekWakes == pc = "wait_seek" /\ SeekLooks(goal) /\ UNCHANGED starved

SeekTimesOut ==
    /\ TimesOut /\ pc = "wait_seek"
    /\ SeekAnswer(slots[slot].done, goal)
    /\ UNCHANGED <<table, files, path, starved, aborting>>

\* Playback asks whether it has caught up with the download, and forgets it.
growfile_take_starved ==
    /\ pc = "ready" /\ starved
    /\ starved' = FALSE
    /\ UNCHANGED <<table, files, path, pos, at_eof, pc, call, aborting>>

\* A stop, a pause, a seek or another track: the answer changes at any time.
Command ==
    /\ aborting' = ~aborting
    /\ UNCHANGED <<table, files, handle, pc, call>>

\* What the reader does once it is called; being called is up to playback.
Inside ==
    \/ NoteStarved \/ AbortRead \/ StartWait \/ WaitTimesOut \/ WaitWakes \/ Refill
    \/ SeekTimesOut \/ SeekWakes

Calls ==
    \/ \E p \in Paths : growfile_open(p)
    \/ growfile_close \/ growfile_take_starved
    \/ \E n \in 1..MaxBytes : growfile_read(n)
    \/ \E t \in 0..Size : growfile_seek(t)

Next == (\E p \in Paths : Writer(p)) \/ Inside \/ Calls \/ Command

Spec == Init /\ [][Next]_vars

\* The reader runs, and its slices are counted whatever wakes it meanwhile;
\* downloads and commands are owed nothing.
FairSpec == Spec /\ WF_vars(Inside) /\ WF_vars(WaitTimesOut \/ SeekTimesOut)

-----------------------------------------------------------------------------
(***************************************************************************)
(* What must hold of it.                                                   *)
(***************************************************************************)

\* Every variable keeps its type.
TypeOK ==
    /\ slots \in [Slots -> [path : Paths \cup {NoPath}, done : 0..Size, active : BOOLEAN]]
    /\ disk \in [Paths -> 0..Size] /\ writer \in [Paths -> WriterPlaces] /\ whole \subseteq Paths
    /\ path \in Paths \cup {NoPath} /\ pos \in 0..Size /\ starved \in BOOLEAN /\ at_eof \in BOOLEAN
    /\ pc \in ReaderPlaces /\ goal \in 0..(Size + MaxBytes) /\ slot \in Slots \cup {NoSlot} /\ aborting \in BOOLEAN

\* A slot in use belongs to a download that is running: one that ended, well
\* or not, gives its slot back, so that the table never fills with the dead
\* and no reader waits for them.
SlotsFollowWriters ==
    \A i \in Slots : slots[i].active => writer[slots[i].path] \in {"writing", "written"}

\* A reader is never told of blocks that are not on the card, whatever
\* download had the slot or the file before.
ProgressIsOnDisk == \A i \in Slots : slots[i].active => slots[i].done <= disk[slots[i].path]

\* The table is true of the downloads and of the card: its readers neither wait
\* for the dead nor are told of blocks that are not there.
TableIsTrue == SlotsFollowWriters /\ ProgressIsOnDisk

\* A download that is followed stays followed until it ends: no other takes
\* its slot, and its readers go on waiting for it.
DownloadsKeepTheirSlot ==
    [][\A p \in Paths : growfile_is_growing(p) /\ writer'[p] /= "none" => growfile_is_growing(p)']_vars

\* A read or a seek comes back, even from a download that has stopped moving.
ReadReturns == pc \notin {"closed", "ready"} ~> pc = "ready"
=============================================================================
