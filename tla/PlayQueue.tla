----------------------------- MODULE PlayQueue -----------------------------
(***************************************************************************)
(* The queue: playback/playlist.c, and the part of                         *)
(* playback/device_state.c that walks it.  All of it runs on the interface *)
(* thread, so that an action is one call; only the library under it        *)
(* changes by itself.                                                      *)
(*                                                                         *)
(* The code counts from zero; positions and entries here count from one.   *)
(* What a call may choose (a random deal, a path that is no longer in the  *)
(* cache) makes the operators below return the set of queues it may leave. *)
(***************************************************************************)
EXTENDS Integers, FiniteSets, Sequences, SequencesExt

CONSTANTS
  Tracks,          \* the paths that may be in a queue
  NoTrack,         \* nothing loaded yet: an empty path
  Lists,           \* what the query of a library list may answer, in order
  Given,           \* the lists of paths that a page may hand over
  Addable,         \* bound: the tracks that are added to a queue
  Folders,         \* the folders of the card, each as its tracks in order
  NextFolder,      \* playlist_next_folder(); <<>> where there is none
  PrevFolder,      \* playlist_prev_folder(); <<>> where there is none
  LOCATE_RADIUS,   \* how far playlist_locate() looks in a library list
  MaxEntries       \* bound: how long a queue is made by adding to it

Modes == {"NORMAL", "REPEAT_ALL", "REPEAT_ONE", "SHUFFLE", "SHUFFLE_REPEAT"}

\* A list of a library has each file once.
Distinct(s) == \A i, j \in DOMAIN s : s[i] = s[j] => i = j

ASSUME TracksAssumption == NoTrack \notin Tracks
ASSUME ListsAssumption ==
  /\ Lists \subseteq Seq(Tracks)
  /\ \A l \in Lists : Distinct(l)
  /\ Given \subseteq Seq(Tracks) \ {<<>>} /\ Addable \subseteq Tracks
ASSUME FoldersAssumption ==
  /\ Folders \subseteq Seq(Tracks) \ {<<>>}
  /\ \A t \in Tracks : \E f \in Folders : t \in ToSet(f)
  /\ \A f, g \in Folders : ToSet(f) \cap ToSet(g) # {} => f = g
  /\ NextFolder \in [Folders -> Folders \cup {<<>>}]
  /\ PrevFolder \in [Folders -> Folders \cup {<<>>}]
ASSUME BoundsAssumption == LOCATE_RADIUS \in Nat /\ MaxEntries \in Nat

VARIABLES
  queue,    \* the statics of playlist.c, as a record
  mode,     \* the playback mode
  library,  \* what the query of the library list answers now
  loaded,   \* current_metadata_file of device_state.c
  saved,    \* the queue as the card has it
  recalled  \* the track that the card has as the last one played, with its place

vars == <<queue, mode, library, loaded, saved, recalled>>

-----------------------------------------------------------------------------
(* The queue.  rows are the entries the handle of a library list serves,   *)
(* added those held as paths behind them; order is the playing order over  *)
(* both, pos the place in it.  revised: `revision` is not the one of the    *)
(* last queue written down.                                                *)

NoChain == [from |-> 0, slot |-> 0]

\* The queue cleared, and then given these entries; it has no order yet.
Fresh(rows, added, custom, ordered) ==
  [rows |-> rows, stale |-> FALSE, added |-> added, order |-> <<>>, pos |-> 1,
   custom |-> custom, ordered |-> ordered, chain |-> NoChain, revised |-> TRUE]
playlist_clear == Fresh(<<>>, <<>>, FALSE, FALSE)

Paths(q) == q.rows \o q.added
Count(q) == Len(q.rows) + Len(q.added)
View(q) == LET paths == Paths(q) IN [i \in 1..Len(paths) |-> paths[q.order[i]]]
Current(q) == Paths(q)[q.order[q.pos]]
AtEnd(q) == q.pos >= Count(q)

Shuffled(m) == m \in {"SHUFFLE", "SHUFFLE_REPEAT"}
shuffling(q) == Shuffled(mode) /\ ~q.ordered

\* Every entry once.
Orders(n) == {o \in [1..n -> 1..n] : \A e \in 1..n : \E i \in 1..n : o[i] = e}

\* How many of S come up to i; and the members of S, the least first.
Rank(S, i) == Cardinality({j \in S : j <= i})
InOrder(S) == [k \in 1..Cardinality(S) |-> CHOOSE i \in S : Rank(S, i) = k]

\* What is left of a sequence at these places.
At(s, places) == [k \in 1..Cardinality(places) |-> s[InOrder(places)[k]]]

Reordered(q, order, pos) == [q EXCEPT !.order = order, !.pos = pos, !.revised = TRUE]

order_identity(q, start) ==
  Reordered(q, [i \in 1..Count(q) |-> i], IF start <= Count(q) THEN start ELSE 1)

order_shuffle_from(q, start) ==
  {Reordered(q, o, 1) : o \in {p \in Orders(Count(q)) : p # <<>> => p[1] = start}}

order_shuffle_round_drawn(q) == {Reordered(q, o, 1) : o \in [1..Count(q) -> 1..Count(q)]}
order_shuffle_round(q) == {Reordered(q, o, 1) : o \in Orders(Count(q))}

order_shuffle_upcoming(q) ==
  IF q.pos + 1 >= Count(q) THEN {q}
  ELSE {Reordered(q, o, q.pos) :
          o \in {p \in Orders(Count(q)) : \A i \in 1..q.pos : p[i] = q.order[i]}}

\* How every load ends: at the entry picked, or with a deal that begins there.
Started(q, start) ==
  IF shuffling(q) THEN order_shuffle_from(q, start) ELSE {order_identity(q, start)}

-----------------------------------------------------------------------------
(* Loading                                                                 *)

InRange(q, start) == IF start \in 1..Count(q) THEN start ELSE 1

playlist_load_folder(folder, start) ==
  Started(Fresh(<<>>, folder, FALSE, FALSE), start)

playlist_load_paths(list, start) ==
  LET q == Fresh(<<>>, list, TRUE, FALSE)
  IN  Started(q, InRange(q, start))

playlist_load_paths_ordered(list, start) ==
  LET q == Fresh(<<>>, list, TRUE, TRUE)
  IN  order_identity(q, InRange(q, start))

playlist_load_index(rows, start) ==
  LET q == Fresh(rows, <<>>, TRUE, FALSE)
  IN  Started(q, InRange(q, start))

FolderOf(t) == CHOOSE f \in Folders : t \in ToSet(f)
IndexIn(s, t) == CHOOSE i \in DOMAIN s : s[i] = t /\ \A j \in DOMAIN s : s[j] = t => i <= j

\* The folder of a file, at that file.
FolderQueue(t) == playlist_load_folder(FolderOf(t), IndexIn(FolderOf(t), t))

\* A library list whose table was rewritten is read again.  The track playing
\* is looked for by its path if the path can still be read (the handle answers
\* nothing any more; the last few paths read are kept), by its number if not.
refresh_stale_source(q) ==
  IF ~q.stale THEN {q}
  ELSE IF library = <<>> THEN {playlist_clear}
  ELSE LET fresh == [q EXCEPT !.rows = library, !.stale = FALSE]
           entry == q.order[q.pos]
           byPath == IF Current(q) \in ToSet(library) THEN IndexIn(library, Current(q)) ELSE 1
           byNumber == IF entry <= Len(library) THEN entry ELSE 1
       IN  Started(fresh, byPath)
             \cup (IF entry <= Len(q.rows) THEN Started(fresh, byNumber) ELSE {})

\* A queue of paths is searched from its beginning, a library list outwards
\* from where playback is, and only so far.
playlist_locate(q, t) ==
  LET at == {i \in 1..Count(q) : View(q)[i] = t}
      Off(i) == IF i >= q.pos THEN i - q.pos ELSE q.pos - i
      near == {i \in at : Off(i) <= LOCATE_RADIUS}
      nearest == {i \in near : \A j \in near : Off(i) < Off(j) \/ (Off(i) = Off(j) /\ i >= j)}
      found == IF q.rows = <<>> THEN {i \in at : \A j \in at : i <= j} ELSE nearest
  IN  IF found = {} THEN q ELSE [q EXCEPT !.pos = CHOOSE i \in found : TRUE]

-----------------------------------------------------------------------------
(* The queue on the card.  A library list is its query, the number of the  *)
(* entry playing, and what was added with the slots; every other queue is  *)
(* its paths, which are written again only when the revision has moved.    *)

Unsaved == [form |-> "none"]

Additions(q) ==
  At([i \in 1..Count(q) |-> [path |-> View(q)[i], slot |-> i]], {i \in 1..Count(q) : q.order[i] > Len(q.rows)})

library_queue_save_query(q) == [form |-> "query", entry |-> q.order[q.pos], extra |-> Additions(q)]
library_queue_save(q) == [form |-> "list", paths |-> View(q), pos |-> q.pos, custom |-> q.custom]

\* Only a queue of paths has a row for the position to be put in.
library_queue_save_index(q) == IF saved.form = "list" THEN [saved EXCEPT !.pos = q.pos] ELSE saved

queue_persist(q) ==
  IF Count(q) = 0 THEN queue' = q /\ UNCHANGED saved
  ELSE /\ queue' = [q EXCEPT !.revised = FALSE]
       /\ saved' = IF q.rows # <<>> THEN library_queue_save_query(q)
                   ELSE IF q.revised THEN library_queue_save(q)
                   ELSE library_queue_save_index(q)

-----------------------------------------------------------------------------
(* Edits, each by a page that writes the queue down when it has changed.    *)

\* An addition to a queue that has nothing simply becomes the queue.
FirstEntry(q, t) ==
  [order_identity([q EXCEPT !.added = <<t>>], 1) EXCEPT !.custom = TRUE, !.chain = NoChain]

\* The entry just pushed is put into the playing order at `slot`.
Pushed_unrevised(q, t, slot) ==
  [q EXCEPT !.added = Append(@, t), !.order = InsertAt(@, slot, Count(q) + 1), !.custom = TRUE]
Pushed(q, t, slot) ==
  [q EXCEPT !.added = Append(@, t), !.order = InsertAt(@, slot, Count(q) + 1),
            !.custom = TRUE, !.revised = TRUE]

\* Where "add to queue" goes: behind the one added before, while playback is
\* still where the chain began; otherwise behind the track playing.
ChainSlot(q) ==
  IF q.chain.from = q.pos /\ q.chain.slot > q.pos /\ q.chain.slot <= Count(q) + 1
  THEN q.chain.slot + 1 ELSE q.pos + 1

Least(a, b) == IF a < b THEN a ELSE b

InsertedNext(q, t) ==
  IF Count(q) = 0 THEN FirstEntry(q, t)
  ELSE LET slot == Least(ChainSlot(q), Count(q) + 1)
       IN  [Pushed(q, t, slot) EXCEPT !.chain = [from |-> q.pos, slot |-> slot]]

InsertedAt(q, t, wanted) ==
  IF Count(q) = 0 THEN FirstEntry(q, t)
  ELSE LET slot == Least(wanted, Count(q) + 1)
       IN  [Pushed(q, t, slot) EXCEPT !.chain = NoChain, !.pos = IF slot <= q.pos THEN @ + 1 ELSE @]

\* The queue as paths, without the entries of `gone`, in the order it was in
\* and on the track it was on.
rebuild_as_paths(q, gone) ==
  LET kept == (1..Count(q)) \ gone
      order == At(q.order, {i \in 1..Count(q) : q.order[i] \in kept})
  IN  Reordered(Fresh(<<>>, At(Paths(q), kept), TRUE, q.ordered),
                [i \in DOMAIN order |-> Rank(kept, order[i])],
                IndexIn(order, q.order[q.pos]))

\* Where a position ends up when the entry at `from` is moved to `to`.
MovedTo_offByOne(i, from, to) ==
  IF i = from THEN to
  ELSE IF from < i /\ i < to THEN i - 1
  ELSE IF to <= i /\ i < from THEN i + 1
  ELSE i
MovedTo(i, from, to) ==
  IF i = from THEN to
  ELSE IF from < i /\ i <= to THEN i - 1
  ELSE IF to <= i /\ i < from THEN i + 1
  ELSE i

Moved(q, from, to) ==
  [q EXCEPT !.order = InsertAt(RemoveAt(@, from), to, @[from]),
            !.pos = MovedTo(@, from, to),
            !.chain = NoChain,
            !.custom = TRUE,
            !.revised = TRUE]

playlist_insert_next(t) ==
  /\ Count(queue) < MaxEntries
  /\ queue_persist(InsertedNext(queue, t))
  /\ UNCHANGED <<mode, library, loaded, recalled>>

\* A slot past the last appends, whatever the mode.
playlist_insert_at(t, slot) ==
  /\ Count(queue) < MaxEntries
  /\ queue_persist(InsertedAt(queue, t, slot))
  /\ UNCHANGED <<mode, library, loaded, recalled>>

\* The track playing stays.
Removed(q, slots) ==
  LET gone == {q.order[i] : i \in (slots \cap 1..Count(q)) \ {q.pos}}
  IN  IF gone = {} THEN q ELSE rebuild_as_paths(q, gone)

\* The positions are the caller's, counted before the list is read again.
playlist_remove(slots) ==
  /\ Count(queue) > 0
  /\ \E q \in refresh_stale_source(queue) :
       LET r == Removed(q, slots)
       IN  IF r = q THEN queue' = q /\ UNCHANGED saved ELSE queue_persist(r)
  /\ UNCHANGED <<mode, library, loaded, recalled>>

MovedEntry(q, from, to) == Moved(IF q.rows = <<>> THEN q ELSE rebuild_as_paths(q, {}), from, to)

\* Turned down if the list had to be read again.
playlist_move(from, to) ==
  /\ from # to /\ from <= Count(queue) /\ to <= Count(queue)
  /\ IF queue.stale THEN \E q \in refresh_stale_source(queue) : queue_persist(q)
     ELSE queue_persist(MovedEntry(queue, from, to))
  /\ UNCHANGED <<mode, library, loaded, recalled>>

apply_mode_change(old, new) ==
  IF Count(queue) = 0 \/ queue.ordered THEN {queue}
  ELSE IF Shuffled(new) /\ ~Shuffled(old) THEN order_shuffle_upcoming(queue)
  ELSE IF Shuffled(old) /\ ~Shuffled(new) THEN {order_identity(queue, queue.order[queue.pos])}
  ELSE {queue}

playlist_set_mode(new) ==
  /\ new # mode
  /\ mode' = new
  /\ queue' \in apply_mode_change(mode, new)
  /\ UNCHANGED <<library, loaded, saved, recalled>>

-----------------------------------------------------------------------------
(* Walking                                                                 *)

\* The queue put back on the track that is loaded, before it is walked.
Resynced_never(q) == {q}
Resynced(q) ==
  IF Count(q) > 0 /\ Current(q) = loaded THEN {q}
  ELSE IF q.custom THEN {playlist_locate(q, loaded)}
  ELSE FolderQueue(loaded)

playlist_resync_to_current(q) ==
  IF loaded = NoTrack THEN {q} ELSE UNION {Resynced(r) : r \in refresh_stale_source(q)}

Forward(q) == [q EXCEPT !.pos = (@ % Count(q)) + 1]
Back(q) == [q EXCEPT !.pos = IF @ = 1 THEN Count(q) ELSE @ - 1]

\* The folder beside the one played from, if the queue is a folder.
Beside(q, folder) == IF q.custom \/ loaded = NoTrack THEN <<>> ELSE folder[FolderOf(loaded)]
FolderBeside(folder) == playlist_load_folder(folder, 1)
OnLast(qs) == {[q EXCEPT !.pos = Count(q)] : q \in qs}

\* What a track running out does to the queue; nothing where it stops.
AdvancedAuto(q) ==
  IF Count(q) = 0 THEN {}
  ELSE IF q.ordered \/ mode \in {"NORMAL", "SHUFFLE"} THEN IF AtEnd(q) THEN {} ELSE {Forward(q)}
  ELSE IF mode = "REPEAT_ONE" THEN {q}
  ELSE IF mode = "REPEAT_ALL" \/ ~AtEnd(q) THEN {Forward(q)}
  ELSE order_shuffle_round(q)

\* What the next key does to it.
AdvancedNext(q) ==
  IF Count(q) = 0 THEN {}
  ELSE IF shuffling(q) /\ AtEnd(q) THEN order_shuffle_round(q)
  ELSE {Forward(q)}

\* load_and_play() of the entry that the queue is on.
LoadAndPlay(qs) ==
  /\ \E q \in qs : \E r \in refresh_stale_source(q) :
       /\ queue_persist(r)
       /\ IF Count(r) > 0 THEN loaded' = Current(r) ELSE UNCHANGED loaded
  /\ UNCHANGED <<mode, library, recalled>>

\* The queue was only put back on the track loaded.
Stops(q) ==
  /\ queue' = q
  /\ UNCHANGED <<mode, library, loaded, saved, recalled>>

Onward(q) ==
  IF AtEnd(q) /\ Beside(q, NextFolder) # <<>> THEN FolderBeside(Beside(q, NextFolder)) ELSE AdvancedNext(q)

Backward(q) ==
  IF q.pos = 1 /\ Beside(q, PrevFolder) # <<>> THEN OnLast(FolderBeside(Beside(q, PrevFolder)))
  ELSE IF Count(q) = 0 THEN {} ELSE {Back(q)}

AfterTheEnd(q) ==
  IF AtEnd(q) /\ mode # "REPEAT_ONE" /\ Beside(q, NextFolder) # <<>>
  THEN FolderBeside(Beside(q, NextFolder)) ELSE AdvancedAuto(q)

Goes(q, qs) == IF qs = {} THEN Stops(q) ELSE LoadAndPlay(qs)

device_state_next == \E q \in playlist_resync_to_current(queue) : Goes(q, Onward(q))
device_state_prev == \E q \in playlist_resync_to_current(queue) : Goes(q, Backward(q))
device_state_advance_auto ==
  loaded # NoTrack /\ \E q \in playlist_resync_to_current(queue) : Goes(q, AfterTheEnd(q))

device_state_play_queue_index(i) ==
  /\ i <= Count(queue)
  /\ LoadAndPlay({[queue EXCEPT !.pos = i]})

device_state_play_file(t) == LoadAndPlay(FolderQueue(t))

device_state_play_list(list, start) == LoadAndPlay(playlist_load_paths(list, start))
device_state_play_list_ordered(list, start) ==
  LoadAndPlay({playlist_load_paths_ordered(list, start)})
device_state_play_index(start) ==
  /\ library # <<>>
  /\ LoadAndPlay(playlist_load_index(library, start))

\* A page asks for a path, or for the one playing.
playlist_path_at ==
  /\ queue.stale
  /\ queue' \in refresh_stale_source(queue)
  /\ UNCHANGED <<mode, library, loaded, saved, recalled>>

\* What the track after this one will be, as far as it can be told.
playlist_peek_auto(q) ==
  IF Count(q) = 0 THEN NoTrack
  ELSE IF q.ordered THEN IF AtEnd(q) THEN NoTrack ELSE Current(Forward(q))
  ELSE IF mode = "REPEAT_ONE" THEN Current(q)
  ELSE IF mode = "REPEAT_ALL" \/ ~AtEnd(q) THEN Current(Forward(q))
  ELSE NoTrack

-----------------------------------------------------------------------------
(* The library, and a restart                                              *)

\* A scan, a change of card or a favourite rewrites the table under the list.
Rescan(l) ==
  /\ queue.rows # <<>> => Len(l) + Len(queue.added) <= MaxEntries
  /\ library' = l
  /\ queue' = [queue EXCEPT !.stale = queue.rows # <<>>]
  /\ UNCHANGED <<mode, loaded, saved, recalled>>

\* The interface's poll writes down what is playing and how far it is.
device_state_remember_note ==
  /\ loaded \notin {NoTrack, recalled}
  /\ recalled' = loaded
  /\ UNCHANGED <<queue, mode, library, loaded, saved>>

\* What was added goes back slot by slot, the first slot first.
WithExtra(q, extra) ==
  LET with[n \in 0..Len(extra)] ==
        IF n = 0 THEN q ELSE InsertedAt(with[n - 1], extra[n].path, extra[n].slot)
  IN  with[Len(extra)]

device_state_restore_file(t) == FolderQueue(t)

device_state_restore_index(t) ==
  {playlist_locate(WithExtra(q, saved.extra), t) : q \in playlist_load_index(library, saved.entry)}

device_state_restore_list(t) ==
  {playlist_locate([q EXCEPT !.custom = saved.custom], t) : q \in playlist_load_paths(saved.paths, saved.pos)}

Saved(q) == [q EXCEPT !.revised = FALSE]

\* restore_saved_track() of main.c: the queues that what is on the card gives.
Restored(t) ==
  IF saved.form = "list" THEN {Saved(q) : q \in device_state_restore_list(t)}
  ELSE IF saved.form = "query" /\ library # <<>> THEN {Saved(q) : q \in device_state_restore_index(t)}
  ELSE device_state_restore_file(t)

\* The power goes, and comes back.
Reboot ==
  /\ IF recalled = NoTrack THEN queue' = playlist_clear /\ loaded' = NoTrack /\ UNCHANGED saved
     ELSE \E q \in Restored(recalled) :
            /\ IF q.revised THEN queue_persist(q) ELSE queue' = q /\ UNCHANGED saved
            /\ loaded' = Current(q)
  /\ UNCHANGED <<mode, library, recalled>>

-----------------------------------------------------------------------------

Init ==
  /\ queue = playlist_clear
  /\ mode \in Modes
  /\ library \in Lists
  /\ loaded = NoTrack
  /\ saved = Unsaved
  /\ recalled = NoTrack

Edit ==
  \/ \E t \in Addable : playlist_insert_next(t)
  \/ \E t \in Addable : \E i \in 1..(Count(queue) + 1) : playlist_insert_at(t, i)
  \/ \E slots \in SUBSET (1..Count(queue)) : playlist_remove(slots)
  \/ \E i, j \in 1..Count(queue) : playlist_move(i, j)
  \/ \E m \in Modes : playlist_set_mode(m)

Walk ==
  \/ device_state_next
  \/ device_state_prev
  \/ device_state_advance_auto
  \/ \E i \in 1..Count(queue) : device_state_play_queue_index(i)

Load ==
  \/ \E t \in Tracks : device_state_play_file(t)
  \/ \E l \in Given : \E i \in DOMAIN l :
       device_state_play_list(l, i) \/ device_state_play_list_ordered(l, i)
  \/ \E i \in DOMAIN library : device_state_play_index(i)

Next ==
  \/ Edit
  \/ Walk
  \/ Load
  \/ playlist_path_at
  \/ \E l \in Lists : Rescan(l)
  \/ device_state_remember_note
  \/ Reboot

Spec == Init /\ [][Next]_vars

-----------------------------------------------------------------------------
(* Properties                                                              *)

\* Whatever was added, taken out, moved, dealt or read again, the playing
\* order has every entry of the queue once and playback is on one of them; an
\* order of its own is never dealt, and a list of the library is a list.
TypeOK ==
  /\ queue.rows \in Seq(Tracks) /\ queue.added \in Seq(Tracks)
  /\ queue.order \in Orders(Count(queue))
  /\ queue.pos \in 1..Count(queue) \/ (Count(queue) = 0 /\ queue.pos = 1)
  /\ queue.ordered \/ queue.rows # <<>> => queue.custom
  /\ queue.stale => queue.rows # <<>>
  /\ mode \in Modes /\ library \in Lists
  /\ loaded \in Tracks \cup {NoTrack} /\ recalled \in Tracks \cup {NoTrack}

\* The entries of the queue as the page shows it, without those at `slots`.
Without(s, slots) == At(s, DOMAIN s \ slots)

\* An edit of the queue is that edit of the list the page shows, whatever form
\* the queue has underneath (playlist.c 624, 684, 870, 898): the added track is
\* put in and nothing else moves, what was chosen goes, what was dragged lands
\* where it was dropped; and playback stays on the entry it was on.
EditsAreExact ==
  Count(queue) > 0 /\ ~queue.stale =>
    LET view == View(queue)
        Slots == 1..Count(queue)
        Places == [i \in Slots |-> i]
    IN  /\ \A t \in Addable :
             LET q == InsertedNext(queue, t)
             IN  \E i \in (queue.pos + 1)..(Count(queue) + 1) :
                   View(q) = InsertAt(view, i, t) /\ q.pos = queue.pos
        /\ \A t \in Addable : \A i \in 1..(Count(queue) + 1) :
             LET q == InsertedAt(queue, t, i)
             IN  View(q) = InsertAt(view, i, t) /\ q.pos = queue.pos + (IF i <= queue.pos THEN 1 ELSE 0)
        /\ \A slots \in SUBSET Slots :
             LET q == Removed(queue, slots)
             IN  /\ View(q) = Without(view, slots \ {queue.pos})
                 /\ q.pos = queue.pos - Cardinality({i \in slots : i < queue.pos})
        /\ \A i, j \in Slots : i # j =>
             LET q == MovedEntry(queue, i, j)
             IN  /\ View(q) = InsertAt(RemoveAt(view, i), j, view[i])
                 /\ q.pos = IndexIn(InsertAt(RemoveAt(Places, i), j, i), queue.pos)

\* Where the track that is loaded can be found again.
Reach(q) ==
  {i \in 1..Count(q) : View(q)[i] = loaded /\ (q.rows = <<>> \/ i - q.pos \in (-LOCATE_RADIUS)..LOCATE_RADIUS)}

\* The next key goes on from the track that is loaded, wherever it now is in
\* the queue and whatever the queue believed (device_state.c 1384: "a next
\* from a stale index replays a track the user already heard"): never from
\* another one.  At the end of a folder it goes to the folder after it.
NextFollowsLoaded ==
  loaded # NoTrack /\ ~shuffling(queue) =>
    \A p \in refresh_stale_source(queue) : Reach(p) # {} =>
      \A q \in Resynced(p) : \A r \in Onward(q) :
        \E i \in Reach(p) :
          IF i < Count(p) THEN Current(r) = View(p)[i + 1]
          ELSE IF Beside(p, NextFolder) = <<>> THEN Current(r) = View(p)[1]
          ELSE View(r) = Beside(p, NextFolder) /\ r.pos = 1

\* What is read ahead near the end of a track is what plays when it ends
\* (device_state.c 1354, playlist.c 1255), in every mode and form of queue.
PeekIsTrue ==
  ~queue.stale /\ Count(queue) > 0 /\ Current(queue) = loaded /\ (~AtEnd(queue) \/ mode = "REPEAT_ONE") =>
    \A q \in playlist_resync_to_current(queue) : \A r \in AfterTheEnd(q) :
      playlist_peek_auto(queue) \in {NoTrack, Current(r)}

\* Where the queue goes on from, by the key and by itself.
GoesOnRightly == NextFollowsLoaded /\ PeekIsTrue

\* As long as the revision says that the queue is the one written down, what is
\* on the card gives it back, entry by entry, when the power goes
\* (device_state.c 301): no change of the queue escapes the revision, and the
\* additions go back to their slots.  A shuffle is dealt again.
SavedIsTheQueue ==
  ~queue.revised /\ ~queue.stale /\ ~Shuffled(mode) /\ recalled # NoTrack =>
    \A q \in Restored(recalled) : View(q) = View(queue) /\ q.custom = queue.custom

=============================================================================
