-------------------------- MODULE Downloads_proofs -------------------------
(***************************************************************************)
(* The inductive invariant of Downloads and its theorems, for every set of *)
(* tracks and threads, every size and, but for the last, every cleanup.    *)
(***************************************************************************)
EXTENDS Downloads, TLAPS

\* Where a thread's stream is open, its file is open, its file is announced,
\* its stream and its id are published, and its marker is still needed.
StreamPlaces == {"connected", "pruned", "marked", "created", "pump", "ending", "hidden"}
FilePlaces == {"created", "pump", "ending", "hidden"}
GrowingPlaces == {"pump", "ending", "hidden", "closed"}
WakePlaces == {"pump", "ending"}
IdPlaces == Opening \cup WakePlaces
MarkedPlaces == FilePlaces \cup {"marked", "closed", "finished"}
WrittenPlaces == FilePlaces \cup {"closed", "finished"}

\* The types, in two parts.
ThreadTypes ==
    /\ pc \in [Threads -> Places] /\ track \in [Threads -> Tracks \cup {NoTrack}]
    /\ done \in [Threads -> 0..Size] /\ ok \in [Threads -> BOOLEAN]
    /\ streams \subseteq Threads /\ linked \subseteq Threads /\ abandoned \subseteq Threads
SharedTypes ==
    /\ disk \in [Tracks -> 0..Size] /\ markers \subseteq Tracks
    /\ busy \in BOOLEAN /\ growing \subseteq Tracks
    /\ active_track_id \in Tracks \cup {NoTrack} /\ active_stream \in Threads \cup {NoStream}

\* The turn: one thread has it, and what is shared is that thread's.
OneHolder == \A x, y \in Threads : pc[x] \notin Waiting /\ pc[y] \notin Waiting => x = y
BusyShape == busy <=> \E x \in Threads : pc[x] \notin Waiting
TrackShape == \A x \in Threads : pc[x] /= "idle" => track[x] \in Tracks
StreamShape == \A x \in Threads : x \in streams <=> pc[x] \in StreamPlaces
FileShape == \A x \in linked : pc[x] \in FilePlaces /\ disk[track[x]] = done[x]
GrowingShape == \A t \in growing : \E x \in Threads : pc[x] \in GrowingPlaces /\ track[x] = t
WakeShape == active_stream /= NoStream => active_stream \in streams /\ pc[active_stream] \in WakePlaces
IdShape == active_track_id /= NoTrack => \E x \in Threads : pc[x] \in IdPlaces /\ track[x] = active_track_id

TurnInv ==
    /\ ThreadTypes /\ SharedTypes
    /\ OneHolder /\ BusyShape /\ TrackShape
    /\ StreamShape /\ FileShape /\ GrowingShape /\ WakeShape /\ IdShape

\* The card, as long as nothing is cleaned up: a file that is being written has
\* its marker and holds what was written, and only a whole one loses the marker.
LinkShape == \A x \in Threads : pc[x] \in FilePlaces => x \in linked
MarkShape == \A x \in Threads : pc[x] \in MarkedPlaces => track[x] \in markers
WrittenShape == \A x \in Threads : pc[x] \in WrittenPlaces => disk[track[x]] = done[x]
EndShape == \A x \in Threads : pc[x] \in Ending /\ ok[x] => done[x] = Size

CardInv == LinkShape /\ MarkShape /\ WrittenShape /\ EndShape /\ HasMeansWhole
-----------------------------------------------------------------------------

\* At the start nobody has the turn.
LEMMA InitTurn == Init => TurnInv
  <1> SUFFICES ASSUME Init PROVE TurnInv
    OBVIOUS
  <1> USE SizeAssumption DEF Init, Waiting, Opening, Ending, Places, StreamPlaces, FilePlaces, GrowingPlaces, WakePlaces, IdPlaces
  <1>1. ThreadTypes /\ SharedTypes
    <2>1. ok \in [Threads -> BOOLEAN] /\ busy \in BOOLEAN
      OBVIOUS
    <2>2. done \in [Threads -> 0..Size] /\ disk \in [Tracks -> 0..Size]
      OBVIOUS
    <2> QED
      BY <2>1, <2>2 DEF ThreadTypes, SharedTypes
  <1>2. OneHolder /\ BusyShape /\ TrackShape /\ StreamShape /\ FileShape
    BY DEF OneHolder, BusyShape, TrackShape, StreamShape, FileShape
  <1>3. GrowingShape /\ WakeShape /\ IdShape
    BY DEF GrowingShape, WakeShape, IdShape
  <1> QED
    BY <1>1, <1>2, <1>3 DEF TurnInv

\* Asking changes nothing but the thread.
LEMMA StartKeepsTurn == ASSUME TurnInv, NEW x \in Starters, NEW t \in Tracks, qobuzcache_start(x, t) PROVE TurnInv'
  <1> USE TracksAssumption, ThreadsAssumption, SizeAssumption, NoStreamAssumption
  <1> USE DEF TurnInv, qobuzcache_start, Goto, At, card, shared, Threads, NoStream,
        Waiting, Opening, Ending, Places, StreamPlaces, FilePlaces, GrowingPlaces, WakePlaces, IdPlaces
  <1>1. ThreadTypes' /\ SharedTypes'
    BY DEF ThreadTypes, SharedTypes
  <1>2. OneHolder' /\ BusyShape'
    BY DEF OneHolder, BusyShape, ThreadTypes, SharedTypes
  <1>3. TrackShape' /\ StreamShape'
    BY DEF TrackShape, StreamShape, OneHolder, ThreadTypes
  <1>4. FileShape'
    BY DEF FileShape, TrackShape, OneHolder, ThreadTypes, SharedTypes
  <1>5. GrowingShape'
    BY DEF GrowingShape, OneHolder, ThreadTypes, TrackShape
  <1>6. WakeShape'
    BY DEF WakeShape, OneHolder, StreamShape, ThreadTypes, SharedTypes
  <1>7. IdShape'
    BY DEF IdShape, OneHolder, BusyShape, ThreadTypes, SharedTypes, TrackShape
  <1> QED
    BY <1>1, <1>2, <1>3, <1>4, <1>5, <1>6, <1>7

\* The turn is taken when nobody has it.
LEMMA TakeTurnKeepsTurn == ASSUME TurnInv, NEW x \in Starters, TakeTurn(x) PROVE TurnInv'
  <1> USE TracksAssumption, ThreadsAssumption, SizeAssumption, NoStreamAssumption
  <1> USE DEF TurnInv, TakeTurn, Goto, At, turn_is_free, card, download, Threads, NoStream,
        Waiting, Opening, Ending, Places, StreamPlaces, FilePlaces, GrowingPlaces, WakePlaces, IdPlaces
  <1>1. ThreadTypes' /\ SharedTypes'
    BY DEF ThreadTypes, SharedTypes
  <1>2. OneHolder' /\ BusyShape'
    BY DEF OneHolder, BusyShape, ThreadTypes, SharedTypes
  <1>3. TrackShape' /\ StreamShape'
    BY DEF TrackShape, StreamShape, OneHolder, ThreadTypes
  <1>4. FileShape'
    BY DEF FileShape, TrackShape, OneHolder, ThreadTypes, SharedTypes
  <1>5. GrowingShape'
    BY DEF GrowingShape, OneHolder, ThreadTypes, TrackShape
  <1>6. WakeShape'
    BY DEF WakeShape, OneHolder, StreamShape, ThreadTypes, SharedTypes
  <1>7. IdShape'
    BY DEF IdShape, OneHolder, BusyShape, ThreadTypes, SharedTypes, TrackShape
  <1> QED
    BY <1>1, <1>2, <1>3, <1>4, <1>5, <1>6, <1>7

\* The holder opens its stream.
LEMMA ConnectKeepsTurn == ASSUME TurnInv, NEW x \in Threads, Connect(x) PROVE TurnInv'
  <1> USE TracksAssumption, ThreadsAssumption, SizeAssumption, NoStreamAssumption
  <1> USE DEF TurnInv, Connect, Goto, At, card, shared, Threads, NoStream,
        Waiting, Opening, Ending, Places, StreamPlaces, FilePlaces, GrowingPlaces, WakePlaces, IdPlaces
  <1>1. ThreadTypes' /\ SharedTypes'
    BY DEF ThreadTypes, SharedTypes
  <1>2. OneHolder' /\ BusyShape'
    BY DEF OneHolder, BusyShape, ThreadTypes, SharedTypes
  <1>3. TrackShape' /\ StreamShape'
    BY DEF TrackShape, StreamShape, OneHolder, ThreadTypes
  <1>4. FileShape'
    BY DEF FileShape, TrackShape, OneHolder, ThreadTypes, SharedTypes
  <1>5. GrowingShape'
    BY DEF GrowingShape, OneHolder, ThreadTypes, TrackShape
  <1>6. WakeShape'
    BY DEF WakeShape, OneHolder, StreamShape, ThreadTypes, SharedTypes
  <1>7. IdShape'
    BY DEF IdShape, OneHolder, BusyShape, ThreadTypes, SharedTypes, TrackShape
  <1> QED
    BY <1>1, <1>2, <1>3, <1>4, <1>5, <1>6, <1>7

\* A start that cannot connect gives all of it back.
LEMMA ConnectFailsKeepsTurn == ASSUME TurnInv, NEW x \in Threads, ConnectFails(x) PROVE TurnInv'
  <1> USE TracksAssumption, ThreadsAssumption, SizeAssumption, NoStreamAssumption
  <1> USE DEF TurnInv, ConnectFails, GiveUp, Leave, Goto, At, clear_active, busy_released, card, Threads, NoStream,
        Waiting, Opening, Ending, Places, StreamPlaces, FilePlaces, GrowingPlaces, WakePlaces, IdPlaces
  <1>1. ThreadTypes' /\ SharedTypes'
    <2> USE DEF ThreadTypes, SharedTypes, TrackShape
    <2>1. pc' \in [Threads -> Places]
      OBVIOUS
    <2>2. track' \in [Threads -> Tracks \cup {NoTrack}]
      OBVIOUS
    <2>3. done' \in [Threads -> 0..Size]
      OBVIOUS
    <2>4. ok' \in [Threads -> BOOLEAN]
      OBVIOUS
    <2>5. streams' \subseteq Threads /\ linked' \subseteq Threads /\ abandoned' \subseteq Threads
      OBVIOUS
    <2>6. disk' \in [Tracks -> 0..Size]
      OBVIOUS
    <2>7. markers' \subseteq Tracks /\ growing' \subseteq Tracks
      OBVIOUS
    <2>8. busy' \in BOOLEAN
      OBVIOUS
    <2>9. active_track_id' \in Tracks \cup {NoTrack}
      OBVIOUS
    <2>10. active_stream' \in Threads \cup {NoStream}
      OBVIOUS
    <2> QED
      BY <2>1, <2>2, <2>3, <2>4, <2>5, <2>6, <2>7, <2>8, <2>9, <2>10
  <1>2. OneHolder' /\ BusyShape'
    BY DEF OneHolder, BusyShape, ThreadTypes, SharedTypes
  <1>3. TrackShape' /\ StreamShape'
    BY DEF TrackShape, StreamShape, OneHolder, ThreadTypes
  <1>4. FileShape'
    BY DEF FileShape, TrackShape, OneHolder, ThreadTypes, SharedTypes
  <1>5. GrowingShape'
    BY DEF GrowingShape, OneHolder, ThreadTypes, TrackShape
  <1>6. WakeShape'
    BY DEF WakeShape, OneHolder, StreamShape, ThreadTypes, SharedTypes
  <1>7. IdShape'
    BY DEF IdShape, OneHolder, BusyShape, ThreadTypes, SharedTypes, TrackShape
  <1> QED
    BY <1>1, <1>2, <1>3, <1>4, <1>5, <1>6, <1>7

\* So does one that cannot open its file.
LEMMA CreateFileFailsKeepsTurn == ASSUME TurnInv, NEW x \in Threads, CreateFileFails(x) PROVE TurnInv'
  <1> USE TracksAssumption, ThreadsAssumption, SizeAssumption, NoStreamAssumption
  <1> USE DEF TurnInv, CreateFileFails, GiveUp, Leave, Goto, At, clear_active, busy_released, card, Threads, NoStream,
        Waiting, Opening, Ending, Places, StreamPlaces, FilePlaces, GrowingPlaces, WakePlaces, IdPlaces
  <1>1. ThreadTypes' /\ SharedTypes'
    <2> USE DEF ThreadTypes, SharedTypes, TrackShape
    <2>1. pc' \in [Threads -> Places]
      OBVIOUS
    <2>2. track' \in [Threads -> Tracks \cup {NoTrack}]
      OBVIOUS
    <2>3. done' \in [Threads -> 0..Size]
      OBVIOUS
    <2>4. ok' \in [Threads -> BOOLEAN]
      OBVIOUS
    <2>5. streams' \subseteq Threads /\ linked' \subseteq Threads /\ abandoned' \subseteq Threads
      OBVIOUS
    <2>6. disk' \in [Tracks -> 0..Size]
      OBVIOUS
    <2>7. markers' \subseteq Tracks /\ growing' \subseteq Tracks
      OBVIOUS
    <2>8. busy' \in BOOLEAN
      OBVIOUS
    <2>9. active_track_id' \in Tracks \cup {NoTrack}
      OBVIOUS
    <2>10. active_stream' \in Threads \cup {NoStream}
      OBVIOUS
    <2> QED
      BY <2>1, <2>2, <2>3, <2>4, <2>5, <2>6, <2>7, <2>8, <2>9, <2>10
  <1>2. OneHolder' /\ BusyShape'
    BY DEF OneHolder, BusyShape, ThreadTypes, SharedTypes
  <1>3. TrackShape' /\ StreamShape'
    BY DEF TrackShape, StreamShape, OneHolder, ThreadTypes
  <1>4. FileShape'
    BY DEF FileShape, TrackShape, OneHolder, ThreadTypes, SharedTypes
  <1>5. GrowingShape'
    BY DEF GrowingShape, OneHolder, ThreadTypes, TrackShape
  <1>6. WakeShape'
    BY DEF WakeShape, OneHolder, StreamShape, ThreadTypes, SharedTypes
  <1>7. IdShape'
    BY DEF IdShape, OneHolder, BusyShape, ThreadTypes, SharedTypes, TrackShape
  <1> QED
    BY <1>1, <1>2, <1>3, <1>4, <1>5, <1>6, <1>7

\* A prune spares what is growing.
LEMMA PruneKeepsTurn == ASSUME TurnInv, NEW x \in Threads, prune(x) PROVE TurnInv'
  <1> USE TracksAssumption, ThreadsAssumption, SizeAssumption, NoStreamAssumption
  <1> USE DEF TurnInv, prune, Goto, At, CleanTo, spared, card, shared, Threads, NoStream,
        Waiting, Opening, Ending, Places, StreamPlaces, FilePlaces, GrowingPlaces, WakePlaces, IdPlaces
  <1>1. ThreadTypes' /\ SharedTypes'
    BY DEF ThreadTypes, SharedTypes
  <1>2. OneHolder' /\ BusyShape'
    BY DEF OneHolder, BusyShape, ThreadTypes, SharedTypes
  <1>3. TrackShape' /\ StreamShape'
    BY DEF TrackShape, StreamShape, OneHolder, ThreadTypes
  <1>4. FileShape'
    BY DEF FileShape, TrackShape, OneHolder, ThreadTypes, SharedTypes
  <1>5. GrowingShape'
    BY DEF GrowingShape, OneHolder, ThreadTypes, TrackShape
  <1>6. WakeShape'
    BY DEF WakeShape, OneHolder, StreamShape, ThreadTypes, SharedTypes
  <1>7. IdShape'
    BY DEF IdShape, OneHolder, BusyShape, ThreadTypes, SharedTypes, TrackShape
  <1> QED
    BY <1>1, <1>2, <1>3, <1>4, <1>5, <1>6, <1>7

\* The marker is made before the file.
LEMMA MakeMarkerKeepsTurn == ASSUME TurnInv, NEW x \in Threads, MakeMarker(x) PROVE TurnInv'
  <1> USE TracksAssumption, ThreadsAssumption, SizeAssumption, NoStreamAssumption
  <1> USE DEF TurnInv, MakeMarker, Goto, At, shared, download, Threads, NoStream,
        Waiting, Opening, Ending, Places, StreamPlaces, FilePlaces, GrowingPlaces, WakePlaces, IdPlaces
  <1>1. ThreadTypes' /\ SharedTypes'
    <2> USE DEF ThreadTypes, SharedTypes, TrackShape
    <2>1. pc' \in [Threads -> Places]
      OBVIOUS
    <2>2. track' \in [Threads -> Tracks \cup {NoTrack}]
      OBVIOUS
    <2>3. done' \in [Threads -> 0..Size]
      OBVIOUS
    <2>4. ok' \in [Threads -> BOOLEAN]
      OBVIOUS
    <2>5. streams' \subseteq Threads /\ linked' \subseteq Threads /\ abandoned' \subseteq Threads
      OBVIOUS
    <2>6. disk' \in [Tracks -> 0..Size]
      OBVIOUS
    <2>7. markers' \subseteq Tracks /\ growing' \subseteq Tracks
      OBVIOUS
    <2>8. busy' \in BOOLEAN
      OBVIOUS
    <2>9. active_track_id' \in Tracks \cup {NoTrack}
      OBVIOUS
    <2>10. active_stream' \in Threads \cup {NoStream}
      OBVIOUS
    <2> QED
      BY <2>1, <2>2, <2>3, <2>4, <2>5, <2>6, <2>7, <2>8, <2>9, <2>10
  <1>2. OneHolder' /\ BusyShape'
    BY DEF OneHolder, BusyShape, ThreadTypes, SharedTypes
  <1>3. TrackShape' /\ StreamShape'
    BY DEF TrackShape, StreamShape, OneHolder, ThreadTypes
  <1>4. FileShape'
    BY DEF FileShape, TrackShape, OneHolder, ThreadTypes, SharedTypes
  <1>5. GrowingShape'
    BY DEF GrowingShape, OneHolder, ThreadTypes, TrackShape
  <1>6. WakeShape'
    BY DEF WakeShape, OneHolder, StreamShape, ThreadTypes, SharedTypes
  <1>7. IdShape'
    BY DEF IdShape, OneHolder, BusyShape, ThreadTypes, SharedTypes, TrackShape
  <1> QED
    BY <1>1, <1>2, <1>3, <1>4, <1>5, <1>6, <1>7

\* Nothing grows yet when the file is emptied.
LEMMA CreateFileKeepsTurn == ASSUME TurnInv, NEW x \in Threads, CreateFile(x) PROVE TurnInv'
  <1> USE TracksAssumption, ThreadsAssumption, SizeAssumption, NoStreamAssumption
  <1> USE DEF TurnInv, CreateFile, Goto, At, shared, Threads, NoStream,
        Waiting, Opening, Ending, Places, StreamPlaces, FilePlaces, GrowingPlaces, WakePlaces, IdPlaces
  <1>1. ThreadTypes' /\ SharedTypes'
    <2> USE DEF ThreadTypes, SharedTypes, TrackShape
    <2>1. pc' \in [Threads -> Places]
      OBVIOUS
    <2>2. track' \in [Threads -> Tracks \cup {NoTrack}]
      OBVIOUS
    <2>3. done' \in [Threads -> 0..Size]
      OBVIOUS
    <2>4. ok' \in [Threads -> BOOLEAN]
      OBVIOUS
    <2>5. streams' \subseteq Threads /\ linked' \subseteq Threads /\ abandoned' \subseteq Threads
      OBVIOUS
    <2>6. disk' \in [Tracks -> 0..Size]
      OBVIOUS
    <2>7. markers' \subseteq Tracks /\ growing' \subseteq Tracks
      OBVIOUS
    <2>8. busy' \in BOOLEAN
      OBVIOUS
    <2>9. active_track_id' \in Tracks \cup {NoTrack}
      OBVIOUS
    <2>10. active_stream' \in Threads \cup {NoStream}
      OBVIOUS
    <2> QED
      BY <2>1, <2>2, <2>3, <2>4, <2>5, <2>6, <2>7, <2>8, <2>9, <2>10
  <1>2. OneHolder' /\ BusyShape'
    BY DEF OneHolder, BusyShape, ThreadTypes, SharedTypes
  <1>3. TrackShape' /\ StreamShape'
    BY DEF TrackShape, StreamShape, OneHolder, ThreadTypes
  <1>4. FileShape'
    BY DEF FileShape, TrackShape, OneHolder, ThreadTypes, SharedTypes
  <1>5. GrowingShape'
    BY DEF GrowingShape, OneHolder, ThreadTypes, TrackShape
  <1>6. WakeShape'
    BY DEF WakeShape, OneHolder, StreamShape, ThreadTypes, SharedTypes
  <1>7. IdShape'
    BY DEF IdShape, OneHolder, BusyShape, ThreadTypes, SharedTypes, TrackShape
  <1> QED
    BY <1>1, <1>2, <1>3, <1>4, <1>5, <1>6, <1>7

\* The file, the stream and the id are published together.
LEMMA AnnounceKeepsTurn == ASSUME TurnInv, NEW x \in Threads, Announce(x) PROVE TurnInv'
  <1> USE TracksAssumption, ThreadsAssumption, SizeAssumption, NoStreamAssumption
  <1> USE DEF TurnInv, Announce, Goto, At, card, download, Threads, NoStream,
        Waiting, Opening, Ending, Places, StreamPlaces, FilePlaces, GrowingPlaces, WakePlaces, IdPlaces
  <1>1. ThreadTypes' /\ SharedTypes'
    <2> USE DEF ThreadTypes, SharedTypes, TrackShape
    <2>1. pc' \in [Threads -> Places]
      OBVIOUS
    <2>2. track' \in [Threads -> Tracks \cup {NoTrack}]
      OBVIOUS
    <2>3. done' \in [Threads -> 0..Size]
      OBVIOUS
    <2>4. ok' \in [Threads -> BOOLEAN]
      OBVIOUS
    <2>5. streams' \subseteq Threads /\ linked' \subseteq Threads /\ abandoned' \subseteq Threads
      OBVIOUS
    <2>6. disk' \in [Tracks -> 0..Size]
      OBVIOUS
    <2>7. markers' \subseteq Tracks /\ growing' \subseteq Tracks
      OBVIOUS
    <2>8. busy' \in BOOLEAN
      OBVIOUS
    <2>9. active_track_id' \in Tracks \cup {NoTrack}
      OBVIOUS
    <2>10. active_stream' \in Threads \cup {NoStream}
      OBVIOUS
    <2> QED
      BY <2>1, <2>2, <2>3, <2>4, <2>5, <2>6, <2>7, <2>8, <2>9, <2>10
  <1>2. OneHolder' /\ BusyShape'
    BY DEF OneHolder, BusyShape, ThreadTypes, SharedTypes
  <1>3. TrackShape' /\ StreamShape'
    BY DEF TrackShape, StreamShape, OneHolder, ThreadTypes
  <1>4. FileShape'
    BY DEF FileShape, TrackShape, OneHolder, ThreadTypes, SharedTypes
  <1>5. GrowingShape'
    BY DEF GrowingShape, OneHolder, ThreadTypes, TrackShape
  <1>6. WakeShape'
    BY DEF WakeShape, OneHolder, StreamShape, ThreadTypes, SharedTypes
  <1>7. IdShape'
    BY DEF IdShape, OneHolder, BusyShape, ThreadTypes, SharedTypes, TrackShape
  <1> QED
    BY <1>1, <1>2, <1>3, <1>4, <1>5, <1>6, <1>7

\* The turn, with all that is shared, passes to the new thread.
LEMMA HandOverKeepsTurn == ASSUME TurnInv, NEW x \in Threads, HandOver(x) PROVE TurnInv'
  <1> USE TracksAssumption, ThreadsAssumption, SizeAssumption, NoStreamAssumption
  <1> USE DEF TurnInv, HandOver, At, card, Threads, NoStream,
        Waiting, Opening, Ending, Places, StreamPlaces, FilePlaces, GrowingPlaces, WakePlaces, IdPlaces
  <1>1. ThreadTypes' /\ SharedTypes'
    BY DEF ThreadTypes, SharedTypes
  <1>2. OneHolder' /\ BusyShape'
    BY DEF OneHolder, BusyShape, ThreadTypes, SharedTypes
  <1>3. TrackShape' /\ StreamShape'
    BY DEF TrackShape, StreamShape, OneHolder, ThreadTypes
  <1>4. FileShape'
    BY DEF FileShape, TrackShape, OneHolder, ThreadTypes, SharedTypes
  <1>5. GrowingShape'
    BY DEF GrowingShape, OneHolder, ThreadTypes, TrackShape
  <1>6. WakeShape'
    BY DEF WakeShape, OneHolder, StreamShape, ThreadTypes, SharedTypes
  <1>7. IdShape'
    BY DEF IdShape, OneHolder, BusyShape, ThreadTypes, SharedTypes, TrackShape
  <1> QED
    BY <1>1, <1>2, <1>3, <1>4, <1>5, <1>6, <1>7

\* A chunk lands in the holder's own file.
LEMMA ChunkKeepsTurn == ASSUME TurnInv, NEW x \in Threads, Chunk(x) PROVE TurnInv'
  <1> USE TracksAssumption, ThreadsAssumption, SizeAssumption, NoStreamAssumption
  <1> USE DEF TurnInv, Chunk, At, more, shared, Threads, NoStream,
        Waiting, Opening, Ending, Places, StreamPlaces, FilePlaces, GrowingPlaces, WakePlaces, IdPlaces
  <1>1. ThreadTypes' /\ SharedTypes'
    <2> USE DEF ThreadTypes, SharedTypes, TrackShape
    <2>1. pc' \in [Threads -> Places]
      OBVIOUS
    <2>2. track' \in [Threads -> Tracks \cup {NoTrack}]
      OBVIOUS
    <2>3. done' \in [Threads -> 0..Size]
      OBVIOUS
    <2>4. ok' \in [Threads -> BOOLEAN]
      OBVIOUS
    <2>5. streams' \subseteq Threads /\ linked' \subseteq Threads /\ abandoned' \subseteq Threads
      OBVIOUS
    <2>6. disk' \in [Tracks -> 0..Size]
      OBVIOUS
    <2>7. markers' \subseteq Tracks /\ growing' \subseteq Tracks
      OBVIOUS
    <2>8. busy' \in BOOLEAN
      OBVIOUS
    <2>9. active_track_id' \in Tracks \cup {NoTrack}
      OBVIOUS
    <2>10. active_stream' \in Threads \cup {NoStream}
      OBVIOUS
    <2> QED
      BY <2>1, <2>2, <2>3, <2>4, <2>5, <2>6, <2>7, <2>8, <2>9, <2>10
  <1>2. OneHolder' /\ BusyShape'
    BY DEF OneHolder, BusyShape, ThreadTypes, SharedTypes
  <1>3. TrackShape' /\ StreamShape'
    BY DEF TrackShape, StreamShape, OneHolder, ThreadTypes
  <1>4. FileShape'
    BY DEF FileShape, TrackShape, OneHolder, ThreadTypes, SharedTypes
  <1>5. GrowingShape'
    BY DEF GrowingShape, OneHolder, ThreadTypes, TrackShape
  <1>6. WakeShape'
    BY DEF WakeShape, OneHolder, StreamShape, ThreadTypes, SharedTypes
  <1>7. IdShape'
    BY DEF IdShape, OneHolder, BusyShape, ThreadTypes, SharedTypes, TrackShape
  <1> QED
    BY <1>1, <1>2, <1>3, <1>4, <1>5, <1>6, <1>7

\* However the pump ends, the download still has the turn.
LEMMA PumpStopsKeepsTurn == ASSUME TurnInv, NEW x \in Threads, PumpStops(x) PROVE TurnInv'
  <1> USE TracksAssumption, ThreadsAssumption, SizeAssumption, NoStreamAssumption
  <1> USE DEF TurnInv, PumpStops, Goto, At, card, shared, Threads, NoStream,
        Waiting, Opening, Ending, Places, StreamPlaces, FilePlaces, GrowingPlaces, WakePlaces, IdPlaces
  <1>1. ThreadTypes' /\ SharedTypes'
    BY DEF ThreadTypes, SharedTypes
  <1>2. OneHolder' /\ BusyShape'
    BY DEF OneHolder, BusyShape, ThreadTypes, SharedTypes
  <1>3. TrackShape' /\ StreamShape'
    BY DEF TrackShape, StreamShape, OneHolder, ThreadTypes
  <1>4. FileShape'
    BY DEF FileShape, TrackShape, OneHolder, ThreadTypes, SharedTypes
  <1>5. GrowingShape'
    BY DEF GrowingShape, OneHolder, ThreadTypes, TrackShape
  <1>6. WakeShape'
    BY DEF WakeShape, OneHolder, StreamShape, ThreadTypes, SharedTypes
  <1>7. IdShape'
    BY DEF IdShape, OneHolder, BusyShape, ThreadTypes, SharedTypes, TrackShape
  <1> QED
    BY <1>1, <1>2, <1>3, <1>4, <1>5, <1>6, <1>7

\* The stream and the id are hidden.
LEMMA EndHidesKeepsTurn == ASSUME TurnInv, NEW x \in Threads, EndHides(x) PROVE TurnInv'
  <1> USE TracksAssumption, ThreadsAssumption, SizeAssumption, NoStreamAssumption
  <1> USE DEF TurnInv, EndHides, Goto, At, clear_active, card, download, Threads, NoStream,
        Waiting, Opening, Ending, Places, StreamPlaces, FilePlaces, GrowingPlaces, WakePlaces, IdPlaces
  <1>1. ThreadTypes' /\ SharedTypes'
    BY DEF ThreadTypes, SharedTypes
  <1>2. OneHolder' /\ BusyShape'
    BY DEF OneHolder, BusyShape, ThreadTypes, SharedTypes
  <1>3. TrackShape' /\ StreamShape'
    BY DEF TrackShape, StreamShape, OneHolder, ThreadTypes
  <1>4. FileShape'
    BY DEF FileShape, TrackShape, OneHolder, ThreadTypes, SharedTypes
  <1>5. GrowingShape'
    BY DEF GrowingShape, OneHolder, ThreadTypes, TrackShape
  <1>6. WakeShape'
    BY DEF WakeShape, OneHolder, StreamShape, ThreadTypes, SharedTypes
  <1>7. IdShape'
    BY DEF IdShape, OneHolder, BusyShape, ThreadTypes, SharedTypes, TrackShape
  <1> QED
    BY <1>1, <1>2, <1>3, <1>4, <1>5, <1>6, <1>7

\* The stream is closed when it is hidden.
LEMMA EndClosesKeepsTurn == ASSUME TurnInv, NEW x \in Threads, EndCloses(x) PROVE TurnInv'
  <1> USE TracksAssumption, ThreadsAssumption, SizeAssumption, NoStreamAssumption
  <1> USE DEF TurnInv, EndCloses, Goto, closes_at, card, shared, Threads, NoStream,
        Waiting, Opening, Ending, Places, StreamPlaces, FilePlaces, GrowingPlaces, WakePlaces, IdPlaces
  <1>1. ThreadTypes' /\ SharedTypes'
    BY DEF ThreadTypes, SharedTypes
  <1>2. OneHolder' /\ BusyShape'
    BY DEF OneHolder, BusyShape, ThreadTypes, SharedTypes
  <1>3. TrackShape' /\ StreamShape'
    BY DEF TrackShape, StreamShape, OneHolder, ThreadTypes
  <1>4. FileShape'
    BY DEF FileShape, TrackShape, OneHolder, ThreadTypes, SharedTypes
  <1>5. GrowingShape'
    BY DEF GrowingShape, OneHolder, ThreadTypes, TrackShape
  <1>6. WakeShape'
    BY DEF WakeShape, OneHolder, StreamShape, ThreadTypes, SharedTypes
  <1>7. IdShape'
    BY DEF IdShape, OneHolder, BusyShape, ThreadTypes, SharedTypes, TrackShape
  <1> QED
    BY <1>1, <1>2, <1>3, <1>4, <1>5, <1>6, <1>7

\* The file stops growing.
LEMMA EndFinishesKeepsTurn == ASSUME TurnInv, NEW x \in Threads, EndFinishes(x) PROVE TurnInv'
  <1> USE TracksAssumption, ThreadsAssumption, SizeAssumption, NoStreamAssumption
  <1> USE DEF TurnInv, EndFinishes, Goto, At, card, download, Threads, NoStream,
        Waiting, Opening, Ending, Places, StreamPlaces, FilePlaces, GrowingPlaces, WakePlaces, IdPlaces
  <1>1. ThreadTypes' /\ SharedTypes'
    BY DEF ThreadTypes, SharedTypes
  <1>2. OneHolder' /\ BusyShape'
    BY DEF OneHolder, BusyShape, ThreadTypes, SharedTypes
  <1>3. TrackShape' /\ StreamShape'
    BY DEF TrackShape, StreamShape, OneHolder, ThreadTypes
  <1>4. FileShape'
    BY DEF FileShape, TrackShape, OneHolder, ThreadTypes, SharedTypes
  <1>5. GrowingShape'
    BY DEF GrowingShape, OneHolder, ThreadTypes, TrackShape
  <1>6. WakeShape'
    BY DEF WakeShape, OneHolder, StreamShape, ThreadTypes, SharedTypes
  <1>7. IdShape'
    BY DEF IdShape, OneHolder, BusyShape, ThreadTypes, SharedTypes, TrackShape
  <1> QED
    BY <1>1, <1>2, <1>3, <1>4, <1>5, <1>6, <1>7

\* A whole file loses its marker.
LEMMA EndUnmarksKeepsTurn == ASSUME TurnInv, NEW x \in Threads, EndUnmarks(x) PROVE TurnInv'
  <1> USE TracksAssumption, ThreadsAssumption, SizeAssumption, NoStreamAssumption
  <1> USE DEF TurnInv, EndUnmarks, Goto, At, shared, download, Threads, NoStream,
        Waiting, Opening, Ending, Places, StreamPlaces, FilePlaces, GrowingPlaces, WakePlaces, IdPlaces
  <1>1. ThreadTypes' /\ SharedTypes'
    BY DEF ThreadTypes, SharedTypes
  <1>2. OneHolder' /\ BusyShape'
    BY DEF OneHolder, BusyShape, ThreadTypes, SharedTypes
  <1>3. TrackShape' /\ StreamShape'
    BY DEF TrackShape, StreamShape, OneHolder, ThreadTypes
  <1>4. FileShape'
    BY DEF FileShape, TrackShape, OneHolder, ThreadTypes, SharedTypes
  <1>5. GrowingShape'
    BY DEF GrowingShape, OneHolder, ThreadTypes, TrackShape
  <1>6. WakeShape'
    BY DEF WakeShape, OneHolder, StreamShape, ThreadTypes, SharedTypes
  <1>7. IdShape'
    BY DEF IdShape, OneHolder, BusyShape, ThreadTypes, SharedTypes, TrackShape
  <1> QED
    BY <1>1, <1>2, <1>3, <1>4, <1>5, <1>6, <1>7

\* The turn is given back when nothing is left of the download.
LEMMA EndReleasesKeepsTurn == ASSUME TurnInv, NEW x \in Threads, EndReleases(x) PROVE TurnInv'
  <1> USE TracksAssumption, ThreadsAssumption, SizeAssumption, NoStreamAssumption
  <1> USE DEF TurnInv, EndReleases, Leave, Goto, At, card, shared, Threads, NoStream,
        Waiting, Opening, Ending, Places, StreamPlaces, FilePlaces, GrowingPlaces, WakePlaces, IdPlaces
  <1>1. ThreadTypes' /\ SharedTypes'
    <2> USE DEF ThreadTypes, SharedTypes, TrackShape
    <2>1. pc' \in [Threads -> Places]
      OBVIOUS
    <2>2. track' \in [Threads -> Tracks \cup {NoTrack}]
      OBVIOUS
    <2>3. done' \in [Threads -> 0..Size]
      OBVIOUS
    <2>4. ok' \in [Threads -> BOOLEAN]
      OBVIOUS
    <2>5. streams' \subseteq Threads /\ linked' \subseteq Threads /\ abandoned' \subseteq Threads
      OBVIOUS
    <2>6. disk' \in [Tracks -> 0..Size]
      OBVIOUS
    <2>7. markers' \subseteq Tracks /\ growing' \subseteq Tracks
      OBVIOUS
    <2>8. busy' \in BOOLEAN
      OBVIOUS
    <2>9. active_track_id' \in Tracks \cup {NoTrack}
      OBVIOUS
    <2>10. active_stream' \in Threads \cup {NoStream}
      OBVIOUS
    <2> QED
      BY <2>1, <2>2, <2>3, <2>4, <2>5, <2>6, <2>7, <2>8, <2>9, <2>10
  <1>2. OneHolder' /\ BusyShape'
    BY DEF OneHolder, BusyShape, ThreadTypes, SharedTypes
  <1>3. TrackShape' /\ StreamShape'
    BY DEF TrackShape, StreamShape, OneHolder, ThreadTypes
  <1>4. FileShape'
    BY DEF FileShape, TrackShape, OneHolder, ThreadTypes, SharedTypes
  <1>5. GrowingShape'
    BY DEF GrowingShape, OneHolder, ThreadTypes, TrackShape
  <1>6. WakeShape'
    BY DEF WakeShape, OneHolder, StreamShape, ThreadTypes, SharedTypes
  <1>7. IdShape'
    BY DEF IdShape, OneHolder, BusyShape, ThreadTypes, SharedTypes, TrackShape
  <1> QED
    BY <1>1, <1>2, <1>3, <1>4, <1>5, <1>6, <1>7

\* An abandon only tells the holder.
LEMMA AbandonKeepsTurn == ASSUME TurnInv, qobuzcache_abandon_all PROVE TurnInv'
  <1> USE TracksAssumption, ThreadsAssumption, SizeAssumption, NoStreamAssumption
  <1> USE DEF TurnInv, qobuzcache_abandon_all, Holders, card, shared, Threads, NoStream,
        Waiting, Opening, Ending, Places, StreamPlaces, FilePlaces, GrowingPlaces, WakePlaces, IdPlaces
  <1>1. ThreadTypes' /\ SharedTypes'
    BY DEF ThreadTypes, SharedTypes
  <1>2. OneHolder' /\ BusyShape'
    BY DEF OneHolder, BusyShape, ThreadTypes, SharedTypes
  <1>3. TrackShape' /\ StreamShape'
    BY DEF TrackShape, StreamShape, OneHolder, ThreadTypes
  <1>4. FileShape'
    BY DEF FileShape, TrackShape, OneHolder, ThreadTypes, SharedTypes
  <1>5. GrowingShape'
    BY DEF GrowingShape, OneHolder, ThreadTypes, TrackShape
  <1>6. WakeShape'
    BY DEF WakeShape, OneHolder, StreamShape, ThreadTypes, SharedTypes
  <1>7. IdShape'
    BY DEF IdShape, OneHolder, BusyShape, ThreadTypes, SharedTypes, TrackShape
  <1> QED
    BY <1>1, <1>2, <1>3, <1>4, <1>5, <1>6, <1>7

\* A sweep spares what is growing.
LEMMA SweepKeepsTurn == ASSUME TurnInv, Sweep PROVE TurnInv'
  <1> USE TracksAssumption, ThreadsAssumption, SizeAssumption, NoStreamAssumption
  <1> USE DEF TurnInv, Sweep, CleanTo, spared, shared, Threads, NoStream,
        Waiting, Opening, Ending, Places, StreamPlaces, FilePlaces, GrowingPlaces, WakePlaces, IdPlaces
  <1>1. ThreadTypes' /\ SharedTypes'
    BY DEF ThreadTypes, SharedTypes
  <1>2. OneHolder' /\ BusyShape'
    BY DEF OneHolder, BusyShape, ThreadTypes, SharedTypes
  <1>3. TrackShape' /\ StreamShape'
    BY DEF TrackShape, StreamShape, OneHolder, ThreadTypes
  <1>4. FileShape'
    BY DEF FileShape, TrackShape, OneHolder, ThreadTypes, SharedTypes
  <1>5. GrowingShape'
    BY DEF GrowingShape, OneHolder, ThreadTypes, TrackShape
  <1>6. WakeShape'
    BY DEF WakeShape, OneHolder, StreamShape, ThreadTypes, SharedTypes
  <1>7. IdShape'
    BY DEF IdShape, OneHolder, BusyShape, ThreadTypes, SharedTypes, TrackShape
  <1> QED
    BY <1>1, <1>2, <1>3, <1>4, <1>5, <1>6, <1>7

\* A clear leaves the open file without its name.
LEMMA ClearKeepsTurn == ASSUME TurnInv, qobuzcache_clear PROVE TurnInv'
  <1> USE TracksAssumption, ThreadsAssumption, SizeAssumption, NoStreamAssumption
  <1> USE DEF TurnInv, qobuzcache_clear, CleanTo, shared, Threads, NoStream,
        Waiting, Opening, Ending, Places, StreamPlaces, FilePlaces, GrowingPlaces, WakePlaces, IdPlaces
  <1>1. ThreadTypes' /\ SharedTypes'
    BY DEF ThreadTypes, SharedTypes
  <1>2. OneHolder' /\ BusyShape'
    BY DEF OneHolder, BusyShape, ThreadTypes, SharedTypes
  <1>3. TrackShape' /\ StreamShape'
    BY DEF TrackShape, StreamShape, OneHolder, ThreadTypes
  <1>4. FileShape'
    BY DEF FileShape, TrackShape, OneHolder, ThreadTypes, SharedTypes
  <1>5. GrowingShape'
    BY DEF GrowingShape, OneHolder, ThreadTypes, TrackShape
  <1>6. WakeShape'
    BY DEF WakeShape, OneHolder, StreamShape, ThreadTypes, SharedTypes
  <1>7. IdShape'
    BY DEF IdShape, OneHolder, BusyShape, ThreadTypes, SharedTypes, TrackShape
  <1> QED
    BY <1>1, <1>2, <1>3, <1>4, <1>5, <1>6, <1>7

\* A loss of power leaves the card.
LEMMA PowerLossKeepsTurn == ASSUME TurnInv, PowerLoss PROVE TurnInv'
  <1> USE TracksAssumption, ThreadsAssumption, SizeAssumption, NoStreamAssumption
  <1> USE DEF TurnInv, PowerLoss, card, Threads, NoStream,
        Waiting, Opening, Ending, Places, StreamPlaces, FilePlaces, GrowingPlaces, WakePlaces, IdPlaces
  <1>1. ThreadTypes' /\ SharedTypes'
    <2> USE DEF ThreadTypes, SharedTypes, TrackShape
    <2>1. pc' \in [Threads -> Places]
      OBVIOUS
    <2>2. track' \in [Threads -> Tracks \cup {NoTrack}]
      OBVIOUS
    <2>3. done' \in [Threads -> 0..Size]
      OBVIOUS
    <2>4. ok' \in [Threads -> BOOLEAN]
      OBVIOUS
    <2>5. streams' \subseteq Threads /\ linked' \subseteq Threads /\ abandoned' \subseteq Threads
      OBVIOUS
    <2>6. disk' \in [Tracks -> 0..Size]
      OBVIOUS
    <2>7. markers' \subseteq Tracks /\ growing' \subseteq Tracks
      OBVIOUS
    <2>8. busy' \in BOOLEAN
      OBVIOUS
    <2>9. active_track_id' \in Tracks \cup {NoTrack}
      OBVIOUS
    <2>10. active_stream' \in Threads \cup {NoStream}
      OBVIOUS
    <2> QED
      BY <2>1, <2>2, <2>3, <2>4, <2>5, <2>6, <2>7, <2>8, <2>9, <2>10
  <1>2. OneHolder' /\ BusyShape'
    BY DEF OneHolder, BusyShape, ThreadTypes, SharedTypes
  <1>3. TrackShape' /\ StreamShape'
    BY DEF TrackShape, StreamShape, OneHolder, ThreadTypes
  <1>4. FileShape'
    BY DEF FileShape, TrackShape, OneHolder, ThreadTypes, SharedTypes
  <1>5. GrowingShape'
    BY DEF GrowingShape, OneHolder, ThreadTypes, TrackShape
  <1>6. WakeShape'
    BY DEF WakeShape, OneHolder, StreamShape, ThreadTypes, SharedTypes
  <1>7. IdShape'
    BY DEF IdShape, OneHolder, BusyShape, ThreadTypes, SharedTypes, TrackShape
  <1> QED
    BY <1>1, <1>2, <1>3, <1>4, <1>5, <1>6, <1>7

\* Whatever a thread does with the turn keeps the invariant.
LEMMA RunsKeepTurn == ASSUME TurnInv, NEW x \in Threads, Runs(x) PROVE TurnInv'
  <1>1. CASE Connect(x)
    BY <1>1, ConnectKeepsTurn
  <1>2. CASE ConnectFails(x)
    BY <1>2, ConnectFailsKeepsTurn
  <1>3. CASE prune(x)
    BY <1>3, PruneKeepsTurn
  <1>4. CASE MakeMarker(x)
    BY <1>4, MakeMarkerKeepsTurn
  <1>5. CASE CreateFile(x)
    BY <1>5, CreateFileKeepsTurn
  <1>6. CASE CreateFileFails(x)
    BY <1>6, CreateFileFailsKeepsTurn
  <1>7. CASE Announce(x)
    BY <1>7, AnnounceKeepsTurn
  <1>8. CASE HandOver(x)
    BY <1>8, HandOverKeepsTurn
  <1>9. CASE Chunk(x)
    BY <1>9, ChunkKeepsTurn
  <1>10. CASE PumpStops(x)
    BY <1>10, PumpStopsKeepsTurn
  <1>11. CASE EndHides(x)
    BY <1>11, EndHidesKeepsTurn
  <1>12. CASE EndCloses(x)
    BY <1>12, EndClosesKeepsTurn
  <1>13. CASE EndFinishes(x)
    BY <1>13, EndFinishesKeepsTurn
  <1>14. CASE EndUnmarks(x)
    BY <1>14, EndUnmarksKeepsTurn
  <1>15. CASE EndReleases(x)
    BY <1>15, EndReleasesKeepsTurn
  <1> QED
    BY <1>1, <1>2, <1>3, <1>4, <1>5, <1>6, <1>7, <1>8, <1>9, <1>10, <1>11, <1>12, <1>13, <1>14, <1>15 DEF Runs, Opens, Ends

-----------------------------------------------------------------------------

\* The turn, and all that goes with it, is one thread's.
THEOREM TurnHolds == Spec => []TurnInv
  <1>1. TurnInv /\ [Next]_vars => TurnInv'
    <2> SUFFICES ASSUME TurnInv, [Next]_vars PROVE TurnInv'
      OBVIOUS
    <2>1. CASE UNCHANGED vars
      BY <2>1 DEF vars, card, shared, download, TurnInv, ThreadTypes, SharedTypes, OneHolder, BusyShape, TrackShape,
            StreamShape, FileShape, GrowingShape, WakeShape, IdShape
    <2>2. ASSUME NEW s \in Starters, TakeTurn(s) PROVE TurnInv'
      BY <2>2, TakeTurnKeepsTurn
    <2>3. ASSUME NEW s \in Starters, NEW t \in Tracks, qobuzcache_start(s, t) PROVE TurnInv'
      BY <2>3, StartKeepsTurn
    <2>4. ASSUME NEW x \in Threads, Runs(x) PROVE TurnInv'
      BY <2>4, RunsKeepTurn
    <2>5. CASE qobuzcache_abandon_all \/ Sweep \/ qobuzcache_clear \/ PowerLoss
      BY <2>5, AbandonKeepsTurn, SweepKeepsTurn, ClearKeepsTurn, PowerLossKeepsTurn
    <2> QED
      BY <2>1, <2>2, <2>3, <2>4, <2>5 DEF Next
  <1> QED
    BY InitTurn, <1>1, PTL DEF Spec

\* Type correctness.
THEOREM TypeCorrect == Spec => []TypeOK
  <1>1. TurnInv => TypeOK
    BY DEF TurnInv, ThreadTypes, SharedTypes, TypeOK
  <1> QED
    BY TurnHolds, <1>1, PTL

\* One download at a time, and everything that is open or growing is its own.
THEOREM OneDownloadHolds == Spec => []OneDownload
  <1>1. TurnInv => OneDownload
    <2> SUFFICES ASSUME TurnInv PROVE OneDownload
      OBVIOUS
    <2> USE DEF TurnInv, Holders, Waiting, Opening, Ending, Places, StreamPlaces, FilePlaces, GrowingPlaces, WakePlaces, IdPlaces
    <2>1. \A x, y \in Holders : x = y
      BY DEF OneHolder
    <2>2. busy <=> Holders /= {}
      BY DEF BusyShape
    <2>3. streams \cup linked \subseteq Holders
      BY DEF StreamShape, FileShape, ThreadTypes
    <2>4. growing \subseteq {track[x] : x \in Holders}
      BY DEF GrowingShape, SharedTypes
    <2> QED
      BY <2>1, <2>2, <2>3, <2>4 DEF OneDownload
  <1> QED
    BY TurnHolds, <1>1, PTL

\* An abandon never wakes a stream that has been closed.
THEOREM WakeHolds == Spec => []WakeIsSafe
  <1>1. TurnInv => WakeIsSafe
    BY DEF TurnInv, WakeShape, WakeIsSafe
  <1> QED
    BY TurnHolds, <1>1, PTL

\* An id that is published is that of a track being downloaded.
THEOREM IdHolds == Spec => []IdIsDownloading
  <1>1. TurnInv => IdIsDownloading
    BY DEF TurnInv, IdShape, IdIsDownloading, Holders, Waiting, Opening, Ending, Places, StreamPlaces, FilePlaces, GrowingPlaces, WakePlaces, IdPlaces
  <1> QED
    BY TurnHolds, <1>1, PTL

\* What is open or published belongs to the download that has the turn.
THEOREM StreamIsOwnedHolds == Spec => []StreamIsOwned
  BY OneDownloadHolds, IdHolds, WakeHolds, PTL DEF StreamIsOwned


\* A file that grows is never emptied or deleted, unless by a clear.
THEOREM GrowingHolds == Spec => GrowingIsKept
  <1>1. TurnInv /\ [Next]_vars => [qobuzcache_clear \/ \A t \in growing \cap growing' : disk'[t] >= disk[t]]_vars
    <2> DEFINE Kept == qobuzcache_clear \/ \A t \in growing \cap growing' : disk'[t] >= disk[t]
    <2> SUFFICES ASSUME TurnInv, Next PROVE Kept
      OBVIOUS
    <2> USE SizeAssumption DEF TurnInv, ThreadTypes, SharedTypes
    <2>1. CASE disk' = disk
      BY <2>1
    <2>2. ASSUME NEW x \in Threads, Chunk(x) PROVE Kept
      BY <2>2 DEF Chunk, At, FileShape, TrackShape, Places, Waiting, Opening, Ending, FilePlaces
    <2>3. ASSUME NEW x \in Threads, CreateFile(x) PROVE Kept
      BY <2>3 DEF CreateFile, At, shared, GrowingShape, GrowingPlaces, OneHolder, Waiting
    <2>4. ASSUME NEW x \in Threads, prune(x) PROVE Kept
      BY <2>4 DEF prune, CleanTo, spared, card
    <2>5. CASE Sweep
      BY <2>5 DEF Sweep, CleanTo, spared
    <2>6. CASE qobuzcache_clear
      BY <2>6
    <2>7. ASSUME NEW x \in Threads, Runs(x), ~Chunk(x), ~CreateFile(x), ~prune(x) PROVE disk' = disk
      BY <2>7 DEF Runs, Opens, Ends, Connect, ConnectFails, MakeMarker, CreateFileFails, Announce, HandOver, GiveUp,
            PumpStops, EndHides, EndCloses, EndFinishes, EndUnmarks, EndReleases, card
    <2>8. ASSUME NEW s \in Starters, TakeTurn(s) PROVE disk' = disk
      BY <2>8 DEF TakeTurn, card
    <2>9. ASSUME NEW s \in Starters, NEW t \in Tracks, qobuzcache_start(s, t) PROVE disk' = disk
      BY <2>9 DEF qobuzcache_start, card
    <2>10. CASE qobuzcache_abandon_all \/ PowerLoss
      BY <2>1, <2>10 DEF qobuzcache_abandon_all, PowerLoss, card
    <2> QED
      BY <2>1, <2>2, <2>3, <2>4, <2>5, <2>6, <2>7, <2>8, <2>9, <2>10 DEF Next
  <1> QED
    BY TurnHolds, <1>1, PTL DEF GrowingIsKept, Spec

-----------------------------------------------------------------------------

\* The empty card is sound.
LEMMA InitCard == Init => CardInv
  BY DEF Init, CardInv, LinkShape, MarkShape, WrittenShape, EndShape, HasMeansWhole, qobuzcache_has,
      MarkedPlaces, WrittenPlaces, Waiting, Opening, Ending, Places, StreamPlaces, FilePlaces, GrowingPlaces, WakePlaces, IdPlaces

\* Asking leaves the card alone.
LEMMA StartKeepsCard == ASSUME Cleanups = {}, TurnInv, CardInv, NEW x \in Starters, NEW t \in Tracks, qobuzcache_start(x, t) PROVE CardInv'
  <1> USE TracksAssumption, ThreadsAssumption, SizeAssumption
  <1> USE DEF CardInv, TurnInv, ThreadTypes, SharedTypes, OneHolder, TrackShape,
        qobuzcache_start, Goto, At, card, shared, Threads, MarkedPlaces, WrittenPlaces,
        Waiting, Opening, Ending, Places, StreamPlaces, FilePlaces, GrowingPlaces, WakePlaces, IdPlaces
  <1>1. LinkShape'
    BY DEF LinkShape
  <1>2. MarkShape'
    BY DEF MarkShape
  <1>3. WrittenShape'
    BY DEF WrittenShape, LinkShape
  <1>4. EndShape'
    BY DEF EndShape
  <1>5. HasMeansWhole'
    BY DEF HasMeansWhole, qobuzcache_has, MarkShape, WrittenShape, EndShape
  <1> QED
    BY <1>1, <1>2, <1>3, <1>4, <1>5

\* So does taking the turn.
LEMMA TakeTurnKeepsCard == ASSUME Cleanups = {}, TurnInv, CardInv, NEW x \in Starters, TakeTurn(x) PROVE CardInv'
  <1> USE TracksAssumption, ThreadsAssumption, SizeAssumption
  <1> USE DEF CardInv, TurnInv, ThreadTypes, SharedTypes, OneHolder, TrackShape,
        TakeTurn, Goto, At, turn_is_free, card, download, Threads, MarkedPlaces, WrittenPlaces,
        Waiting, Opening, Ending, Places, StreamPlaces, FilePlaces, GrowingPlaces, WakePlaces, IdPlaces
  <1>1. LinkShape'
    BY DEF LinkShape
  <1>2. MarkShape'
    BY DEF MarkShape
  <1>3. WrittenShape'
    BY DEF WrittenShape, LinkShape
  <1>4. EndShape'
    BY DEF EndShape
  <1>5. HasMeansWhole'
    BY DEF HasMeansWhole, qobuzcache_has, MarkShape, WrittenShape, EndShape
  <1> QED
    BY <1>1, <1>2, <1>3, <1>4, <1>5

\* Connecting, too.
LEMMA ConnectKeepsCard == ASSUME Cleanups = {}, TurnInv, CardInv, NEW x \in Threads, Connect(x) PROVE CardInv'
  <1> USE TracksAssumption, ThreadsAssumption, SizeAssumption
  <1> USE DEF CardInv, TurnInv, ThreadTypes, SharedTypes, OneHolder, TrackShape,
        Connect, Goto, At, card, shared, Threads, MarkedPlaces, WrittenPlaces,
        Waiting, Opening, Ending, Places, StreamPlaces, FilePlaces, GrowingPlaces, WakePlaces, IdPlaces
  <1>1. LinkShape'
    BY DEF LinkShape
  <1>2. MarkShape'
    BY DEF MarkShape
  <1>3. WrittenShape'
    BY DEF WrittenShape, LinkShape
  <1>4. EndShape'
    BY DEF EndShape
  <1>5. HasMeansWhole'
    BY DEF HasMeansWhole, qobuzcache_has, MarkShape, WrittenShape, EndShape
  <1> QED
    BY <1>1, <1>2, <1>3, <1>4, <1>5

\* What an earlier download left keeps its marker.
LEMMA ConnectFailsKeepsCard == ASSUME Cleanups = {}, TurnInv, CardInv, NEW x \in Threads, ConnectFails(x) PROVE CardInv'
  <1> USE TracksAssumption, ThreadsAssumption, SizeAssumption
  <1> USE DEF CardInv, TurnInv, ThreadTypes, SharedTypes, OneHolder, TrackShape,
        ConnectFails, GiveUp, Leave, Goto, At, clear_active, busy_released, card, Threads, MarkedPlaces, WrittenPlaces,
        Waiting, Opening, Ending, Places, StreamPlaces, FilePlaces, GrowingPlaces, WakePlaces, IdPlaces
  <1>1. LinkShape'
    BY DEF LinkShape
  <1>2. MarkShape'
    BY DEF MarkShape
  <1>3. WrittenShape'
    BY DEF WrittenShape, LinkShape
  <1>4. EndShape'
    BY DEF EndShape
  <1>5. HasMeansWhole'
    BY DEF HasMeansWhole, qobuzcache_has, MarkShape, WrittenShape, EndShape
  <1> QED
    BY <1>1, <1>2, <1>3, <1>4, <1>5

\* A marker with no file to it does no harm.
LEMMA CreateFileFailsKeepsCard == ASSUME Cleanups = {}, TurnInv, CardInv, NEW x \in Threads, CreateFileFails(x) PROVE CardInv'
  <1> USE TracksAssumption, ThreadsAssumption, SizeAssumption
  <1> USE DEF CardInv, TurnInv, ThreadTypes, SharedTypes, OneHolder, TrackShape,
        CreateFileFails, GiveUp, Leave, Goto, At, clear_active, busy_released, card, Threads, MarkedPlaces, WrittenPlaces,
        Waiting, Opening, Ending, Places, StreamPlaces, FilePlaces, GrowingPlaces, WakePlaces, IdPlaces
  <1>1. LinkShape'
    BY DEF LinkShape
  <1>2. MarkShape'
    BY DEF MarkShape
  <1>3. WrittenShape'
    BY DEF WrittenShape, LinkShape
  <1>4. EndShape'
    BY DEF EndShape
  <1>5. HasMeansWhole'
    BY DEF HasMeansWhole, qobuzcache_has, MarkShape, WrittenShape, EndShape
  <1> QED
    BY <1>1, <1>2, <1>3, <1>4, <1>5

\* With no cleanup a prune removes nothing.
LEMMA PruneKeepsCard == ASSUME Cleanups = {}, TurnInv, CardInv, NEW x \in Threads, prune(x) PROVE CardInv'
  <1> USE TracksAssumption, ThreadsAssumption, SizeAssumption
  <1> USE DEF CardInv, TurnInv, ThreadTypes, SharedTypes, OneHolder, TrackShape,
        prune, Goto, At, CleanTo, spared, card, shared, Threads, MarkedPlaces, WrittenPlaces,
        Waiting, Opening, Ending, Places, StreamPlaces, FilePlaces, GrowingPlaces, WakePlaces, IdPlaces
  <1>1. LinkShape'
    BY DEF LinkShape
  <1>2. MarkShape'
    BY DEF MarkShape
  <1>3. WrittenShape'
    BY DEF WrittenShape, LinkShape
  <1>4. EndShape'
    BY DEF EndShape
  <1>5. HasMeansWhole'
    BY DEF HasMeansWhole, qobuzcache_has, MarkShape, WrittenShape, EndShape
  <1> QED
    BY <1>1, <1>2, <1>3, <1>4, <1>5

\* The marker is made before the file.
LEMMA MakeMarkerKeepsCard == ASSUME Cleanups = {}, TurnInv, CardInv, NEW x \in Threads, MakeMarker(x) PROVE CardInv'
  <1> USE TracksAssumption, ThreadsAssumption, SizeAssumption
  <1> USE DEF CardInv, TurnInv, ThreadTypes, SharedTypes, OneHolder, TrackShape,
        MakeMarker, Goto, At, shared, download, Threads, MarkedPlaces, WrittenPlaces,
        Waiting, Opening, Ending, Places, StreamPlaces, FilePlaces, GrowingPlaces, WakePlaces, IdPlaces
  <1>1. LinkShape'
    BY DEF LinkShape
  <1>2. MarkShape'
    BY DEF MarkShape
  <1>3. WrittenShape'
    BY DEF WrittenShape, LinkShape
  <1>4. EndShape'
    BY DEF EndShape
  <1>5. HasMeansWhole'
    BY DEF HasMeansWhole, qobuzcache_has, MarkShape, WrittenShape, EndShape
  <1> QED
    BY <1>1, <1>2, <1>3, <1>4, <1>5

\* The file that is emptied has its marker.
LEMMA CreateFileKeepsCard == ASSUME Cleanups = {}, TurnInv, CardInv, NEW x \in Threads, CreateFile(x) PROVE CardInv'
  <1> USE TracksAssumption, ThreadsAssumption, SizeAssumption
  <1> USE DEF CardInv, TurnInv, ThreadTypes, SharedTypes, OneHolder, TrackShape,
        CreateFile, Goto, At, shared, Threads, MarkedPlaces, WrittenPlaces,
        Waiting, Opening, Ending, Places, StreamPlaces, FilePlaces, GrowingPlaces, WakePlaces, IdPlaces
  <1>1. LinkShape'
    BY DEF LinkShape
  <1>2. MarkShape'
    BY DEF MarkShape
  <1>3. WrittenShape'
    BY DEF WrittenShape, LinkShape
  <1>4. EndShape'
    BY DEF EndShape
  <1>5. HasMeansWhole'
    BY DEF HasMeansWhole, qobuzcache_has, MarkShape, WrittenShape, EndShape
  <1> QED
    BY <1>1, <1>2, <1>3, <1>4, <1>5

\* Announcing leaves the card alone.
LEMMA AnnounceKeepsCard == ASSUME Cleanups = {}, TurnInv, CardInv, NEW x \in Threads, Announce(x) PROVE CardInv'
  <1> USE TracksAssumption, ThreadsAssumption, SizeAssumption
  <1> USE DEF CardInv, TurnInv, ThreadTypes, SharedTypes, OneHolder, TrackShape,
        Announce, Goto, At, card, download, Threads, MarkedPlaces, WrittenPlaces,
        Waiting, Opening, Ending, Places, StreamPlaces, FilePlaces, GrowingPlaces, WakePlaces, IdPlaces
  <1>1. LinkShape'
    BY DEF LinkShape
  <1>2. MarkShape'
    BY DEF MarkShape
  <1>3. WrittenShape'
    BY DEF WrittenShape, LinkShape
  <1>4. EndShape'
    BY DEF EndShape
  <1>5. HasMeansWhole'
    BY DEF HasMeansWhole, qobuzcache_has, MarkShape, WrittenShape, EndShape
  <1> QED
    BY <1>1, <1>2, <1>3, <1>4, <1>5

\* The new thread writes the same file.
LEMMA HandOverKeepsCard == ASSUME Cleanups = {}, TurnInv, CardInv, NEW x \in Threads, HandOver(x) PROVE CardInv'
  <1> USE TracksAssumption, ThreadsAssumption, SizeAssumption
  <1> USE DEF CardInv, TurnInv, ThreadTypes, SharedTypes, OneHolder, TrackShape,
        HandOver, At, card, Threads, MarkedPlaces, WrittenPlaces,
        Waiting, Opening, Ending, Places, StreamPlaces, FilePlaces, GrowingPlaces, WakePlaces, IdPlaces
  <1>1. LinkShape'
    BY DEF LinkShape
  <1>2. MarkShape'
    BY DEF MarkShape
  <1>3. WrittenShape'
    BY DEF WrittenShape, LinkShape
  <1>4. EndShape'
    BY DEF EndShape
  <1>5. HasMeansWhole'
    BY DEF HasMeansWhole, qobuzcache_has, MarkShape, WrittenShape, EndShape
  <1> QED
    BY <1>1, <1>2, <1>3, <1>4, <1>5

\* What was written is counted, and the marker is still there.
LEMMA ChunkKeepsCard == ASSUME Cleanups = {}, TurnInv, CardInv, NEW x \in Threads, Chunk(x) PROVE CardInv'
  <1> USE TracksAssumption, ThreadsAssumption, SizeAssumption
  <1> USE DEF CardInv, TurnInv, ThreadTypes, SharedTypes, OneHolder, TrackShape,
        Chunk, At, more, shared, Threads, MarkedPlaces, WrittenPlaces,
        Waiting, Opening, Ending, Places, StreamPlaces, FilePlaces, GrowingPlaces, WakePlaces, IdPlaces
  <1>1. LinkShape'
    BY DEF LinkShape
  <1>2. MarkShape'
    BY DEF MarkShape
  <1>3. WrittenShape'
    BY DEF WrittenShape, LinkShape
  <1>4. EndShape'
    BY DEF EndShape
  <1>5. HasMeansWhole'
    BY DEF HasMeansWhole, qobuzcache_has, MarkShape, WrittenShape, EndShape
  <1> QED
    BY <1>1, <1>2, <1>3, <1>4, <1>5

\* However the pump ends, the download still has the turn.
LEMMA PumpStopsKeepsCard == ASSUME Cleanups = {}, TurnInv, CardInv, NEW x \in Threads, PumpStops(x) PROVE CardInv'
  <1> USE TracksAssumption, ThreadsAssumption, SizeAssumption
  <1> USE DEF CardInv, TurnInv, ThreadTypes, SharedTypes, OneHolder, TrackShape,
        PumpStops, Goto, At, card, shared, Threads, MarkedPlaces, WrittenPlaces,
        Waiting, Opening, Ending, Places, StreamPlaces, FilePlaces, GrowingPlaces, WakePlaces, IdPlaces
  <1>1. LinkShape'
    BY DEF LinkShape
  <1>2. MarkShape'
    BY DEF MarkShape
  <1>3. WrittenShape'
    BY DEF WrittenShape, LinkShape
  <1>4. EndShape'
    BY DEF EndShape
  <1>5. HasMeansWhole'
    BY DEF HasMeansWhole, qobuzcache_has, MarkShape, WrittenShape, EndShape
  <1> QED
    BY <1>1, <1>2, <1>3, <1>4, <1>5

\* Hiding leaves the card alone.
LEMMA EndHidesKeepsCard == ASSUME Cleanups = {}, TurnInv, CardInv, NEW x \in Threads, EndHides(x) PROVE CardInv'
  <1> USE TracksAssumption, ThreadsAssumption, SizeAssumption
  <1> USE DEF CardInv, TurnInv, ThreadTypes, SharedTypes, OneHolder, TrackShape,
        EndHides, Goto, At, clear_active, card, download, Threads, MarkedPlaces, WrittenPlaces,
        Waiting, Opening, Ending, Places, StreamPlaces, FilePlaces, GrowingPlaces, WakePlaces, IdPlaces
  <1>1. LinkShape'
    BY DEF LinkShape
  <1>2. MarkShape'
    BY DEF MarkShape
  <1>3. WrittenShape'
    BY DEF WrittenShape, LinkShape
  <1>4. EndShape'
    BY DEF EndShape
  <1>5. HasMeansWhole'
    BY DEF HasMeansWhole, qobuzcache_has, MarkShape, WrittenShape, EndShape
  <1> QED
    BY <1>1, <1>2, <1>3, <1>4, <1>5

\* A file that would not close is not whole.
LEMMA EndClosesKeepsCard == ASSUME Cleanups = {}, TurnInv, CardInv, NEW x \in Threads, EndCloses(x) PROVE CardInv'
  <1> USE TracksAssumption, ThreadsAssumption, SizeAssumption
  <1> USE DEF CardInv, TurnInv, ThreadTypes, SharedTypes, OneHolder, TrackShape,
        EndCloses, Goto, closes_at, card, shared, Threads, MarkedPlaces, WrittenPlaces,
        Waiting, Opening, Ending, Places, StreamPlaces, FilePlaces, GrowingPlaces, WakePlaces, IdPlaces
  <1>1. LinkShape'
    BY DEF LinkShape
  <1>2. MarkShape'
    BY DEF MarkShape
  <1>3. WrittenShape'
    BY DEF WrittenShape, LinkShape
  <1>4. EndShape'
    BY DEF EndShape
  <1>5. HasMeansWhole'
    BY DEF HasMeansWhole, qobuzcache_has, MarkShape, WrittenShape, EndShape
  <1> QED
    BY <1>1, <1>2, <1>3, <1>4, <1>5

\* The file stops growing.
LEMMA EndFinishesKeepsCard == ASSUME Cleanups = {}, TurnInv, CardInv, NEW x \in Threads, EndFinishes(x) PROVE CardInv'
  <1> USE TracksAssumption, ThreadsAssumption, SizeAssumption
  <1> USE DEF CardInv, TurnInv, ThreadTypes, SharedTypes, OneHolder, TrackShape,
        EndFinishes, Goto, At, card, download, Threads, MarkedPlaces, WrittenPlaces,
        Waiting, Opening, Ending, Places, StreamPlaces, FilePlaces, GrowingPlaces, WakePlaces, IdPlaces
  <1>1. LinkShape'
    BY DEF LinkShape
  <1>2. MarkShape'
    BY DEF MarkShape
  <1>3. WrittenShape'
    BY DEF WrittenShape, LinkShape
  <1>4. EndShape'
    BY DEF EndShape
  <1>5. HasMeansWhole'
    BY DEF HasMeansWhole, qobuzcache_has, MarkShape, WrittenShape, EndShape
  <1> QED
    BY <1>1, <1>2, <1>3, <1>4, <1>5

\* Only a file that is whole loses its marker.
LEMMA EndUnmarksKeepsCard == ASSUME Cleanups = {}, TurnInv, CardInv, NEW x \in Threads, EndUnmarks(x) PROVE CardInv'
  <1> USE TracksAssumption, ThreadsAssumption, SizeAssumption
  <1> USE DEF CardInv, TurnInv, ThreadTypes, SharedTypes, OneHolder, TrackShape,
        EndUnmarks, Goto, At, shared, download, Threads, MarkedPlaces, WrittenPlaces,
        Waiting, Opening, Ending, Places, StreamPlaces, FilePlaces, GrowingPlaces, WakePlaces, IdPlaces
  <1>1. LinkShape'
    BY DEF LinkShape
  <1>2. MarkShape'
    BY DEF MarkShape
  <1>3. WrittenShape'
    BY DEF WrittenShape, LinkShape
  <1>4. EndShape'
    BY DEF EndShape
  <1>5. HasMeansWhole'
    BY DEF HasMeansWhole, qobuzcache_has, MarkShape, WrittenShape, EndShape
  <1> QED
    BY <1>1, <1>2, <1>3, <1>4, <1>5

\* What is left is whole, or marked.
LEMMA EndReleasesKeepsCard == ASSUME Cleanups = {}, TurnInv, CardInv, NEW x \in Threads, EndReleases(x) PROVE CardInv'
  <1> USE TracksAssumption, ThreadsAssumption, SizeAssumption
  <1> USE DEF CardInv, TurnInv, ThreadTypes, SharedTypes, OneHolder, TrackShape,
        EndReleases, Leave, Goto, At, card, shared, Threads, MarkedPlaces, WrittenPlaces,
        Waiting, Opening, Ending, Places, StreamPlaces, FilePlaces, GrowingPlaces, WakePlaces, IdPlaces
  <1>1. LinkShape'
    BY DEF LinkShape
  <1>2. MarkShape'
    BY DEF MarkShape
  <1>3. WrittenShape'
    BY DEF WrittenShape, LinkShape
  <1>4. EndShape'
    BY DEF EndShape
  <1>5. HasMeansWhole'
    BY DEF HasMeansWhole, qobuzcache_has, MarkShape, WrittenShape, EndShape
  <1> QED
    BY <1>1, <1>2, <1>3, <1>4, <1>5

\* An abandon leaves the card alone.
LEMMA AbandonKeepsCard == ASSUME Cleanups = {}, TurnInv, CardInv, qobuzcache_abandon_all PROVE CardInv'
  <1> USE TracksAssumption, ThreadsAssumption, SizeAssumption
  <1> USE DEF CardInv, TurnInv, ThreadTypes, SharedTypes, OneHolder, TrackShape,
        qobuzcache_abandon_all, Holders, card, shared, Threads, MarkedPlaces, WrittenPlaces,
        Waiting, Opening, Ending, Places, StreamPlaces, FilePlaces, GrowingPlaces, WakePlaces, IdPlaces
  <1>1. LinkShape'
    BY DEF LinkShape
  <1>2. MarkShape'
    BY DEF MarkShape
  <1>3. WrittenShape'
    BY DEF WrittenShape, LinkShape
  <1>4. EndShape'
    BY DEF EndShape
  <1>5. HasMeansWhole'
    BY DEF HasMeansWhole, qobuzcache_has, MarkShape, WrittenShape, EndShape
  <1> QED
    BY <1>1, <1>2, <1>3, <1>4, <1>5

\* At any moment, the card can be left as it is.
LEMMA PowerLossKeepsCard == ASSUME Cleanups = {}, TurnInv, CardInv, PowerLoss PROVE CardInv'
  <1> USE TracksAssumption, ThreadsAssumption, SizeAssumption
  <1> USE DEF CardInv, TurnInv, ThreadTypes, SharedTypes, OneHolder, TrackShape,
        PowerLoss, card, Threads, MarkedPlaces, WrittenPlaces,
        Waiting, Opening, Ending, Places, StreamPlaces, FilePlaces, GrowingPlaces, WakePlaces, IdPlaces
  <1>1. LinkShape'
    BY DEF LinkShape
  <1>2. MarkShape'
    BY DEF MarkShape
  <1>3. WrittenShape'
    BY DEF WrittenShape, LinkShape
  <1>4. EndShape'
    BY DEF EndShape
  <1>5. HasMeansWhole'
    BY DEF HasMeansWhole, qobuzcache_has, MarkShape, WrittenShape, EndShape
  <1> QED
    BY <1>1, <1>2, <1>3, <1>4, <1>5

\* Whatever a thread does with the turn keeps the invariant.
LEMMA RunsKeepCard == ASSUME Cleanups = {}, TurnInv, CardInv, NEW x \in Threads, Runs(x) PROVE CardInv'
  <1>1. CASE Connect(x)
    BY <1>1, ConnectKeepsCard
  <1>2. CASE ConnectFails(x)
    BY <1>2, ConnectFailsKeepsCard
  <1>3. CASE prune(x)
    BY <1>3, PruneKeepsCard
  <1>4. CASE MakeMarker(x)
    BY <1>4, MakeMarkerKeepsCard
  <1>5. CASE CreateFile(x)
    BY <1>5, CreateFileKeepsCard
  <1>6. CASE CreateFileFails(x)
    BY <1>6, CreateFileFailsKeepsCard
  <1>7. CASE Announce(x)
    BY <1>7, AnnounceKeepsCard
  <1>8. CASE HandOver(x)
    BY <1>8, HandOverKeepsCard
  <1>9. CASE Chunk(x)
    BY <1>9, ChunkKeepsCard
  <1>10. CASE PumpStops(x)
    BY <1>10, PumpStopsKeepsCard
  <1>11. CASE EndHides(x)
    BY <1>11, EndHidesKeepsCard
  <1>12. CASE EndCloses(x)
    BY <1>12, EndClosesKeepsCard
  <1>13. CASE EndFinishes(x)
    BY <1>13, EndFinishesKeepsCard
  <1>14. CASE EndUnmarks(x)
    BY <1>14, EndUnmarksKeepsCard
  <1>15. CASE EndReleases(x)
    BY <1>15, EndReleasesKeepsCard
  <1> QED
    BY <1>1, <1>2, <1>3, <1>4, <1>5, <1>6, <1>7, <1>8, <1>9, <1>10, <1>11, <1>12, <1>13, <1>14, <1>15 DEF Runs, Opens, Ends

\* With no cleanup, what a download leaves on the card counts as there only when
\* it is whole, whatever is abandoned, fails or loses power on the way.
THEOREM WholeHolds == ASSUME Cleanups = {} PROVE Spec => []HasMeansWhole
  <1>1. TurnInv /\ CardInv /\ [Next]_vars => CardInv'
    <2> SUFFICES ASSUME TurnInv, CardInv, [Next]_vars PROVE CardInv'
      OBVIOUS
    <2>1. CASE UNCHANGED vars
      BY <2>1 DEF vars, card, shared, download, CardInv, LinkShape, MarkShape, WrittenShape, EndShape,
            HasMeansWhole, qobuzcache_has
    <2>2. ASSUME NEW s \in Starters, TakeTurn(s) PROVE CardInv'
      BY <2>2, TakeTurnKeepsCard
    <2>3. ASSUME NEW s \in Starters, NEW t \in Tracks, qobuzcache_start(s, t) PROVE CardInv'
      BY <2>3, StartKeepsCard
    <2>4. ASSUME NEW x \in Threads, Runs(x) PROVE CardInv'
      BY <2>4, RunsKeepCard
    <2>5. CASE qobuzcache_abandon_all
      BY <2>5, AbandonKeepsCard
    <2>6. CASE PowerLoss
      BY <2>6, PowerLossKeepsCard
    <2>7. ~Sweep /\ ~qobuzcache_clear
      BY DEF Sweep, qobuzcache_clear
    <2> QED
      BY <2>1, <2>2, <2>3, <2>4, <2>5, <2>6, <2>7 DEF Next
  <1>2. CardInv => HasMeansWhole
    BY DEF CardInv
  <1> QED
    BY InitCard, TurnHolds, <1>1, <1>2, PTL DEF Spec
============================================================================
