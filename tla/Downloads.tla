----------------------------- MODULE Downloads -----------------------------
(***************************************************************************)
(* The tracks that are downloaded to the card before and while they play:  *)
(* streaming/qobuzcache.c with the turn of streaming/streamturn.c.         *)
(* tidalcache.c and podcastcache.c are built alike and share the turn.     *)
(*                                                                         *)
(* A page's worker and its prefetch thread both start downloads.  A start  *)
(* returns when there is enough to play and leaves the rest to a thread of *)
(* the download's own.  What is on the card outlives a loss of power, in   *)
(* the order in which it was written.                                      *)
(***************************************************************************)
EXTENDS Integers, FiniteSets

CONSTANTS
    Tracks,
    NoTrack,
    Starters,       \* the threads that call qobuzcache_start()
    DownloadThread, \* the thread that a start leaves behind
    Size,           \* chunks in a whole track
    Cleanups        \* which of "prune", "sweep" and "clear" may run

ASSUME TracksAssumption == NoTrack \notin Tracks
ASSUME ThreadsAssumption == DownloadThread \notin Starters
ASSUME SizeAssumption == Size \in Nat \ {0}
ASSUME CleanupsAssumption == Cleanups \subseteq {"prune", "sweep", "clear"}

Threads == Starters \cup {DownloadThread}
NoStream == "none"

ASSUME NoStreamAssumption == NoStream \notin Threads

VARIABLES
    \* On the card.
    disk,       \* chunks of each track's file
    markers,    \* the tracks whose file has a marker: it is not complete
    \* Shared by the threads.
    busy,       \* the turn is taken
    growing,    \* the files announced to growfile.c
    active_track_id,
    active_stream,  \* the thread whose stream an abandon would wake
    \* Each thread, and the download_t it works on.
    pc,
    track,
    done,
    ok,         \* how it ended
    streams,    \* the threads whose stream is open
    linked,     \* the threads whose open file still has its name
    abandoned   \* the threads whose generation is no longer the current one

card == <<disk, markers>>
shared == <<growing, active_track_id, active_stream>>
download == <<track, done, ok, streams, linked, abandoned>>
vars == <<card, busy, shared, pc, download>>

Waiting == {"idle", "asked"}
Opening == {"turn", "connected", "pruned", "marked", "created"}
Ending == {"ending", "hidden", "closed", "finished", "unmarked"}
Places == Waiting \cup Opening \cup {"pump"} \cup Ending

Init ==
    /\ disk = [t \in Tracks |-> 0] /\ markers = {}
    /\ busy = FALSE /\ growing = {}
    /\ active_track_id = NoTrack /\ active_stream = NoStream
    /\ pc = [x \in Threads |-> "idle"] /\ track = [x \in Threads |-> NoTrack]
    /\ done = [x \in Threads |-> 0] /\ ok = [x \in Threads |-> FALSE]
    /\ streams = {} /\ linked = {} /\ abandoned = {}

qobuzcache_has(t) == t \notin markers /\ disk[t] > 0

Goto(x, place) == pc' = [pc EXCEPT ![x] = place]
At(x, place) == pc[x] = place
Holders == {x \in Threads : pc[x] \notin Waiting}

\* Back to waiting for work; its download_t is freed.
Leave(x) ==
    /\ Goto(x, "idle")
    /\ track' = [track EXCEPT ![x] = NoTrack] /\ done' = [done EXCEPT ![x] = 0]
    /\ ok' = [ok EXCEPT ![x] = FALSE]
    /\ streams' = streams \ {x} /\ linked' = linked \ {x} /\ abandoned' = abandoned \ {x}

-----------------------------------------------------------------------------
(***************************************************************************)
(* A start: qobuzcache_start() up to the first chunk.                      *)
(***************************************************************************)

\* A track that is there, or on its way, is not started again.
qobuzcache_start(s, t) ==
    /\ At(s, "idle") /\ ~qobuzcache_has(t) /\ t \notin growing
    /\ Goto(s, "asked") /\ track' = [track EXCEPT ![s] = t]
    /\ UNCHANGED <<card, busy, shared, done, ok, streams, linked, abandoned>>

turn_is_free == ~busy

\* busy_acquire(), then the generation, then the id.
TakeTurn(s) ==
    /\ At(s, "asked") /\ turn_is_free
    /\ busy' = TRUE /\ active_track_id' = track[s]
    /\ Goto(s, "turn")
    /\ UNCHANGED <<card, growing, active_stream, download>>

clear_active(t) == IF active_track_id = t THEN NoTrack ELSE active_track_id

busy_kept == busy   \* Faulty variant: a failed start keeps the turn.
busy_released == FALSE

GiveUp(s) ==
    /\ active_track_id' = clear_active(track[s]) /\ busy' = busy_released
    /\ Leave(s)
    /\ UNCHANGED <<card, growing, active_stream>>

Connect(s) ==
    /\ At(s, "turn")
    /\ streams' = streams \cup {s} /\ Goto(s, "connected")
    /\ UNCHANGED <<card, busy, shared, track, done, ok, linked, abandoned>>

ConnectFails(s) == At(s, "turn") /\ GiveUp(s)

\* What a cleanup leaves behind: the files and the markers it spares.
CleanTo(files, marks) ==
    /\ disk' = [t \in Tracks |-> IF t \in files THEN disk[t] ELSE 0]
    /\ markers' = markers \cap marks
    /\ linked' = {x \in linked : track[x] \in files}

spared_none == {}   \* Faulty variant: a file that is coming down is taken like any other.
spared == growing

\* prune() goes by the entries of the folder, oldest first, and a marker is one
\* of them, of no size: it goes on until a file's length has made room.  The
\* dates are no guide to the order.
prune(s) ==
    /\ At(s, "connected") /\ Goto(s, "pruned")
    /\ \/ UNCHANGED <<card, linked>>
       \/ /\ "prune" \in Cleanups
          /\ \E files \in SUBSET Tracks, marks \in SUBSET Tracks :
                /\ spared \subseteq files /\ spared \subseteq marks
                /\ \E t \in Tracks \ files : disk[t] > 0
                /\ CleanTo(files, marks)
    /\ UNCHANGED <<busy, shared, track, done, ok, streams, abandoned>>

MakeMarker(s) ==
    /\ At(s, "pruned")
    /\ markers' = markers \cup {track[s]} /\ Goto(s, "marked")
    /\ UNCHANGED <<disk, busy, shared, download>>

\* Opening for writing empties the file that is there.
CreateFile(s) ==
    /\ At(s, "marked")
    /\ disk' = [disk EXCEPT ![track[s]] = 0]
    /\ done' = [done EXCEPT ![s] = 0] /\ linked' = linked \cup {s}
    /\ Goto(s, "created")
    /\ UNCHANGED <<markers, busy, shared, track, ok, streams, abandoned>>

CreateFileFails(s) == At(s, "marked") /\ GiveUp(s)

Announce(s) ==
    /\ At(s, "created")
    /\ active_stream' = s /\ active_track_id' = track[s]
    /\ growing' = growing \cup {track[s]}
    /\ Goto(s, "pump")
    /\ UNCHANGED <<card, busy, download>>

\* Enough to play, or all that was waited for: the rest is a thread's.
HandOver(s) ==
    /\ At(s, "pump") /\ s \in Starters
    /\ pc' = [pc EXCEPT ![s] = "idle", ![DownloadThread] = "pump"]
    /\ track' = [track EXCEPT ![s] = NoTrack, ![DownloadThread] = track[s]]
    /\ done' = [done EXCEPT ![s] = 0, ![DownloadThread] = done[s]]
    /\ LET moved(S) == IF s \in S THEN (S \ {s}) \cup {DownloadThread} ELSE S \ {DownloadThread} IN
          streams' = moved(streams) /\ linked' = moved(linked) /\ abandoned' = moved(abandoned)
    /\ active_stream' = IF active_stream = s THEN DownloadThread ELSE active_stream
    /\ UNCHANGED <<card, busy, growing, active_track_id, ok>>

-----------------------------------------------------------------------------
(***************************************************************************)
(* The download: download_pump() and download_end(), on either thread.     *)
(***************************************************************************)

more_unbounded(x) == TRUE   \* Faulty variant: more is taken than was promised.
more(x) == done[x] < Size

\* An abandon that falls between the look at the generation and the end of the
\* read is, to everybody else, one that falls just after it.
Chunk(x) ==
    /\ At(x, "pump") /\ x \notin abandoned /\ more(x)
    /\ done' = [done EXCEPT ![x] = @ + 1]
    /\ disk' = IF x \in linked THEN [disk EXCEPT ![track[x]] = done[x] + 1] ELSE disk
    /\ UNCHANGED <<markers, busy, shared, pc, track, ok, streams, linked, abandoned>>

\* The stream ended, at the promised length or before it; or it was abandoned,
\* or the network, the card or the new thread failed.
PumpStops(x) ==
    /\ At(x, "pump")
    /\ \E finished \in BOOLEAN :
          /\ finished => x \notin abandoned
          /\ ok' = [ok EXCEPT ![x] = finished /\ done[x] = Size]
    /\ Goto(x, "ending")
    /\ UNCHANGED <<card, busy, shared, track, done, streams, linked, abandoned>>

\* Out of sight of an abandon first, and then closed.
EndHides(x) ==
    /\ At(x, "ending")
    /\ active_stream' = IF active_stream = x THEN NoStream ELSE active_stream
    /\ active_track_id' = clear_active(track[x])
    /\ Goto(x, "hidden")
    /\ UNCHANGED <<card, busy, growing, download>>

closes_early == {"ending"}   \* Faulty variant: closed while an abandon can still reach it.
closes_at == {"hidden"}

\* Closing the file writes what stdio still holds, and may fail.
EndCloses(x) ==
    /\ pc[x] \in closes_at
    /\ streams' = streams \ {x} /\ linked' = linked \ {x}
    /\ \/ UNCHANGED ok
       \/ ok' = [ok EXCEPT ![x] = FALSE]
    /\ Goto(x, "closed")
    /\ UNCHANGED <<card, busy, shared, track, done, abandoned>>

EndFinishes(x) ==
    /\ At(x, "closed")
    /\ growing' = growing \ {track[x]} /\ Goto(x, "finished")
    /\ UNCHANGED <<card, busy, active_track_id, active_stream, download>>

EndUnmarks(x) ==
    /\ At(x, "finished")
    /\ markers' = IF ok[x] THEN markers \ {track[x]} ELSE markers
    /\ Goto(x, "unmarked")
    /\ UNCHANGED <<disk, busy, shared, download>>

EndReleases(x) ==
    /\ At(x, "unmarked")
    /\ busy' = FALSE /\ Leave(x)
    /\ UNCHANGED <<card, shared>>

-----------------------------------------------------------------------------
(***************************************************************************)
(* What the rest of the program, and the world, do to them.                *)
(***************************************************************************)

\* qobuzcache_abandon_all(): every download that has taken its generation is
\* told; one that still waits for the turn is not.
qobuzcache_abandon_all ==
    /\ abandoned' = Holders
    /\ UNCHANGED <<card, busy, shared, pc, track, done, ok, streams, linked>>

\* clear_files(): a sweep spares what is coming down and what it is told to; a
\* clear that the user asks for spares nothing.
Sweep ==
    /\ "sweep" \in Cleanups
    /\ \E S \in SUBSET Tracks : spared \subseteq S /\ CleanTo(S, S)
    /\ UNCHANGED <<busy, shared, pc, track, done, ok, streams, abandoned>>

qobuzcache_clear ==
    /\ "clear" \in Cleanups
    /\ CleanTo({}, {})
    /\ UNCHANGED <<busy, shared, pc, track, done, ok, streams, abandoned>>

PowerLoss ==
    /\ busy' = FALSE /\ growing' = {} /\ active_track_id' = NoTrack /\ active_stream' = NoStream
    /\ pc' = [x \in Threads |-> "idle"] /\ track' = [x \in Threads |-> NoTrack]
    /\ done' = [x \in Threads |-> 0] /\ ok' = [x \in Threads |-> FALSE]
    /\ streams' = {} /\ linked' = {} /\ abandoned' = {}
    /\ UNCHANGED card

Opens(s) ==
    \/ Connect(s) \/ ConnectFails(s) \/ prune(s) \/ MakeMarker(s)
    \/ CreateFile(s) \/ CreateFileFails(s) \/ Announce(s) \/ HandOver(s)

Ends(x) == EndHides(x) \/ EndCloses(x) \/ EndFinishes(x) \/ EndUnmarks(x) \/ EndReleases(x)

\* What a thread does once it has the turn.
Runs(x) == Opens(x) \/ Chunk(x) \/ PumpStops(x) \/ Ends(x)

Next ==
    \/ \E s \in Starters : TakeTurn(s) \/ \E t \in Tracks : qobuzcache_start(s, t)
    \/ \E x \in Threads : Runs(x)
    \/ qobuzcache_abandon_all \/ Sweep \/ qobuzcache_clear \/ PowerLoss

Spec == Init /\ [][Next]_vars

\* Every thread runs, and every call it blocks in has a timeout.
FairSpec == Spec /\ \A x \in Threads : WF_vars(Runs(x))

-----------------------------------------------------------------------------
(***************************************************************************)
(* What must hold of it.                                                   *)
(***************************************************************************)

\* Every variable keeps its type.
TypeOK ==
    /\ disk \in [Tracks -> 0..Size] /\ markers \subseteq Tracks
    /\ busy \in BOOLEAN /\ growing \subseteq Tracks
    /\ active_track_id \in Tracks \cup {NoTrack} /\ active_stream \in Threads \cup {NoStream}
    /\ pc \in [Threads -> Places] /\ track \in [Threads -> Tracks \cup {NoTrack}]
    /\ done \in [Threads -> 0..Size] /\ ok \in [Threads -> BOOLEAN]
    /\ streams \subseteq Threads /\ linked \subseteq Threads /\ abandoned \subseteq Threads

\* One download at a time, whoever started it, and all that is open, announced
\* or growing is its own.
OneDownload ==
    /\ \A x, y \in Holders : x = y
    /\ busy <=> Holders /= {}
    /\ streams \cup linked \subseteq Holders
    /\ growing \subseteq {track[x] : x \in Holders}

\* The id that is published is that of a track being downloaded: a start that
\* fails does not leave its own lying, for whoever believes it waits for a file
\* that is not coming.
IdIsDownloading == active_track_id /= NoTrack => \E x \in Holders : track[x] = active_track_id

\* An abandon never wakes a stream that has been closed and freed.
WakeIsSafe == active_stream /= NoStream => active_stream \in streams

\* All of it together: what is open, announced or published belongs to the one
\* download that has the turn, through every failure and every order of closing.
StreamIsOwned == OneDownload /\ IdIsDownloading /\ WakeIsSafe

\* A file that is being read while it grows is not emptied or deleted under
\* its reader, by a start, by a prune or by a sweep.  A clear spares nothing.
GrowingIsKept ==
    [][qobuzcache_clear \/ \A t \in growing \cap growing' : disk'[t] >= disk[t]]_vars

\* The turn comes round: no start that fails, no abandon and no download that
\* dies keeps it.
TurnIsReleased == busy ~> ~busy

\* "True if the track has been downloaded in full."
HasMeansWhole == \A t \in Tracks : qobuzcache_has(t) => disk[t] = Size
=============================================================================
