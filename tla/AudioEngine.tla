---------------------------- MODULE AudioEngine ----------------------------
(***************************************************************************)
(* The playback engine of system/audio/audio.c: one playback thread that   *)
(* plays one file at a time, and the transport calls (play, pause, stop,   *)
(* seek, suspend freeze) that other threads make while it does.            *)
(*                                                                         *)
(* One action stands for one hold of audio_mutex, or for one stretch of    *)
(* the playback thread between two holds.  The thread's place in its code  *)
(* is pc.  What it decodes, filters and writes is abstracted to a position *)
(* in the track, counted from 0 to Len; which device, format and route are *)
(* used is abstracted to the outcome of the call that opens the stream.    *)
(* play_wav_file() and play_decoded_file() are the same loop; where they   *)
(* differ the file's membership of Wav decides.                            *)
(***************************************************************************)
EXTENDS Integers, FiniteSets

CONSTANTS
    Files,      \* the tracks that can be asked for
    Wav,        \* those among them that play_wav_file() plays
    Growing,    \* those still downloading
    Len,        \* the length of every track, in blocks
    StartsAt,   \* the positions play_at and play_paused are called with
    Faults,     \* the calls that may fail, a subset of FaultKinds
    NoFile      \* no path

FaultKinds == {"open", "device", "memory", "reroute", "read", "write"}

ASSUME FilesAssumption == NoFile \notin Files /\ Wav \subseteq Files /\ Growing \subseteq Files
ASSUME LenAssumption == Len \in Nat /\ Len > 0
ASSUME StartsAssumption == StartsAt \subseteq 0..Len
ASSUME FaultsAssumption == Faults \subseteq FaultKinds

Positions == 0..Len
NoFloor == -1                   \* progress_floor_secs = -1.0
NoRestart == [path |-> NoFile, pos |-> 0]
Bookmarks == [path : Files \cup {NoFile}, pos : Positions]
Commands == {"PLAY", "STOP", "PAUSE", "RESUME"}
Statuses == {"STOPPED", "PLAYING", "PAUSED"}

\* Threads that read the status before they pause: the interface (its button,
\* the sleep timer, an unplugged output) and the AirPlay receiver.
Pausers == {"interface", "airplay"}

VARIABLES
    \* Guarded by audio_mutex: the request channel and the reported state.
    audio_command, playback_status, play_request, current_filepath,
    write_fail_retry_used, track_completed, hold_flush_request,
    seek_request, seek_target, progress_current, progress_floor,
    restart_fresh,          \* the bookmark a freeze armed, or NoRestart
    \* Flags read without the mutex.
    playback_context_active, pcm_device_open, held_pcm,
    \* The playback thread: its place, and the locals of the play routine.
    pc, filepath, pcm_handle, is_paused, played, played_to_the_end, target,
    queue_from,             \* where what the stream may still hold unheard begins
    \* The other threads.
    pausing,                \* who has read PLAYING and is about to pause
    ui,                     \* the interface thread's place in a suspend
    frozen                  \* what audio_suspend_freeze() captured

request == <<audio_command, playback_status, play_request, current_filepath, write_fail_retry_used>>
seeking == <<seek_request, seek_target>>
bar     == <<progress_current, progress_floor>>
flags   == <<playback_context_active, pcm_device_open, held_pcm>>
track   == <<filepath, pcm_handle, is_paused, played, played_to_the_end, target, queue_from>>
callers == <<pausing, ui, frozen>>
vars == <<request, track_completed, hold_flush_request, seeking, bar, restart_fresh, flags, pc, track, callers>>

\* pcm_handle: no stream, a stream opened since the last pause, or one that
\* pause_stop_stream() has stopped.
Streams == {"none", "live", "stopped"}

ThreadPlaces == {"idle", "flush", "closing", "open", "device", "loop", "seek", "seekwait", "rewind",
                 "read", "empty", "ended", "failed", "giveup", "write", "exit", "close", "leave"}

Init ==
    /\ audio_command = "STOP" /\ playback_status = "STOPPED"
    /\ play_request = FALSE /\ current_filepath = NoFile /\ write_fail_retry_used = FALSE
    /\ track_completed = FALSE /\ hold_flush_request = FALSE
    /\ seek_request = FALSE /\ seek_target = 0
    /\ progress_current = 0 /\ progress_floor = NoFloor
    /\ restart_fresh = NoRestart
    /\ playback_context_active = FALSE /\ pcm_device_open = FALSE /\ held_pcm = FALSE
    /\ pc = "idle" /\ filepath = NoFile /\ pcm_handle = "none" /\ is_paused = FALSE
    /\ played = 0 /\ played_to_the_end = FALSE /\ target = 0 /\ queue_from = 0
    /\ pausing = {} /\ ui = "free" /\ frozen = NoRestart

-----------------------------------------------------------------------------
(***************************************************************************)
(* The playback thread.                                                    *)
(***************************************************************************)

Goto(place) == pc' = place

\* lock; audio_command = STOP; playback_status = STOPPED; unlock -- how every
\* failure of the play routine ends.
HaltTransport ==
    /\ audio_command' = "STOP" /\ playback_status' = "STOPPED"
    /\ UNCHANGED <<play_request, current_filepath, write_fail_retry_used>>

\* Faulty variant: the request is not cleared when it is taken.
PickUp_twice ==
    /\ pc = "idle" /\ play_request
    /\ filepath' = current_filepath
    /\ playback_context_active' = TRUE
    /\ Goto("open")
    /\ UNCHANGED <<request, track_completed, hold_flush_request, seeking, bar, restart_fresh, pcm_device_open,
                   held_pcm, pcm_handle, is_paused, played, played_to_the_end, queue_from, target, callers>>

\* The top of playback_thread_func(): a queued request is taken.
PickUp ==
    /\ pc = "idle" /\ play_request
    /\ play_request' = FALSE /\ filepath' = current_filepath
    /\ playback_context_active' = TRUE
    /\ Goto("open")
    /\ UNCHANGED <<audio_command, playback_status, current_filepath, write_fail_retry_used, track_completed,
                   hold_flush_request, seeking, bar, restart_fresh, pcm_device_open, held_pcm, pcm_handle,
                   is_paused, played, played_to_the_end, queue_from, target, callers>>

HoldTimesOut_unbounded == FALSE   \* Faulty variant: the wait with a held stream has no deadline.

\* Idle with no request: a suspend wants the held stream closed now, ...
FlushRequested ==
    /\ pc = "idle" /\ ~play_request /\ hold_flush_request
    /\ hold_flush_request' = FALSE
    /\ Goto("flush")
    /\ UNCHANGED <<request, track_completed, seeking, bar, restart_fresh, flags, track, callers>>

\* ... or the next track did not come within GAPLESS_HOLD_MS.  A wait that has
\* timed out does not look again whether a request came in that same instant.
HoldTimesOut ==
    /\ pc = "idle" /\ held_pcm
    /\ Goto("flush")
    /\ UNCHANGED <<request, track_completed, hold_flush_request, seeking, bar, restart_fresh, flags, track,
                   callers>>

\* gapless_release() from the idle loop: the handle is taken out of held_pcm
\* first, and the device is reported closed only once it has drained.
TakeHeldOut ==
    /\ pc = "flush"
    /\ held_pcm' = FALSE
    /\ Goto(IF held_pcm THEN "closing" ELSE "idle")
    /\ UNCHANGED <<request, track_completed, hold_flush_request, seeking, bar, restart_fresh,
                   playback_context_active, pcm_device_open, track, callers>>

\* Faulty variant: the device is closed and still reported open.
CloseHeld_unreported ==
    /\ pc = "closing"
    /\ Goto("idle")
    /\ UNCHANGED <<request, track_completed, hold_flush_request, seeking, bar, restart_fresh, flags, track,
                   callers>>

CloseHeld ==
    /\ pc = "closing"
    /\ pcm_device_open' = FALSE
    /\ Goto("idle")
    /\ UNCHANGED <<request, track_completed, hold_flush_request, seeking, bar, restart_fresh,
                   playback_context_active, held_pcm, track, callers>>

\* decoder_open() or parse_wav() refused the file, after every retry.
OpenFails ==
    /\ pc = "open" /\ "open" \in Faults
    /\ HaltTransport
    /\ Goto("leave")
    /\ UNCHANGED <<track_completed, hold_flush_request, seeking, bar, restart_fresh, flags, track, callers>>

opening_position == IF seek_request THEN seek_target ELSE 0

OpenTrack ==
    /\ pc = "open"
    /\ progress_current' = opening_position /\ progress_floor' = NoFloor
    /\ playback_status' = IF audio_command = "PAUSE" THEN "PAUSED" ELSE "PLAYING"
    /\ Goto("device")
    /\ UNCHANGED <<audio_command, play_request, current_filepath, write_fail_retry_used, track_completed,
                   hold_flush_request, seeking, restart_fresh, flags, track, callers>>

\* gapless_take() empties held_pcm, and gapless_release() closes a stream that
\* does not suit.
held_pcm_emptied == held_pcm' = FALSE

StartTrack ==
    /\ held_pcm_emptied
    /\ pcm_handle' = "live" /\ pcm_device_open' = TRUE
    /\ played' = 0 /\ queue_from' = 0 /\ is_paused' = FALSE /\ played_to_the_end' = FALSE
    /\ Goto("loop")
    /\ UNCHANGED <<request, track_completed, hold_flush_request, seeking, bar, restart_fresh,
                   playback_context_active, filepath, target, callers>>

\* gapless_take(): the held stream suits this track, and becomes its own.
ReuseHeldStream == pc = "device" /\ held_pcm /\ StartTrack

\* No held stream, or one that does not suit and is closed first; then a fresh open.
OpenStream == pc = "device" /\ StartTrack

OpenStreamFails ==
    /\ pc = "device" /\ "device" \in Faults
    /\ HaltTransport
    /\ held_pcm' = FALSE
    /\ pcm_device_open' = (pcm_device_open /\ ~held_pcm)
    /\ Goto("leave")
    /\ UNCHANGED <<track_completed, hold_flush_request, seeking, bar, restart_fresh, playback_context_active,
                   track, callers>>

\* The period buffer cannot be allocated: the stream is closed and the routine
\* returns, leaving pcm_device_open as open_pcm_device() set it.
NoBuffer ==
    /\ pc = "device" /\ "memory" \in Faults
    /\ HaltTransport
    /\ held_pcm' = FALSE /\ pcm_device_open' = TRUE
    /\ Goto("leave")
    /\ UNCHANGED <<track_completed, hold_flush_request, seeking, bar, restart_fresh, playback_context_active,
                   track, callers>>

-----------------------------------------------------------------------------
\* The loop of the play routine.  Its top looks, in this order, for a stop or
\* another track, a seek, a pause.

Replaced_newOnly == play_request              \* Faulty variant: a stop is not looked for.

Replaced == audio_command = "STOP" \/ play_request

SeekDue_first == seek_request   \* Faulty variant: the seek is looked for before the new track.

SeekDue == ~Replaced /\ seek_request

LeaveLoop ==
    /\ pc = "loop" /\ Replaced
    /\ Goto("exit")
    /\ UNCHANGED <<request, track_completed, hold_flush_request, seeking, bar, restart_fresh, flags, track,
                   callers>>

TakeSeek ==
    /\ pc = "loop" /\ SeekDue
    /\ seek_request' = FALSE /\ target' = seek_target
    /\ Goto("seek")
    /\ UNCHANGED <<request, track_completed, hold_flush_request, seek_target, bar, restart_fresh, flags,
                   filepath, pcm_handle, is_paused, played, played_to_the_end, queue_from, callers>>

\* The point asked for has not been downloaded: the bar is parked on it and the
\* thread waits for the download, or for any command.
SeekWaits ==
    /\ pc = "seek" /\ filepath \in Growing \ Wav
    /\ progress_current' = target
    /\ Goto("seekwait")
    /\ UNCHANGED <<request, track_completed, hold_flush_request, seeking, progress_floor, restart_fresh, flags,
                   track, callers>>

\* Where a seek can land: on its target, short of it while the file is still
\* growing, or back where the decoder was when the decoder refuses.
Landings ==
    CASE filepath \in Wav     -> {target}
      [] filepath \in Growing -> 0..target \cup {played}
      [] OTHER                -> {target, played}

StillPaused_never == FALSE   \* Faulty variant: any seek ends the pause.

\* A seek takes a paused track out of its pause when there is a stream to
\* flush; the top of the loop then pauses it again.
StillPaused == is_paused /\ pcm_handle = "none"

FinishSeek ==
    /\ pc \in {"seek", "seekwait"}
    /\ \E landing \in Landings : played' = landing /\ progress_current' = landing /\ queue_from' = landing
    /\ is_paused' = StillPaused /\ target' = 0
    /\ Goto("loop")
    /\ UNCHANGED <<request, track_completed, hold_flush_request, seeking, progress_floor, restart_fresh, flags,
                   filepath, pcm_handle, played_to_the_end, callers>>

EnterPause ==
    /\ pc = "loop" /\ ~Replaced /\ ~seek_request /\ audio_command = "PAUSE" /\ ~is_paused
    /\ is_paused' = TRUE /\ playback_status' = "PAUSED"
    /\ pcm_handle' = IF pcm_handle = "none" THEN "none" ELSE "stopped"
    /\ Goto("rewind")
    /\ UNCHANGED <<audio_command, play_request, current_filepath, write_fail_retry_used, track_completed,
                   hold_flush_request, seeking, bar, restart_fresh, flags, filepath, played, played_to_the_end,
                   queue_from, target, callers>>

\* What was queued and never heard is wound back over; the bar keeps its place
\* through the floor.
RewindUnheard ==
    /\ pc = "rewind"
    /\ \E resume \in queue_from..played :
          IF resume = played
          THEN UNCHANGED <<played, bar>>
          ELSE /\ played' = resume /\ progress_current' = resume
               /\ progress_floor' = progress_current
    /\ Goto("loop")
    /\ UNCHANGED <<request, track_completed, hold_flush_request, seeking, restart_fresh, flags, filepath,
                   pcm_handle, is_paused, played_to_the_end, queue_from, target, callers>>

\* A long pause, or someone who wants the device: it is handed back.
ReleaseWhilePaused ==
    /\ pc = "loop" /\ ~Replaced /\ ~seek_request /\ audio_command = "PAUSE" /\ is_paused
    /\ pcm_handle /= "none"
    /\ pcm_handle' = "none" /\ pcm_device_open' = FALSE
    /\ UNCHANGED <<request, track_completed, hold_flush_request, seeking, bar, restart_fresh,
                   playback_context_active, held_pcm, pc, filepath, is_paused, played, played_to_the_end,
                   queue_from, target, callers>>

\* Faulty variant: whatever is not a pause plays.
MayPlay_ignoringStop == pc = "loop" /\ ~play_request /\ ~seek_request /\ audio_command /= "PAUSE"

MayPlay == pc = "loop" /\ ~Replaced /\ ~seek_request /\ audio_command \in {"PLAY", "RESUME"}

\* RESUME is consumed, and an unpause reopens the device, all under audio_mutex.
Unpause ==
    /\ MayPlay /\ is_paused
    /\ audio_command' = "PLAY" /\ playback_status' = "PLAYING"
    /\ is_paused' = FALSE /\ pcm_handle' = "live" /\ queue_from' = played /\ pcm_device_open' = TRUE
    /\ Goto("read")
    /\ UNCHANGED <<play_request, current_filepath, write_fail_retry_used, track_completed, hold_flush_request,
                   seeking, bar, restart_fresh, playback_context_active, held_pcm, filepath, played,
                   played_to_the_end, target, callers>>

UnpauseFails ==
    /\ MayPlay /\ is_paused /\ {"device", "memory"} \cap Faults /= {}
    /\ HaltTransport
    /\ pcm_handle' = "none" /\ pcm_device_open' = FALSE
    /\ Goto("exit")
    /\ UNCHANGED <<track_completed, hold_flush_request, seeking, bar, restart_fresh, playback_context_active,
                   held_pcm, filepath, is_paused, played, played_to_the_end, queue_from, target, callers>>

KeepPlaying ==
    /\ MayPlay /\ ~is_paused
    /\ audio_command' = "PLAY"
    /\ Goto("read")
    /\ UNCHANGED <<playback_status, play_request, current_filepath, write_fail_retry_used, track_completed,
                   hold_flush_request, seeking, bar, restart_fresh, flags, track, callers>>

\* pcm_reroute(): the jack moved, and the stream is opened again on the new
\* route -- or cannot be.
RerouteFails ==
    /\ pc = "read" /\ "reroute" \in Faults
    /\ HaltTransport
    /\ pcm_handle' = "none"
    /\ Goto("exit")
    /\ UNCHANGED <<track_completed, hold_flush_request, seeking, bar, restart_fresh, flags, filepath, is_paused,
                   played, played_to_the_end, queue_from, target, callers>>

Reroute ==
    /\ pc = "read"
    /\ pcm_handle' = "live" /\ queue_from' = played /\ pcm_device_open' = TRUE
    /\ UNCHANGED <<request, track_completed, hold_flush_request, seeking, bar, restart_fresh,
                   playback_context_active, held_pcm, pc, filepath, is_paused, played, played_to_the_end, target,
                   callers>>

BlocksLeft_offByOne == played <= Len   \* Faulty variant.
BlocksLeft == played < Len

ReadBlock ==
    /\ pc = "read" /\ BlocksLeft
    /\ Goto("write")
    /\ UNCHANGED <<request, track_completed, hold_flush_request, seeking, bar, restart_fresh, flags, track,
                   callers>>

\* Nothing came out, from a file at the edge of its download: after the wait
\* the loop goes round again.
ReadStarves ==
    /\ pc = "read" /\ filepath \in Growing \ Wav
    /\ Goto("loop")
    /\ UNCHANGED <<request, track_completed, hold_flush_request, seeking, bar, restart_fresh, flags, track,
                   callers>>

\* Nothing came out: the end of the file, or a card that cannot be read.  Only
\* the decoded path asks whether a command made the read give up.
ReadNothing ==
    /\ pc = "read" /\ (played = Len \/ "read" \in Faults)
    /\ Goto(IF filepath \in Wav THEN "ended" ELSE "empty")
    /\ UNCHANGED <<request, track_completed, hold_flush_request, seeking, bar, restart_fresh, flags, track,
                   callers>>

\* playback_reader_should_abort()
CommandPending == audio_command /= "PLAY" \/ play_request \/ seek_request

CheckEmptyRead ==
    /\ pc = "empty"
    /\ Goto(IF CommandPending THEN "loop" ELSE "ended")
    /\ UNCHANGED <<request, track_completed, hold_flush_request, seeking, bar, restart_fresh, flags, track,
                   callers>>

\* A file that gave nothing at all has not been played.
NothingDecoded ==
    /\ pc = "ended" /\ played = 0
    /\ Goto("failed")
    /\ UNCHANGED <<request, track_completed, hold_flush_request, seeking, bar, restart_fresh, flags, track,
                   callers>>

cut_short_never == FALSE   \* Faulty variant: every empty read is an end.
cut_short == filepath \notin Wav /\ played < Len
natural_end == audio_command /= "STOP" /\ ~play_request /\ ~cut_short

EndOfTrack ==
    /\ pc = "ended" /\ played > 0
    /\ track_completed' = natural_end /\ played_to_the_end' = natural_end
    /\ HaltTransport
    /\ Goto("exit")
    /\ UNCHANGED <<hold_flush_request, seeking, bar, restart_fresh, flags, filepath, pcm_handle, is_paused,
                   played, queue_from, target, callers>>

WriteInterrupted ==
    /\ pc = "write" /\ CommandPending
    /\ Goto("loop")
    /\ UNCHANGED <<request, track_completed, hold_flush_request, seeking, bar, restart_fresh, flags, track,
                   callers>>

\* pcm_write_recover() took the block, perhaps after opening the device again,
\* and report_position() moves the bar.
WriteBlock ==
    /\ pc = "write" /\ pcm_handle /= "none"
    /\ pcm_handle' \in {pcm_handle, "live"}
    /\ played' = played + 1
    /\ progress_current' = IF seek_request THEN progress_current ELSE played'
    /\ Goto("loop")
    /\ UNCHANGED <<request, track_completed, hold_flush_request, seeking, progress_floor, restart_fresh, flags,
                   filepath, is_paused, played_to_the_end, queue_from, target, callers>>

\* Beyond recovery, with the stream closed or not.
WriteFails ==
    /\ pc = "write" /\ "write" \in Faults
    /\ pcm_handle' \in {"none", pcm_handle}
    /\ Goto("failed")
    /\ UNCHANGED <<request, track_completed, hold_flush_request, seeking, bar, restart_fresh, flags, filepath,
                   is_paused, played, played_to_the_end, queue_from, target, callers>>

\* retry_track_once()
RetryTrack ==
    /\ pc = "failed" /\ ~write_fail_retry_used
    /\ write_fail_retry_used' = TRUE /\ current_filepath' = filepath
    /\ play_request' = TRUE /\ audio_command' = "PLAY" /\ playback_status' = "PLAYING"
    /\ Goto("exit")
    /\ UNCHANGED <<track_completed, hold_flush_request, seeking, bar, restart_fresh, flags, track, callers>>

RetryRefused ==
    /\ pc = "failed" /\ write_fail_retry_used
    /\ Goto("giveup")
    /\ UNCHANGED <<request, track_completed, hold_flush_request, seeking, bar, restart_fresh, flags, track,
                   callers>>

GiveUp ==
    /\ pc = "giveup"
    /\ HaltTransport
    /\ Goto("exit")
    /\ UNCHANGED <<track_completed, hold_flush_request, seeking, bar, restart_fresh, flags, track, callers>>

\* mark_stopped_unless_replaced()
MarkStopped ==
    /\ pc = "exit"
    /\ playback_status' = IF play_request THEN playback_status ELSE "STOPPED"
    /\ Goto("close")
    /\ UNCHANGED <<audio_command, play_request, current_filepath, write_fail_retry_used, track_completed,
                   hold_flush_request, seeking, bar, restart_fresh, flags, track, callers>>

\* keep_open: a stream is held for the next track only after a natural end.
\* Gapless off, DoP and a dead Bluetooth link all end in CloseStream.
HoldStream ==
    /\ pc = "close" /\ pcm_handle /= "none" /\ played_to_the_end /\ ~is_paused
    /\ held_pcm' = TRUE /\ pcm_handle' = "none" /\ pcm_device_open' = TRUE
    /\ Goto("leave")
    /\ UNCHANGED <<request, track_completed, hold_flush_request, seeking, bar, restart_fresh,
                   playback_context_active, filepath, is_paused, played, played_to_the_end, queue_from, target,
                   callers>>

CloseStream ==
    /\ pc = "close"
    /\ pcm_handle' = "none" /\ pcm_device_open' = FALSE
    /\ Goto("leave")
    /\ UNCHANGED <<request, track_completed, hold_flush_request, seeking, bar, restart_fresh,
                   playback_context_active, held_pcm, filepath, is_paused, played, played_to_the_end, queue_from,
                   target, callers>>

\* The play routine returns, and what was local to it is gone.
EndContext ==
    /\ pc = "leave"
    /\ playback_context_active' = FALSE
    /\ is_paused' = FALSE /\ played' = 0 /\ played_to_the_end' = FALSE /\ target' = 0 /\ queue_from' = 0
    /\ Goto("idle")
    /\ UNCHANGED <<request, track_completed, hold_flush_request, seeking, bar, restart_fresh, pcm_device_open,
                   held_pcm, filepath, pcm_handle, callers>>

Thread ==
    \/ PickUp \/ FlushRequested \/ HoldTimesOut \/ TakeHeldOut \/ CloseHeld
    \/ OpenFails \/ OpenTrack \/ ReuseHeldStream \/ OpenStream \/ OpenStreamFails \/ NoBuffer
    \/ LeaveLoop \/ TakeSeek \/ SeekWaits \/ FinishSeek
    \/ EnterPause \/ RewindUnheard \/ ReleaseWhilePaused \/ Unpause \/ UnpauseFails \/ KeepPlaying
    \/ Reroute \/ RerouteFails \/ ReadBlock \/ ReadStarves \/ ReadNothing \/ CheckEmptyRead
    \/ NothingDecoded \/ EndOfTrack
    \/ WriteInterrupted \/ WriteBlock \/ WriteFails \/ RetryTrack \/ RetryRefused \/ GiveUp
    \/ MarkStopped \/ HoldStream \/ CloseStream \/ EndContext

-----------------------------------------------------------------------------
(***************************************************************************)
(* The transport calls.  The interface thread makes them from its button   *)
(* handlers (device_state.c) and blocks while it suspends the device; the  *)
(* card supervisor, the USB export and the USB DAC stop playback from      *)
(* threads of their own, and the AirPlay receiver pauses it from its own.  *)
(***************************************************************************)

thread == <<pc, track, flags>>
Free == ui = "free" /\ "interface" \notin pausing

\* Faulty variant: a new request leaves the bookmark armed.
Request_keepsBookmark(f, command, status) ==
    /\ current_filepath' = f /\ play_request' = TRUE /\ write_fail_retry_used' = FALSE
    /\ audio_command' = command /\ playback_status' = status
    /\ progress_floor' = NoFloor /\ UNCHANGED restart_fresh

\* What audio_play(), audio_play_at() and audio_play_paused() have in common.
Request(f, command, status) ==
    /\ restart_fresh' = NoRestart
    /\ current_filepath' = f /\ play_request' = TRUE /\ write_fail_retry_used' = FALSE
    /\ audio_command' = command /\ playback_status' = status
    /\ progress_floor' = NoFloor

audio_play(f) ==
    /\ Free
    /\ Request(f, "PLAY", "PLAYING")
    /\ progress_current' = 0
    /\ seek_request' = FALSE /\ seek_target' = 0
    /\ track_completed' = FALSE
    /\ UNCHANGED <<hold_flush_request, thread, callers>>

\* Starting at 0 asks for no seek; a seek already pending stays pending.
StartAt(start) ==
    /\ progress_current' = start
    /\ seek_request' = (seek_request \/ start > 0)
    /\ seek_target' = IF start > 0 THEN start ELSE seek_target
    /\ UNCHANGED <<track_completed, hold_flush_request, thread, callers>>

audio_play_at(f, start) == Request(f, "PLAY", "PLAYING") /\ StartAt(start)
audio_play_paused(f, start) == Request(f, "PAUSE", "PAUSED") /\ StartAt(start)

PlayAt(f) == Free /\ \E start \in StartsAt \ {0} : audio_play_at(f, start)
PlayPaused(f) == Free /\ \E start \in StartsAt : audio_play_paused(f, start)

\* The status is read first and the pause called afterwards, with no lock in between.
DecideToPause(who) ==
    /\ playback_status = "PLAYING" /\ who \notin pausing
    /\ who = "interface" => ui = "free"
    /\ pausing' = pausing \cup {who}
    /\ UNCHANGED <<request, track_completed, hold_flush_request, seeking, bar, restart_fresh, thread, ui,
                   frozen>>

audio_pause(who) ==
    /\ who \in pausing
    /\ pausing' = pausing \ {who}
    /\ audio_command' = "PAUSE" /\ playback_status' = "PAUSED"
    /\ UNCHANGED <<play_request, current_filepath, write_fail_retry_used, track_completed, hold_flush_request,
                   seeking, bar, restart_fresh, thread, ui, frozen>>

\* The button on a paused track.  After a freeze it becomes a fresh start.
audio_resume ==
    /\ Free /\ playback_status = "PAUSED"
    /\ IF restart_fresh /= NoRestart
       THEN audio_play_at(restart_fresh.path, restart_fresh.pos)
       ELSE /\ audio_command' = "RESUME" /\ playback_status' = "PLAYING"
            /\ UNCHANGED <<play_request, current_filepath, write_fail_retry_used, track_completed,
                           hold_flush_request, seeking, bar, restart_fresh, thread, callers>>

audio_stop ==
    /\ audio_command' = "STOP" /\ playback_status' = "STOPPED"
    /\ seek_request' = FALSE /\ seek_target' = 0
    /\ track_completed' = FALSE
    /\ UNCHANGED <<play_request, current_filepath, write_fail_retry_used, hold_flush_request, bar, restart_fresh,
                   thread, callers>>

\* device_state_seek() seeks only in a track that is loaded: a stopped one is
\* played first.  With a restart armed the bookmark moves instead.
audio_seek(seconds) ==
    /\ Free /\ playback_status /= "STOPPED"
    /\ progress_current' = seconds /\ progress_floor' = NoFloor
    /\ IF restart_fresh /= NoRestart
       THEN restart_fresh' = [restart_fresh EXCEPT !.pos = seconds] /\ UNCHANGED seeking
       ELSE seek_request' = TRUE /\ seek_target' = seconds /\ UNCHANGED restart_fresh
    /\ UNCHANGED <<request, track_completed, hold_flush_request, thread, callers>>

audio_take_completion ==
    /\ Free /\ track_completed
    /\ track_completed' = FALSE
    /\ UNCHANGED <<request, hold_flush_request, seeking, bar, restart_fresh, thread, callers>>

\* Reading the position lifts a floor that playback has caught up with.
audio_get_progress ==
    /\ Free /\ progress_floor /= NoFloor /\ progress_current >= progress_floor
    /\ progress_floor' = NoFloor
    /\ UNCHANGED <<request, track_completed, hold_flush_request, seeking, progress_current, restart_fresh,
                   thread, callers>>

\* Bluetooth is going down and wants the held stream closed.
audio_suspend_quiesce ==
    /\ ~hold_flush_request
    /\ hold_flush_request' = TRUE
    /\ UNCHANGED <<request, track_completed, seeking, bar, restart_fresh, thread, callers>>

\* suspend_if_idle() waits for a full idle minute before it suspends.  Time is
\* not modelled: the thread has then dealt with whatever it was asked, and is
\* idle or sits in a pause.
Settled ==
    \/ pc = "idle" /\ ~play_request
    \/ pc = "loop" /\ is_paused /\ audio_command = "PAUSE" /\ ~play_request /\ ~seek_request

\* suspend_to_ram(): the interface thread, with nothing playing, stops the
\* engine for real and polls until no stream and no context is left.
Freeze ==
    /\ Free /\ playback_status /= "PLAYING" /\ Settled
    /\ ui' = "freezing"
    /\ frozen' = IF playback_status = "PAUSED" /\ current_filepath /= NoFile
                 THEN [path |-> current_filepath, pos |-> progress_current] ELSE NoRestart
    /\ audio_command' = "STOP" /\ playback_status' = "STOPPED"
    /\ seek_request' = FALSE /\ seek_target' = 0
    /\ track_completed' = FALSE /\ hold_flush_request' = TRUE
    /\ UNCHANGED <<play_request, current_filepath, write_fail_retry_used, bar, restart_fresh, thread, pausing>>

Quiet_devicesOnly == ~pcm_device_open /\ ~held_pcm   \* Faulty variant: a paused routine is not waited for.
Quiet == ~playback_context_active /\ ~pcm_device_open /\ ~held_pcm

FreezeIsClean ==
    /\ ui = "freezing" /\ Quiet
    /\ ui' = "arming"
    /\ UNCHANGED <<request, track_completed, hold_flush_request, seeking, bar, restart_fresh, thread, pausing,
                   frozen>>

FreezeTimesOut ==
    /\ ui = "freezing" /\ ~Quiet
    /\ ui' = "free" /\ frozen' = NoRestart
    /\ UNCHANGED <<request, track_completed, hold_flush_request, seeking, bar, restart_fresh, thread, pausing>>

\* The bookmark of a track that was paused is armed, and mem is written.
Sleep ==
    /\ ui = "arming"
    /\ ui' = "asleep"
    /\ IF frozen = NoRestart
       THEN UNCHANGED <<request, bar, restart_fresh>>
       ELSE /\ restart_fresh' = frozen
            /\ playback_status' = "PAUSED" /\ current_filepath' = frozen.path
            /\ progress_current' = frozen.pos
            /\ UNCHANGED <<audio_command, play_request, write_fail_retry_used, progress_floor>>
    /\ frozen' = NoRestart
    /\ UNCHANGED <<track_completed, hold_flush_request, seeking, thread, pausing>>

Wake ==
    /\ ui = "asleep"
    /\ ui' = "free"
    /\ UNCHANGED <<request, track_completed, hold_flush_request, seeking, bar, restart_fresh, thread, pausing,
                   frozen>>

Callers ==
    \/ \E f \in Files : audio_play(f) \/ PlayAt(f) \/ PlayPaused(f)
    \/ \E who \in Pausers : DecideToPause(who) \/ audio_pause(who)
    \/ audio_resume \/ audio_stop \/ audio_take_completion \/ audio_get_progress
    \/ \E seconds \in Positions : audio_seek(seconds)
    \/ audio_suspend_quiesce
    \/ Freeze \/ FreezeIsClean \/ FreezeTimesOut \/ Sleep \/ Wake

Next == Thread \/ Callers

Spec == Init /\ [][Next]_vars

\* The playback thread runs at real-time priority and every call it blocks in
\* returns: snd_pcm and growfile waits have deadlines, a pause polls.
FairSpec == Spec /\ WF_vars(Thread)

-----------------------------------------------------------------------------
(***************************************************************************)
(* What must hold of it.                                                   *)
(***************************************************************************)

\* Every variable keeps its type.
TypeOK ==
    /\ audio_command \in Commands /\ playback_status \in Statuses
    /\ play_request \in BOOLEAN /\ current_filepath \in Files \cup {NoFile}
    /\ write_fail_retry_used \in BOOLEAN /\ track_completed \in BOOLEAN /\ hold_flush_request \in BOOLEAN
    /\ seek_request \in BOOLEAN /\ seek_target \in Positions
    /\ progress_current \in Positions /\ progress_floor \in Positions \cup {NoFloor}
    /\ restart_fresh \in Bookmarks
    /\ playback_context_active \in BOOLEAN /\ pcm_device_open \in BOOLEAN /\ held_pcm \in BOOLEAN
    /\ pc \in ThreadPlaces /\ filepath \in Files \cup {NoFile} /\ pcm_handle \in Streams
    /\ is_paused \in BOOLEAN /\ played \in Positions /\ played_to_the_end \in BOOLEAN
    /\ target \in Positions /\ queue_from \in Positions
    /\ pausing \subseteq Pausers /\ ui \in {"free", "freezing", "arming", "asleep"} /\ frozen \in Bookmarks

\* One PCM takes one writer: the thread never has a stream of its own open
\* while the previous track's is still held for gapless, however a track
\* start, a hold time-out and a suspend flush fall.
OneStream == ~(held_pcm /\ pcm_handle /= "none")

\* audio_device_is_open() and the freeze read pcm_device_open without a lock:
\* it is never FALSE while a stream exists, and it is FALSE again whenever the
\* thread is idle with nothing held.
DeviceFlagTruthful ==
    /\ pcm_handle /= "none" \/ held_pcm => pcm_device_open
    /\ pc = "idle" /\ ~held_pcm => ~pcm_device_open

\* mem is written only with no play routine running and no stream open: the
\* card and the codec lose their power under anything that is still alive.
SuspendSafe == ui = "asleep" => pc \in {"idle", "flush"} /\ pcm_handle = "none" /\ ~held_pcm

\* A block is read and written only with a stream to write to, and never by a
\* track that is paused, whatever pause, seek and device release came before.
WritesHaveAStream == pc \in {"read", "write"} => pcm_handle /= "none" /\ ~is_paused

\* The two together: one stream at most, and whoever writes has it, through every
\* order of a track's start, a hold, a pause, a seek, a release and a resume.
StreamIsSound == OneStream /\ WritesHaveAStream

\* A completion is reported only for a track that reached its last block, or for
\* a WAV, whose routine takes any empty read for the end.
EndsAreReal == [][track_completed' /\ ~track_completed => played = Len \/ filepath \in Wav]_vars

\* The bookmark a suspend leaves behind is the track and the place the screen
\* shows, through every seek, stop and pause made before it is used.
BookmarkIsCurrent ==
    restart_fresh /= NoRestart =>
        /\ current_filepath = restart_fresh.path /\ progress_current = restart_fresh.pos
        /\ ~play_request /\ ~seek_request

\* Every request is taken by the thread, and so supersedes what was playing.
RequestIsTaken == play_request ~> ~play_request

\* A stop ends the play routine, unless another command arrives first.
StopEndsTheRoutine ==
    playback_context_active /\ audio_command = "STOP" ~> ~playback_context_active \/ audio_command /= "STOP"

\* A seek is carried out while its track lasts.
SeekIsServed == seek_request /\ playback_context_active ~> ~seek_request \/ ~playback_context_active

\* A held stream does not hold the DAC for ever, unless it is asked for one
\* track after another that cannot be opened.
HeldStreamIsReleased == held_pcm ~> ~held_pcm \/ play_request

\* A track left paused gives the device back.
PauseReleasesTheDevice ==
    pc = "loop" /\ is_paused ~> pcm_handle = "none" \/ ~is_paused

\* A freeze that nobody disturbs finds everything closed, unless the flag was
\* left up by a track for which memory had run out.
FlagLeftUp == pc = "idle" /\ ~held_pcm /\ pcm_device_open
FreezeConverges == ui = "freezing" ~> Quiet \/ FlagLeftUp \/ ui /= "freezing" \/ audio_command /= "STOP"

\* Whatever the routine is at, a loop turn, a pause, a retry or an end, it looks
\* for each thing a caller can ask of it: another track, a stop, a seek.
CallsAreServed == RequestIsTaken /\ StopEndsTheRoutine /\ SeekIsServed

\* The output device is never kept for good by a track that does not sound: not
\* held for a next track that never comes, not by a pause, not against a freeze.
DeviceIsLetGo == HeldStreamIsReleased /\ PauseReleasesTheDevice /\ FreezeConverges

-----------------------------------------------------------------------------
(***************************************************************************)
(* The engine implements the abstract transport.                           *)
(***************************************************************************)

T == INSTANCE Transport WITH
        queued  <- IF play_request THEN current_filepath ELSE NoFile,
        running <- IF playback_context_active THEN filepath ELSE NoFile,
        device  <- IF pcm_handle /= "none" THEN "track" ELSE IF held_pcm THEN "held" ELSE "closed"

\* Every behaviour of the engine is one of the transport: requests supersede
\* each other in a mailbox of one, a track starts only after the one before it
\* has ended and with the track asked for last, and the output stream is its
\* alone.
ImplementsTransport == T!Spec

=============================================================================
