--------------------------- MODULE AudioPromises ---------------------------
(***************************************************************************)
(* The engine of AudioEngine together with what its callers last asked of  *)
(* it, which the engine itself does not remember.  The history variables   *)
(* record the calls; no action reads them.                                 *)
(***************************************************************************)
EXTENDS AudioEngine

VARIABLES
    wanted,     \* the track last asked for
    cancelled,  \* it has been stopped since
    seek_of     \* the track the last seek was asked for

asked == <<wanted, cancelled, seek_of>>
allvars == <<vars, asked>>

Remember(f, start) ==
    /\ wanted' = f /\ cancelled' = FALSE
    /\ seek_of' = IF start > 0 THEN f ELSE seek_of

AskedFor ==
    \E f \in Files :
        \/ audio_play(f) /\ Remember(f, 0)
        \/ Free /\ \E start \in StartsAt \ {0} : audio_play_at(f, start) /\ Remember(f, start)
        \/ Free /\ \E start \in StartsAt : audio_play_paused(f, start) /\ Remember(f, start)

Resumed ==
    /\ audio_resume
    /\ IF restart_fresh /= NoRestart
       THEN Remember(restart_fresh.path, restart_fresh.pos)
       ELSE cancelled' = FALSE /\ UNCHANGED <<wanted, seek_of>>

Cancelled ==
    /\ audio_stop \/ Freeze
    /\ cancelled' = TRUE /\ UNCHANGED <<wanted, seek_of>>

Sought ==
    /\ \E seconds \in Positions : audio_seek(seconds)
    /\ seek_of' = current_filepath /\ UNCHANGED <<wanted, cancelled>>

\* retry_track_once() asks for the thread's own track once more, over whatever
\* was asked, stopped or sought in the meantime.
Retried ==
    /\ RetryTrack
    /\ wanted' = filepath /\ cancelled' = FALSE /\ seek_of' = filepath

Unremembered ==
    /\ \/ Thread /\ ~RetryTrack
       \/ \E who \in Pausers : DecideToPause(who) \/ audio_pause(who)
       \/ audio_take_completion \/ audio_get_progress \/ audio_suspend_quiesce
       \/ FreezeIsClean \/ FreezeTimesOut \/ Sleep \/ Wake
    /\ UNCHANGED asked

PInit == Init /\ wanted = NoFile /\ cancelled = FALSE /\ seek_of = NoFile
PNext == AskedFor \/ Resumed \/ Cancelled \/ Sought \/ Retried \/ Unremembered
PSpec == PInit /\ [][PNext]_allvars

-----------------------------------------------------------------------------
\* The thread is never asked for anything but the track asked for last, by the
\* callers or by its own retry.
LastRequestWins == play_request => current_filepath = wanted

\* A stop is final: nothing but another request puts the engine back to work.
StopIsFinal == cancelled => audio_command # "PLAY"

\* What was called for last stands, whatever the thread is ending or failing at
\* as the call comes in; a retry counts as a call.
CallsStand == LastRequestWins /\ StopIsFinal

\* The end of a track is reported only for the track asked for last: the queue
\* never walks on over a request.
EndIsOfTheTrackAskedFor == track_completed' /\ ~track_completed => filepath = wanted

\* A seek moves the track it was asked for, never the one played after it.
SeekReachesItsTrack == TakeSeek => seek_of = filepath

\* An end and a seek belong to the track that they were meant for.
EndsAndSeeksAreOfTheirTrack == [][EndIsOfTheTrackAskedFor /\ SeekReachesItsTrack]_allvars
=============================================================================
