------------------------ MODULE AudioEngine_proofs ------------------------
(***************************************************************************)
(* Proofs about AudioEngine, for every set of tracks, every track length   *)
(* and every set of faults.  The invariant IInv is inductive, and the      *)
(* safety properties of the engine follow from it.                         *)
(***************************************************************************)
EXTENDS AudioPromises, TLAPS

\* The ends of the track are positions in it.
LEMMA PositionsFacts == 0 \in Positions /\ Len \in Positions /\ Positions \subseteq Int
  BY LenAssumption DEF Positions

\* No bookmark has the shape of one.
LEMMA NoRestartIsABookmark == NoRestart \in Bookmarks
  BY PositionsFacts DEF NoRestart, Bookmarks

\* A seek lands inside the track.
LEMMA LandingsArePositions ==
  ASSUME target \in Positions, played \in Positions
  PROVE  Landings \subseteq Positions
  <1>1. 0..target \subseteq Positions
    BY LenAssumption DEF Positions
  <1> QED
    BY <1>1 DEF Landings

-----------------------------------------------------------------------------
(***************************************************************************)
(* Types, in three parts: the flags, what the thread and the calls both    *)
(* write, and what only the calls write.                                   *)
(***************************************************************************)

FlagTypes ==
    /\ play_request \in BOOLEAN /\ write_fail_retry_used \in BOOLEAN /\ track_completed \in BOOLEAN
    /\ hold_flush_request \in BOOLEAN /\ seek_request \in BOOLEAN
    /\ playback_context_active \in BOOLEAN /\ pcm_device_open \in BOOLEAN /\ held_pcm \in BOOLEAN
    /\ is_paused \in BOOLEAN /\ played_to_the_end \in BOOLEAN

\* A block about to be written lies inside the track.
RoomToWrite == pc = "write" => played < Len

DataTypes ==
    /\ audio_command \in Commands /\ playback_status \in Statuses
    /\ current_filepath \in Files \cup {NoFile} /\ filepath \in Files \cup {NoFile}
    /\ seek_target \in Positions /\ target \in Positions
    /\ progress_current \in Positions /\ progress_floor \in Positions \cup {NoFloor}
    /\ played \in Positions /\ queue_from \in Positions
    /\ pc \in ThreadPlaces /\ pcm_handle \in Streams
    /\ RoomToWrite

CallerTypes ==
    /\ restart_fresh \in Bookmarks /\ frozen \in Bookmarks
    /\ pausing \subseteq Pausers /\ ui \in {"free", "freezing", "arming", "asleep"}

\* The three parts make up the type invariant.
LEMMA TypesAreTypeOK == FlagTypes /\ DataTypes /\ CallerTypes => TypeOK
  BY DEF FlagTypes, DataTypes, CallerTypes, TypeOK

\* The engine starts with its types right.
LEMMA InitTypes == Init => FlagTypes /\ DataTypes /\ CallerTypes
  BY PositionsFacts, NoRestartIsABookmark
  DEF Init, FlagTypes, DataTypes, CallerTypes, RoomToWrite, Commands, Statuses, Streams, ThreadPlaces, NoFloor

\* Every step keeps the flags Boolean.
LEMMA NextKeepsFlags == FlagTypes /\ Next => FlagTypes'
  <1> SUFFICES ASSUME FlagTypes, Next PROVE FlagTypes'
    OBVIOUS
  <1> USE DEF FlagTypes, Goto, request, seeking, bar, flags, track, callers, thread
  <1>1. CASE PickUp
    BY <1>1, Zenon DEF PickUp
  <1>2. CASE FlushRequested
    BY <1>2, Zenon DEF FlushRequested
  <1>3. CASE HoldTimesOut
    BY <1>3, Zenon DEF HoldTimesOut
  <1>4. CASE TakeHeldOut
    BY <1>4, Zenon DEF TakeHeldOut
  <1>5. CASE CloseHeld
    BY <1>5, Zenon DEF CloseHeld
  <1>6. CASE OpenFails
    BY <1>6, Zenon DEF OpenFails, HaltTransport
  <1>7. CASE OpenTrack
    BY <1>7, Zenon DEF OpenTrack, opening_position
  <1>8. CASE ReuseHeldStream
    BY <1>8, Zenon DEF ReuseHeldStream, StartTrack, held_pcm_emptied
  <1>9. CASE OpenStream
    BY <1>9, Zenon DEF OpenStream, StartTrack, held_pcm_emptied
  <1>10. CASE OpenStreamFails
    BY <1>10, Zenon DEF OpenStreamFails, HaltTransport
  <1>11. CASE NoBuffer
    BY <1>11, Zenon DEF NoBuffer, HaltTransport
  <1>12. CASE LeaveLoop
    BY <1>12, Zenon DEF LeaveLoop, Replaced
  <1>13. CASE TakeSeek
    BY <1>13, Zenon DEF TakeSeek, SeekDue, Replaced
  <1>14. CASE SeekWaits
    BY <1>14, Zenon DEF SeekWaits
  <1>15. CASE FinishSeek
    BY <1>15, Zenon DEF FinishSeek, StillPaused
  <1>16. CASE EnterPause
    BY <1>16, Zenon DEF EnterPause, Replaced
  <1>17. CASE RewindUnheard
    BY <1>17, Zenon DEF RewindUnheard
  <1>18. CASE ReleaseWhilePaused
    BY <1>18, Zenon DEF ReleaseWhilePaused, Replaced
  <1>19. CASE Unpause
    BY <1>19, Zenon DEF Unpause, MayPlay, Replaced
  <1>20. CASE UnpauseFails
    BY <1>20, Zenon DEF UnpauseFails, MayPlay, Replaced, HaltTransport
  <1>21. CASE KeepPlaying
    BY <1>21, Zenon DEF KeepPlaying, MayPlay, Replaced
  <1>22. CASE Reroute
    BY <1>22, Zenon DEF Reroute
  <1>23. CASE RerouteFails
    BY <1>23, Zenon DEF RerouteFails, HaltTransport
  <1>24. CASE ReadBlock
    BY <1>24, Zenon DEF ReadBlock, BlocksLeft
  <1>25. CASE ReadStarves
    BY <1>25, Zenon DEF ReadStarves
  <1>26. CASE ReadNothing
    BY <1>26, Zenon DEF ReadNothing
  <1>27. CASE CheckEmptyRead
    BY <1>27, Zenon DEF CheckEmptyRead, CommandPending
  <1>28. CASE NothingDecoded
    BY <1>28, Zenon DEF NothingDecoded
  <1>29. CASE EndOfTrack
    BY <1>29, Zenon DEF EndOfTrack, HaltTransport, natural_end, cut_short
  <1>30. CASE WriteInterrupted
    BY <1>30, Zenon DEF WriteInterrupted, CommandPending
  <1>31. CASE WriteBlock
    BY <1>31, Zenon DEF WriteBlock
  <1>32. CASE WriteFails
    BY <1>32, Zenon DEF WriteFails
  <1>33. CASE RetryTrack
    BY <1>33, Zenon DEF RetryTrack
  <1>34. CASE RetryRefused
    BY <1>34, Zenon DEF RetryRefused
  <1>35. CASE GiveUp
    BY <1>35, Zenon DEF GiveUp, HaltTransport
  <1>36. CASE MarkStopped
    BY <1>36, Zenon DEF MarkStopped
  <1>37. CASE HoldStream
    BY <1>37, Zenon DEF HoldStream
  <1>38. CASE CloseStream
    BY <1>38, Zenon DEF CloseStream
  <1>39. CASE EndContext
    BY <1>39, Zenon DEF EndContext
  <1>40. ASSUME NEW f \in Files, audio_play(f) PROVE FlagTypes'
    BY <1>40, Zenon DEF audio_play, Free, Request
  <1>41. ASSUME NEW f \in Files, PlayAt(f) PROVE FlagTypes'
    BY <1>41, Zenon DEF PlayAt, audio_play_at, StartAt, Free, Request
  <1>42. ASSUME NEW f \in Files, PlayPaused(f) PROVE FlagTypes'
    BY <1>42, Zenon DEF PlayPaused, audio_play_paused, StartAt, Free, Request
  <1>43. ASSUME NEW who \in Pausers, DecideToPause(who) PROVE FlagTypes'
    BY <1>43, Zenon DEF DecideToPause
  <1>44. ASSUME NEW who \in Pausers, audio_pause(who) PROVE FlagTypes'
    BY <1>44, Zenon DEF audio_pause
  <1>45. CASE audio_resume
    BY <1>45, ZenonT(40) DEF audio_resume, audio_play_at, StartAt, Free, Request
  <1>46. CASE audio_stop
    BY <1>46, Zenon DEF audio_stop
  <1>47. CASE audio_take_completion
    BY <1>47, Zenon DEF audio_take_completion, Free
  <1>48. CASE audio_get_progress
    BY <1>48, Zenon DEF audio_get_progress, Free
  <1>49. ASSUME NEW seconds \in Positions, audio_seek(seconds) PROVE FlagTypes'
    BY <1>49, Zenon DEF audio_seek, Free
  <1>50. CASE audio_suspend_quiesce
    BY <1>50, Zenon DEF audio_suspend_quiesce
  <1>51. CASE Freeze
    BY <1>51, Zenon DEF Freeze, Free, Settled
  <1>52. CASE FreezeIsClean
    BY <1>52, Zenon DEF FreezeIsClean, Quiet
  <1>53. CASE FreezeTimesOut
    BY <1>53, Zenon DEF FreezeTimesOut, Quiet
  <1>54. CASE Sleep
    BY <1>54, Zenon DEF Sleep
  <1>55. CASE Wake
    BY <1>55, Zenon DEF Wake
  <1> QED
    BY <1>1, <1>2, <1>3, <1>4, <1>5, <1>6, <1>7, <1>8, <1>9, <1>10, <1>11, <1>12, <1>13, <1>14, <1>15,
       <1>16, <1>17, <1>18, <1>19, <1>20, <1>21, <1>22, <1>23, <1>24, <1>25, <1>26, <1>27, <1>28,
       <1>29, <1>30, <1>31, <1>32, <1>33, <1>34, <1>35, <1>36, <1>37, <1>38, <1>39, <1>40, <1>41,
       <1>42, <1>43, <1>44, <1>45, <1>46, <1>47, <1>48, <1>49, <1>50, <1>51, <1>52, <1>53, <1>54, <1>55
       DEF Next, Thread, Callers

\* Every step keeps positions inside the track and names of tracks and places.
LEMMA NextKeepsData == DataTypes /\ CallerTypes /\ Next => DataTypes'
  <1> SUFFICES ASSUME DataTypes, CallerTypes, Next PROVE DataTypes'
    OBVIOUS
  <1> USE PositionsFacts
  <1> USE DEF DataTypes, CallerTypes, Bookmarks, RoomToWrite, Commands, Statuses, Streams, ThreadPlaces,
              Goto, request, seeking, bar, flags, track, callers, thread
  <1>1. CASE PickUp
    BY <1>1 DEF PickUp
  <1>2. CASE FlushRequested
    BY <1>2 DEF FlushRequested
  <1>3. CASE HoldTimesOut
    BY <1>3 DEF HoldTimesOut
  <1>4. CASE TakeHeldOut
    BY <1>4 DEF TakeHeldOut
  <1>5. CASE CloseHeld
    BY <1>5 DEF CloseHeld
  <1>6. CASE OpenFails
    BY <1>6 DEF OpenFails, HaltTransport
  <1>7. CASE OpenTrack
    BY <1>7 DEF OpenTrack, opening_position
  <1>8. CASE ReuseHeldStream
    BY <1>8 DEF ReuseHeldStream, StartTrack, held_pcm_emptied
  <1>9. CASE OpenStream
    BY <1>9 DEF OpenStream, StartTrack, held_pcm_emptied
  <1>10. CASE OpenStreamFails
    BY <1>10 DEF OpenStreamFails, HaltTransport
  <1>11. CASE NoBuffer
    BY <1>11 DEF NoBuffer, HaltTransport
  <1>12. CASE LeaveLoop
    BY <1>12 DEF LeaveLoop, Replaced
  <1>13. CASE TakeSeek
    BY <1>13 DEF TakeSeek, SeekDue, Replaced
  <1>14. CASE SeekWaits
    BY <1>14 DEF SeekWaits
  <1>15. CASE FinishSeek
    <2>1. PICK landing \in Landings :
             played' = landing /\ progress_current' = landing /\ queue_from' = landing
      BY <1>15 DEF FinishSeek
    <2>2. landing \in Positions
      BY <2>1, LandingsArePositions
    <2> QED
      BY <1>15, <2>1, <2>2 DEF FinishSeek, StillPaused
  <1>16. CASE EnterPause
    BY <1>16 DEF EnterPause, Replaced
  <1>17. CASE RewindUnheard
    <2>1. \A resume \in queue_from..played : resume \in Positions
      BY LenAssumption DEF Positions
    <2>2. PICK resume \in queue_from..played :
             IF resume = played
             THEN UNCHANGED <<played, bar>>
             ELSE played' = resume /\ progress_current' = resume /\ progress_floor' = progress_current
      BY <1>17 DEF RewindUnheard
    <2>3. CASE resume = played
      BY <1>17, <2>2, <2>3 DEF RewindUnheard
    <2>4. CASE resume /= played
      BY <1>17, <2>1, <2>2, <2>4 DEF RewindUnheard
    <2> QED
      BY <2>3, <2>4
  <1>18. CASE ReleaseWhilePaused
    BY <1>18 DEF ReleaseWhilePaused, Replaced
  <1>19. CASE Unpause
    BY <1>19 DEF Unpause, MayPlay, Replaced
  <1>20. CASE UnpauseFails
    BY <1>20 DEF UnpauseFails, MayPlay, Replaced, HaltTransport
  <1>21. CASE KeepPlaying
    BY <1>21 DEF KeepPlaying, MayPlay, Replaced
  <1>22. CASE Reroute
    BY <1>22 DEF Reroute
  <1>23. CASE RerouteFails
    BY <1>23 DEF RerouteFails, HaltTransport
  <1>24. CASE ReadBlock
    BY <1>24 DEF ReadBlock, BlocksLeft
  <1>25. CASE ReadStarves
    BY <1>25 DEF ReadStarves
  <1>26. CASE ReadNothing
    BY <1>26 DEF ReadNothing
  <1>27. CASE CheckEmptyRead
    BY <1>27 DEF CheckEmptyRead, CommandPending
  <1>28. CASE NothingDecoded
    BY <1>28 DEF NothingDecoded
  <1>29. CASE EndOfTrack
    BY <1>29 DEF EndOfTrack, HaltTransport, natural_end, cut_short
  <1>30. CASE WriteInterrupted
    BY <1>30 DEF WriteInterrupted, CommandPending
  <1>31. CASE WriteBlock
    <2>1. played + 1 \in Positions
      BY <1>31, LenAssumption DEF WriteBlock, Positions
    <2> QED
      BY <1>31, <2>1 DEF WriteBlock
  <1>32. CASE WriteFails
    BY <1>32 DEF WriteFails
  <1>33. CASE RetryTrack
    BY <1>33 DEF RetryTrack
  <1>34. CASE RetryRefused
    BY <1>34 DEF RetryRefused
  <1>35. CASE GiveUp
    BY <1>35 DEF GiveUp, HaltTransport
  <1>36. CASE MarkStopped
    BY <1>36 DEF MarkStopped
  <1>37. CASE HoldStream
    BY <1>37 DEF HoldStream
  <1>38. CASE CloseStream
    BY <1>38 DEF CloseStream
  <1>39. CASE EndContext
    BY <1>39 DEF EndContext
  <1>40. ASSUME NEW f \in Files, audio_play(f) PROVE DataTypes'
    BY <1>40 DEF audio_play, Free, Request
  <1>41. ASSUME NEW f \in Files, PlayAt(f) PROVE DataTypes'
    <2>1. PICK start \in StartsAt \ {0} : audio_play_at(f, start)
      BY <1>41 DEF PlayAt
    <2>2. start \in Positions
      BY StartsAssumption DEF Positions
    <2> QED
      BY <2>1, <2>2 DEF audio_play_at, StartAt, Request
  <1>42. ASSUME NEW f \in Files, PlayPaused(f) PROVE DataTypes'
    <2>1. PICK start \in StartsAt : audio_play_paused(f, start)
      BY <1>42 DEF PlayPaused
    <2>2. start \in Positions
      BY StartsAssumption DEF Positions
    <2> QED
      BY <2>1, <2>2 DEF audio_play_paused, StartAt, Request
  <1>43. ASSUME NEW who \in Pausers, DecideToPause(who) PROVE DataTypes'
    BY <1>43 DEF DecideToPause
  <1>44. ASSUME NEW who \in Pausers, audio_pause(who) PROVE DataTypes'
    BY <1>44 DEF audio_pause
  <1>45. CASE audio_resume
    BY <1>45 DEF audio_resume, audio_play_at, StartAt, Free, Request
  <1>46. CASE audio_stop
    BY <1>46 DEF audio_stop
  <1>47. CASE audio_take_completion
    BY <1>47 DEF audio_take_completion, Free
  <1>48. CASE audio_get_progress
    BY <1>48 DEF audio_get_progress, Free
  <1>49. ASSUME NEW seconds \in Positions, audio_seek(seconds) PROVE DataTypes'
    BY <1>49 DEF audio_seek, Free
  <1>50. CASE audio_suspend_quiesce
    BY <1>50 DEF audio_suspend_quiesce
  <1>51. CASE Freeze
    BY <1>51 DEF Freeze, Free, Settled
  <1>52. CASE FreezeIsClean
    BY <1>52 DEF FreezeIsClean, Quiet
  <1>53. CASE FreezeTimesOut
    BY <1>53 DEF FreezeTimesOut, Quiet
  <1>54. CASE Sleep
    BY <1>54 DEF Sleep
  <1>55. CASE Wake
    BY <1>55 DEF Wake
  <1> QED
    BY <1>1, <1>2, <1>3, <1>4, <1>5, <1>6, <1>7, <1>8, <1>9, <1>10, <1>11, <1>12, <1>13, <1>14, <1>15,
       <1>16, <1>17, <1>18, <1>19, <1>20, <1>21, <1>22, <1>23, <1>24, <1>25, <1>26, <1>27, <1>28,
       <1>29, <1>30, <1>31, <1>32, <1>33, <1>34, <1>35, <1>36, <1>37, <1>38, <1>39, <1>40, <1>41,
       <1>42, <1>43, <1>44, <1>45, <1>46, <1>47, <1>48, <1>49, <1>50, <1>51, <1>52, <1>53, <1>54, <1>55
       DEF Next, Thread, Callers

\* Every step keeps the bookmarks and the states of the callers.
LEMMA NextKeepsCallers == DataTypes /\ CallerTypes /\ Next => CallerTypes'
  <1> SUFFICES ASSUME DataTypes, CallerTypes, Next PROVE CallerTypes'
    OBVIOUS
  <1> USE NoRestartIsABookmark
  <1> USE DEF CallerTypes, request, seeking, bar, flags, track, callers, thread
  <1>1. CASE PickUp
    BY <1>1 DEF PickUp
  <1>2. CASE FlushRequested
    BY <1>2 DEF FlushRequested
  <1>3. CASE HoldTimesOut
    BY <1>3 DEF HoldTimesOut
  <1>4. CASE TakeHeldOut
    BY <1>4 DEF TakeHeldOut
  <1>5. CASE CloseHeld
    BY <1>5 DEF CloseHeld
  <1>6. CASE OpenFails
    BY <1>6 DEF OpenFails, HaltTransport
  <1>7. CASE OpenTrack
    BY <1>7 DEF OpenTrack, opening_position
  <1>8. CASE ReuseHeldStream
    BY <1>8 DEF ReuseHeldStream, StartTrack, held_pcm_emptied
  <1>9. CASE OpenStream
    BY <1>9 DEF OpenStream, StartTrack, held_pcm_emptied
  <1>10. CASE OpenStreamFails
    BY <1>10 DEF OpenStreamFails, HaltTransport
  <1>11. CASE NoBuffer
    BY <1>11 DEF NoBuffer, HaltTransport
  <1>12. CASE LeaveLoop
    BY <1>12 DEF LeaveLoop, Replaced
  <1>13. CASE TakeSeek
    BY <1>13 DEF TakeSeek, SeekDue, Replaced
  <1>14. CASE SeekWaits
    BY <1>14 DEF SeekWaits
  <1>15. CASE FinishSeek
    BY <1>15 DEF FinishSeek, StillPaused
  <1>16. CASE EnterPause
    BY <1>16 DEF EnterPause, Replaced
  <1>17. CASE RewindUnheard
    BY <1>17 DEF RewindUnheard
  <1>18. CASE ReleaseWhilePaused
    BY <1>18 DEF ReleaseWhilePaused, Replaced
  <1>19. CASE Unpause
    BY <1>19 DEF Unpause, MayPlay, Replaced
  <1>20. CASE UnpauseFails
    BY <1>20 DEF UnpauseFails, MayPlay, Replaced, HaltTransport
  <1>21. CASE KeepPlaying
    BY <1>21 DEF KeepPlaying, MayPlay, Replaced
  <1>22. CASE Reroute
    BY <1>22 DEF Reroute
  <1>23. CASE RerouteFails
    BY <1>23 DEF RerouteFails, HaltTransport
  <1>24. CASE ReadBlock
    BY <1>24 DEF ReadBlock, BlocksLeft
  <1>25. CASE ReadStarves
    BY <1>25 DEF ReadStarves
  <1>26. CASE ReadNothing
    BY <1>26 DEF ReadNothing
  <1>27. CASE CheckEmptyRead
    BY <1>27 DEF CheckEmptyRead, CommandPending
  <1>28. CASE NothingDecoded
    BY <1>28 DEF NothingDecoded
  <1>29. CASE EndOfTrack
    BY <1>29 DEF EndOfTrack, HaltTransport, natural_end, cut_short
  <1>30. CASE WriteInterrupted
    BY <1>30 DEF WriteInterrupted, CommandPending
  <1>31. CASE WriteBlock
    BY <1>31 DEF WriteBlock
  <1>32. CASE WriteFails
    BY <1>32 DEF WriteFails
  <1>33. CASE RetryTrack
    BY <1>33 DEF RetryTrack
  <1>34. CASE RetryRefused
    BY <1>34 DEF RetryRefused
  <1>35. CASE GiveUp
    BY <1>35 DEF GiveUp, HaltTransport
  <1>36. CASE MarkStopped
    BY <1>36 DEF MarkStopped
  <1>37. CASE HoldStream
    BY <1>37 DEF HoldStream
  <1>38. CASE CloseStream
    BY <1>38 DEF CloseStream
  <1>39. CASE EndContext
    BY <1>39 DEF EndContext
  <1>40. ASSUME NEW f \in Files, audio_play(f) PROVE CallerTypes'
    BY <1>40 DEF audio_play, Free, Request
  <1>41. ASSUME NEW f \in Files, PlayAt(f) PROVE CallerTypes'
    BY <1>41 DEF PlayAt, audio_play_at, StartAt, Free, Request
  <1>42. ASSUME NEW f \in Files, PlayPaused(f) PROVE CallerTypes'
    BY <1>42 DEF PlayPaused, audio_play_paused, StartAt, Free, Request
  <1>43. ASSUME NEW who \in Pausers, DecideToPause(who) PROVE CallerTypes'
    BY <1>43 DEF DecideToPause
  <1>44. ASSUME NEW who \in Pausers, audio_pause(who) PROVE CallerTypes'
    BY <1>44 DEF audio_pause
  <1>45. CASE audio_resume
    BY <1>45 DEF audio_resume, audio_play_at, StartAt, Free, Request
  <1>46. CASE audio_stop
    BY <1>46 DEF audio_stop
  <1>47. CASE audio_take_completion
    BY <1>47 DEF audio_take_completion, Free
  <1>48. CASE audio_get_progress
    BY <1>48 DEF audio_get_progress, Free
  <1>49. ASSUME NEW seconds \in Positions, audio_seek(seconds) PROVE CallerTypes'
    <2>1. restart_fresh' \in Bookmarks
      BY <1>49 DEF audio_seek, Bookmarks
    <2> QED
      BY <1>49, <2>1 DEF audio_seek
  <1>50. CASE audio_suspend_quiesce
    BY <1>50 DEF audio_suspend_quiesce
  <1>51. CASE Freeze
    <2>1. frozen' \in Bookmarks
      BY <1>51 DEF Freeze, DataTypes, Bookmarks
    <2> QED
      BY <1>51, <2>1 DEF Freeze
  <1>52. CASE FreezeIsClean
    BY <1>52 DEF FreezeIsClean, Quiet
  <1>53. CASE FreezeTimesOut
    BY <1>53 DEF FreezeTimesOut, Quiet
  <1>54. CASE Sleep
    BY <1>54 DEF Sleep
  <1>55. CASE Wake
    BY <1>55 DEF Wake
  <1> QED
    BY <1>1, <1>2, <1>3, <1>4, <1>5, <1>6, <1>7, <1>8, <1>9, <1>10, <1>11, <1>12, <1>13, <1>14, <1>15,
       <1>16, <1>17, <1>18, <1>19, <1>20, <1>21, <1>22, <1>23, <1>24, <1>25, <1>26, <1>27, <1>28,
       <1>29, <1>30, <1>31, <1>32, <1>33, <1>34, <1>35, <1>36, <1>37, <1>38, <1>39, <1>40, <1>41,
       <1>42, <1>43, <1>44, <1>45, <1>46, <1>47, <1>48, <1>49, <1>50, <1>51, <1>52, <1>53, <1>54, <1>55
       DEF Next, Thread, Callers


\* A step that changes nothing keeps them.
LEMMA StutterKeepsTypes ==
  FlagTypes /\ DataTypes /\ CallerTypes /\ UNCHANGED vars => (FlagTypes /\ DataTypes /\ CallerTypes)'
  <1> SUFFICES ASSUME FlagTypes, DataTypes, CallerTypes, UNCHANGED vars
               PROVE  FlagTypes' /\ DataTypes' /\ CallerTypes'
    OBVIOUS
  <1> USE DEF vars, request, seeking, bar, flags, track, callers
  <1>1. FlagTypes'
    BY Zenon DEF FlagTypes
  <1>2. DataTypes'
    BY DEF DataTypes, RoomToWrite
  <1>3. CallerTypes'
    BY DEF CallerTypes
  <1> QED
    BY <1>1, <1>2, <1>3

Types == FlagTypes /\ DataTypes /\ CallerTypes

\* The three parts hold in every reachable state.
LEMMA TypesInvariant == Spec => []Types
  <1>1. Init => Types
    BY InitTypes DEF Types
  <1>2. Types /\ [Next]_vars => Types'
    BY NextKeepsFlags, NextKeepsData, NextKeepsCallers, StutterKeepsTypes DEF Types
  <1> QED
    BY <1>1, <1>2, PTL DEF Spec

\* Every variable keeps its type.
THEOREM TypeCorrect == Spec => []TypeOK
  <1>1. Types => TypeOK
    BY TypesAreTypeOK DEF Types
  <1> QED
    BY <1>1, TypesInvariant, PTL

-----------------------------------------------------------------------------
(***************************************************************************)
(* The inductive invariant: which flags and streams go with which place of *)
(* the thread, and what a suspend may rely on.                             *)
(***************************************************************************)

Outside == {"idle", "flush", "closing"}

\* The context flag is up exactly while a play routine runs.
RoutineShape == playback_context_active <=> pc \notin Outside

\* The track's own stream and the held one live in different places, and a
\* stream, even one being drained, is reported.
StreamShape ==
    /\ pcm_handle /= "none" => pc \notin Outside \cup {"open", "device", "leave"}
    /\ held_pcm => pc \in {"idle", "flush", "open", "device", "leave"}
    /\ pcm_handle /= "none" \/ held_pcm \/ pc = "closing" => pcm_device_open

\* The loop has a stream unless it is paused, and leaves for the read only with one.
PauseShape ==
    /\ pc \in {"loop", "seek", "seekwait"} /\ ~is_paused => pcm_handle /= "none"
    /\ pc \in {"read", "empty", "write"} => pcm_handle /= "none" /\ ~is_paused
    /\ pc = "rewind" => is_paused

\* Callers write nothing of the thread's.
ThreadUnchanged ==
    UNCHANGED <<pc, playback_context_active, pcm_device_open, held_pcm, filepath, pcm_handle, is_paused, played,
                played_to_the_end, target, queue_from>>

LEMMA CallersLeaveTheThread == Callers => ThreadUnchanged
  <1> USE DEF ThreadUnchanged, callers, thread, track, flags, Free
  <1>1. ASSUME NEW f \in Files, audio_play(f) PROVE ThreadUnchanged
    BY <1>1 DEF audio_play, Free, Request
  <1>2. ASSUME NEW f \in Files, PlayAt(f) PROVE ThreadUnchanged
    BY <1>2 DEF PlayAt, audio_play_at, StartAt, Free, Request
  <1>3. ASSUME NEW f \in Files, PlayPaused(f) PROVE ThreadUnchanged
    BY <1>3 DEF PlayPaused, audio_play_paused, StartAt, Free, Request
  <1>4. ASSUME NEW who \in Pausers, DecideToPause(who) PROVE ThreadUnchanged
    BY <1>4 DEF DecideToPause
  <1>5. ASSUME NEW who \in Pausers, audio_pause(who) PROVE ThreadUnchanged
    BY <1>5 DEF audio_pause
  <1>6. CASE audio_resume
    BY <1>6 DEF audio_resume, audio_play_at, StartAt, Free, Request
  <1>7. CASE audio_stop
    BY <1>7 DEF audio_stop
  <1>8. CASE audio_take_completion
    BY <1>8 DEF audio_take_completion, Free
  <1>9. CASE audio_get_progress
    BY <1>9 DEF audio_get_progress, Free
  <1>10. ASSUME NEW seconds \in Positions, audio_seek(seconds) PROVE ThreadUnchanged
    BY <1>10 DEF audio_seek, Free
  <1>11. CASE audio_suspend_quiesce
    BY <1>11 DEF audio_suspend_quiesce
  <1>12. CASE Freeze
    BY <1>12 DEF Freeze, Free, Settled
  <1>13. CASE FreezeIsClean
    BY <1>13 DEF FreezeIsClean, Quiet
  <1>14. CASE FreezeTimesOut
    BY <1>14 DEF FreezeTimesOut, Quiet
  <1>15. CASE Sleep
    BY <1>15 DEF Sleep
  <1>16. CASE Wake
    BY <1>16 DEF Wake
  <1> QED
    BY <1>1, <1>2, <1>3, <1>4, <1>5, <1>6, <1>7, <1>8, <1>9, <1>10, <1>11, <1>12, <1>13, <1>14, <1>15,
       <1>16 DEF Callers

\* Every step keeps the context flag true of the thread's place.
LEMMA NextKeepsRoutine == RoutineShape /\ StreamShape /\ Next => RoutineShape'
  <1> SUFFICES ASSUME RoutineShape, StreamShape, Next PROVE RoutineShape'
    OBVIOUS
  <1> USE DEF RoutineShape, StreamShape, PauseShape, FlagTypes, Outside, Goto, track, flags, thread
  <1>1. CASE PickUp
    BY <1>1, Zenon DEF PickUp
  <1>2. CASE FlushRequested
    BY <1>2, Zenon DEF FlushRequested
  <1>3. CASE HoldTimesOut
    BY <1>3, Zenon DEF HoldTimesOut
  <1>4. CASE TakeHeldOut
    BY <1>4, Zenon DEF TakeHeldOut
  <1>5. CASE CloseHeld
    BY <1>5, Zenon DEF CloseHeld
  <1>6. CASE OpenFails
    BY <1>6, Zenon DEF OpenFails, HaltTransport
  <1>7. CASE OpenTrack
    BY <1>7, Zenon DEF OpenTrack, opening_position
  <1>8. CASE ReuseHeldStream
    BY <1>8, Zenon DEF ReuseHeldStream, StartTrack, held_pcm_emptied
  <1>9. CASE OpenStream
    BY <1>9, Zenon DEF OpenStream, StartTrack, held_pcm_emptied
  <1>10. CASE OpenStreamFails
    BY <1>10, Zenon DEF OpenStreamFails, HaltTransport
  <1>11. CASE NoBuffer
    BY <1>11, Zenon DEF NoBuffer, HaltTransport
  <1>12. CASE LeaveLoop
    BY <1>12, Zenon DEF LeaveLoop, Replaced
  <1>13. CASE TakeSeek
    BY <1>13, Zenon DEF TakeSeek, SeekDue, Replaced
  <1>14. CASE SeekWaits
    BY <1>14, Zenon DEF SeekWaits
  <1>15. CASE FinishSeek
    BY <1>15, Zenon DEF FinishSeek, StillPaused
  <1>16. CASE EnterPause
    BY <1>16, Zenon DEF EnterPause, Replaced
  <1>17. CASE RewindUnheard
    BY <1>17, Zenon DEF RewindUnheard
  <1>18. CASE ReleaseWhilePaused
    BY <1>18, Zenon DEF ReleaseWhilePaused, Replaced
  <1>19. CASE Unpause
    BY <1>19, Zenon DEF Unpause, MayPlay, Replaced
  <1>20. CASE UnpauseFails
    BY <1>20, Zenon DEF UnpauseFails, MayPlay, Replaced, HaltTransport
  <1>21. CASE KeepPlaying
    BY <1>21, Zenon DEF KeepPlaying, MayPlay, Replaced
  <1>22. CASE Reroute
    BY <1>22, Zenon DEF Reroute
  <1>23. CASE RerouteFails
    BY <1>23, Zenon DEF RerouteFails, HaltTransport
  <1>24. CASE ReadBlock
    BY <1>24, Zenon DEF ReadBlock, BlocksLeft
  <1>25. CASE ReadStarves
    BY <1>25, Zenon DEF ReadStarves
  <1>26. CASE ReadNothing
    BY <1>26, Zenon DEF ReadNothing
  <1>27. CASE CheckEmptyRead
    BY <1>27, Zenon DEF CheckEmptyRead, CommandPending
  <1>28. CASE NothingDecoded
    BY <1>28, Zenon DEF NothingDecoded
  <1>29. CASE EndOfTrack
    BY <1>29, Zenon DEF EndOfTrack, HaltTransport, natural_end, cut_short
  <1>30. CASE WriteInterrupted
    BY <1>30, Zenon DEF WriteInterrupted, CommandPending
  <1>31. CASE WriteBlock
    BY <1>31, Zenon DEF WriteBlock
  <1>32. CASE WriteFails
    BY <1>32, Zenon DEF WriteFails
  <1>33. CASE RetryTrack
    BY <1>33, Zenon DEF RetryTrack
  <1>34. CASE RetryRefused
    BY <1>34, Zenon DEF RetryRefused
  <1>35. CASE GiveUp
    BY <1>35, Zenon DEF GiveUp, HaltTransport
  <1>36. CASE MarkStopped
    BY <1>36, Zenon DEF MarkStopped
  <1>37. CASE HoldStream
    BY <1>37, Zenon DEF HoldStream
  <1>38. CASE CloseStream
    BY <1>38, Zenon DEF CloseStream
  <1>39. CASE EndContext
    BY <1>39, Zenon DEF EndContext
  <1>40. CASE Callers
    BY <1>40, CallersLeaveTheThread DEF ThreadUnchanged
  <1> QED
    BY <1>1, <1>2, <1>3, <1>4, <1>5, <1>6, <1>7, <1>8, <1>9, <1>10, <1>11, <1>12, <1>13, <1>14, <1>15,
       <1>16, <1>17, <1>18, <1>19, <1>20, <1>21, <1>22, <1>23, <1>24, <1>25, <1>26, <1>27, <1>28,
       <1>29, <1>30, <1>31, <1>32, <1>33, <1>34, <1>35, <1>36, <1>37, <1>38, <1>39, <1>40 DEF Next,
       Thread

\* Every step keeps one stream at most, and reports it.
LEMMA NextKeepsStream == FlagTypes /\ StreamShape /\ Next => StreamShape'
  <1> SUFFICES ASSUME FlagTypes, StreamShape, Next PROVE StreamShape'
    OBVIOUS
  <1> USE DEF RoutineShape, StreamShape, PauseShape, FlagTypes, Outside, Goto, track, flags, thread
  <1>1. CASE PickUp
    BY <1>1, Zenon DEF PickUp
  <1>2. CASE FlushRequested
    BY <1>2, Zenon DEF FlushRequested
  <1>3. CASE HoldTimesOut
    BY <1>3, Zenon DEF HoldTimesOut
  <1>4. CASE TakeHeldOut
    BY <1>4, Zenon DEF TakeHeldOut
  <1>5. CASE CloseHeld
    BY <1>5, Zenon DEF CloseHeld
  <1>6. CASE OpenFails
    BY <1>6, Zenon DEF OpenFails, HaltTransport
  <1>7. CASE OpenTrack
    BY <1>7, Zenon DEF OpenTrack, opening_position
  <1>8. CASE ReuseHeldStream
    BY <1>8, Zenon DEF ReuseHeldStream, StartTrack, held_pcm_emptied
  <1>9. CASE OpenStream
    BY <1>9, Zenon DEF OpenStream, StartTrack, held_pcm_emptied
  <1>10. CASE OpenStreamFails
    BY <1>10, Zenon DEF OpenStreamFails, HaltTransport
  <1>11. CASE NoBuffer
    BY <1>11, Zenon DEF NoBuffer, HaltTransport
  <1>12. CASE LeaveLoop
    BY <1>12, Zenon DEF LeaveLoop, Replaced
  <1>13. CASE TakeSeek
    BY <1>13, Zenon DEF TakeSeek, SeekDue, Replaced
  <1>14. CASE SeekWaits
    BY <1>14, Zenon DEF SeekWaits
  <1>15. CASE FinishSeek
    BY <1>15, Zenon DEF FinishSeek, StillPaused
  <1>16. CASE EnterPause
    BY <1>16, Zenon DEF EnterPause, Replaced
  <1>17. CASE RewindUnheard
    BY <1>17, Zenon DEF RewindUnheard
  <1>18. CASE ReleaseWhilePaused
    BY <1>18, Zenon DEF ReleaseWhilePaused, Replaced
  <1>19. CASE Unpause
    BY <1>19, Zenon DEF Unpause, MayPlay, Replaced
  <1>20. CASE UnpauseFails
    BY <1>20, Zenon DEF UnpauseFails, MayPlay, Replaced, HaltTransport
  <1>21. CASE KeepPlaying
    BY <1>21, Zenon DEF KeepPlaying, MayPlay, Replaced
  <1>22. CASE Reroute
    BY <1>22, Zenon DEF Reroute
  <1>23. CASE RerouteFails
    BY <1>23, Zenon DEF RerouteFails, HaltTransport
  <1>24. CASE ReadBlock
    BY <1>24, Zenon DEF ReadBlock, BlocksLeft
  <1>25. CASE ReadStarves
    BY <1>25, Zenon DEF ReadStarves
  <1>26. CASE ReadNothing
    BY <1>26, Zenon DEF ReadNothing
  <1>27. CASE CheckEmptyRead
    BY <1>27, Zenon DEF CheckEmptyRead, CommandPending
  <1>28. CASE NothingDecoded
    BY <1>28, Zenon DEF NothingDecoded
  <1>29. CASE EndOfTrack
    BY <1>29, Zenon DEF EndOfTrack, HaltTransport, natural_end, cut_short
  <1>30. CASE WriteInterrupted
    BY <1>30, Zenon DEF WriteInterrupted, CommandPending
  <1>31. CASE WriteBlock
    BY <1>31, Zenon DEF WriteBlock
  <1>32. CASE WriteFails
    BY <1>32, Zenon DEF WriteFails
  <1>33. CASE RetryTrack
    BY <1>33, Zenon DEF RetryTrack
  <1>34. CASE RetryRefused
    BY <1>34, Zenon DEF RetryRefused
  <1>35. CASE GiveUp
    BY <1>35, Zenon DEF GiveUp, HaltTransport
  <1>36. CASE MarkStopped
    BY <1>36, Zenon DEF MarkStopped
  <1>37. CASE HoldStream
    BY <1>37, Zenon DEF HoldStream
  <1>38. CASE CloseStream
    BY <1>38, Zenon DEF CloseStream
  <1>39. CASE EndContext
    BY <1>39, Zenon DEF EndContext
  <1>40. CASE Callers
    BY <1>40, CallersLeaveTheThread DEF ThreadUnchanged
  <1> QED
    BY <1>1, <1>2, <1>3, <1>4, <1>5, <1>6, <1>7, <1>8, <1>9, <1>10, <1>11, <1>12, <1>13, <1>14, <1>15,
       <1>16, <1>17, <1>18, <1>19, <1>20, <1>21, <1>22, <1>23, <1>24, <1>25, <1>26, <1>27, <1>28,
       <1>29, <1>30, <1>31, <1>32, <1>33, <1>34, <1>35, <1>36, <1>37, <1>38, <1>39, <1>40 DEF Next,
       Thread

\* Every step keeps a stream under a loop that is not paused.
LEMMA NextKeepsPause == StreamShape /\ PauseShape /\ Next => PauseShape'
  <1> SUFFICES ASSUME StreamShape, PauseShape, Next PROVE PauseShape'
    OBVIOUS
  <1> USE DEF RoutineShape, StreamShape, PauseShape, FlagTypes, Outside, Goto, track, flags, thread
  <1>1. CASE PickUp
    BY <1>1, Zenon DEF PickUp
  <1>2. CASE FlushRequested
    BY <1>2, Zenon DEF FlushRequested
  <1>3. CASE HoldTimesOut
    BY <1>3, Zenon DEF HoldTimesOut
  <1>4. CASE TakeHeldOut
    BY <1>4, Zenon DEF TakeHeldOut
  <1>5. CASE CloseHeld
    BY <1>5, Zenon DEF CloseHeld
  <1>6. CASE OpenFails
    BY <1>6, Zenon DEF OpenFails, HaltTransport
  <1>7. CASE OpenTrack
    BY <1>7, Zenon DEF OpenTrack, opening_position
  <1>8. CASE ReuseHeldStream
    BY <1>8, Zenon DEF ReuseHeldStream, StartTrack, held_pcm_emptied
  <1>9. CASE OpenStream
    BY <1>9, Zenon DEF OpenStream, StartTrack, held_pcm_emptied
  <1>10. CASE OpenStreamFails
    BY <1>10, Zenon DEF OpenStreamFails, HaltTransport
  <1>11. CASE NoBuffer
    BY <1>11, Zenon DEF NoBuffer, HaltTransport
  <1>12. CASE LeaveLoop
    BY <1>12, Zenon DEF LeaveLoop, Replaced
  <1>13. CASE TakeSeek
    BY <1>13, Zenon DEF TakeSeek, SeekDue, Replaced
  <1>14. CASE SeekWaits
    BY <1>14, Zenon DEF SeekWaits
  <1>15. CASE FinishSeek
    BY <1>15, Zenon DEF FinishSeek, StillPaused
  <1>16. CASE EnterPause
    BY <1>16, Zenon DEF EnterPause, Replaced
  <1>17. CASE RewindUnheard
    BY <1>17, Zenon DEF RewindUnheard
  <1>18. CASE ReleaseWhilePaused
    BY <1>18, Zenon DEF ReleaseWhilePaused, Replaced
  <1>19. CASE Unpause
    BY <1>19, Zenon DEF Unpause, MayPlay, Replaced
  <1>20. CASE UnpauseFails
    BY <1>20, Zenon DEF UnpauseFails, MayPlay, Replaced, HaltTransport
  <1>21. CASE KeepPlaying
    BY <1>21, Zenon DEF KeepPlaying, MayPlay, Replaced
  <1>22. CASE Reroute
    BY <1>22, Zenon DEF Reroute
  <1>23. CASE RerouteFails
    BY <1>23, Zenon DEF RerouteFails, HaltTransport
  <1>24. CASE ReadBlock
    BY <1>24, Zenon DEF ReadBlock, BlocksLeft
  <1>25. CASE ReadStarves
    BY <1>25, Zenon DEF ReadStarves
  <1>26. CASE ReadNothing
    BY <1>26, Zenon DEF ReadNothing
  <1>27. CASE CheckEmptyRead
    BY <1>27, Zenon DEF CheckEmptyRead, CommandPending
  <1>28. CASE NothingDecoded
    BY <1>28, Zenon DEF NothingDecoded
  <1>29. CASE EndOfTrack
    BY <1>29, Zenon DEF EndOfTrack, HaltTransport, natural_end, cut_short
  <1>30. CASE WriteInterrupted
    BY <1>30, Zenon DEF WriteInterrupted, CommandPending
  <1>31. CASE WriteBlock
    BY <1>31, Zenon DEF WriteBlock
  <1>32. CASE WriteFails
    BY <1>32, Zenon DEF WriteFails
  <1>33. CASE RetryTrack
    BY <1>33, Zenon DEF RetryTrack
  <1>34. CASE RetryRefused
    BY <1>34, Zenon DEF RetryRefused
  <1>35. CASE GiveUp
    BY <1>35, Zenon DEF GiveUp, HaltTransport
  <1>36. CASE MarkStopped
    BY <1>36, Zenon DEF MarkStopped
  <1>37. CASE HoldStream
    BY <1>37, Zenon DEF HoldStream
  <1>38. CASE CloseStream
    BY <1>38, Zenon DEF CloseStream
  <1>39. CASE EndContext
    BY <1>39, Zenon DEF EndContext
  <1>40. CASE Callers
    BY <1>40, CallersLeaveTheThread DEF ThreadUnchanged
  <1> QED
    BY <1>1, <1>2, <1>3, <1>4, <1>5, <1>6, <1>7, <1>8, <1>9, <1>10, <1>11, <1>12, <1>13, <1>14, <1>15,
       <1>16, <1>17, <1>18, <1>19, <1>20, <1>21, <1>22, <1>23, <1>24, <1>25, <1>26, <1>27, <1>28,
       <1>29, <1>30, <1>31, <1>32, <1>33, <1>34, <1>35, <1>36, <1>37, <1>38, <1>39, <1>40 DEF Next,
       Thread

-----------------------------------------------------------------------------
\* Where a thread that was stopped can be on its way to the idle loop.
Quitting ==
    \/ pc \in Outside \cup {"exit", "close", "leave"}
    \/ pc = "loop" /\ is_paused

\* While a suspend waits, the engine was settled and only ever leaves; once it
\* has found the engine quiet, nothing but an empty flush can happen.
FreezeShape ==
    /\ ui = "freezing" =>
          /\ ~play_request /\ ~seek_request /\ audio_command \in {"STOP", "PAUSE"}
          /\ Quitting
    /\ ui \in {"arming", "asleep"} =>
          /\ ~play_request /\ ~seek_request
          /\ pc \in {"idle", "flush"} /\ ~held_pcm

\* A bookmark is armed only while no routine runs and none is asked for, and it
\* is what the screen shows.
BookmarkShape ==
    restart_fresh /= NoRestart =>
        /\ pc \in Outside /\ ~play_request /\ ~seek_request
        /\ current_filepath = restart_fresh.path /\ progress_current = restart_fresh.pos

\* Unless a buffer could not be allocated, the device is reported closed
\* wherever no stream is left.
ClosedShape ==
    "memory" \notin Faults =>
        (pc \in {"idle", "flush", "open", "device", "leave"} /\ ~held_pcm => ~pcm_device_open)

\* Every step of the thread leads a frozen engine closer to its idle loop, and no call leads it away.
LEMMA NextKeepsFreeze == FlagTypes /\ RoutineShape /\ StreamShape /\ FreezeShape /\ Next => FreezeShape'
  <1> SUFFICES ASSUME FlagTypes, RoutineShape, StreamShape, FreezeShape, Next PROVE FreezeShape'
    OBVIOUS
  <1> USE DEF FlagTypes, RoutineShape, StreamShape, FreezeShape, Quitting, Outside, Goto, track, flags,
     thread, request, seeking, bar, callers
  <1>1. CASE PickUp
    BY <1>1 DEF PickUp
  <1>2. CASE FlushRequested
    BY <1>2 DEF FlushRequested
  <1>3. CASE HoldTimesOut
    BY <1>3 DEF HoldTimesOut
  <1>4. CASE TakeHeldOut
    BY <1>4 DEF TakeHeldOut
  <1>5. CASE CloseHeld
    BY <1>5 DEF CloseHeld
  <1>6. CASE OpenFails
    BY <1>6 DEF OpenFails, HaltTransport
  <1>7. CASE OpenTrack
    BY <1>7 DEF OpenTrack, opening_position
  <1>8. CASE ReuseHeldStream
    BY <1>8 DEF ReuseHeldStream, StartTrack, held_pcm_emptied
  <1>9. CASE OpenStream
    BY <1>9 DEF OpenStream, StartTrack, held_pcm_emptied
  <1>10. CASE OpenStreamFails
    BY <1>10 DEF OpenStreamFails, HaltTransport
  <1>11. CASE NoBuffer
    BY <1>11 DEF NoBuffer, HaltTransport
  <1>12. CASE LeaveLoop
    BY <1>12 DEF LeaveLoop, Replaced
  <1>13. CASE TakeSeek
    BY <1>13 DEF TakeSeek, SeekDue, Replaced
  <1>14. CASE SeekWaits
    BY <1>14 DEF SeekWaits
  <1>15. CASE FinishSeek
    BY <1>15 DEF FinishSeek, StillPaused
  <1>16. CASE EnterPause
    BY <1>16 DEF EnterPause, Replaced
  <1>17. CASE RewindUnheard
    BY <1>17 DEF RewindUnheard
  <1>18. CASE ReleaseWhilePaused
    BY <1>18 DEF ReleaseWhilePaused, Replaced
  <1>19. CASE Unpause
    BY <1>19 DEF Unpause, MayPlay, Replaced
  <1>20. CASE UnpauseFails
    BY <1>20 DEF UnpauseFails, MayPlay, Replaced, HaltTransport
  <1>21. CASE KeepPlaying
    BY <1>21 DEF KeepPlaying, MayPlay, Replaced
  <1>22. CASE Reroute
    BY <1>22 DEF Reroute
  <1>23. CASE RerouteFails
    BY <1>23 DEF RerouteFails, HaltTransport
  <1>24. CASE ReadBlock
    BY <1>24 DEF ReadBlock, BlocksLeft
  <1>25. CASE ReadStarves
    BY <1>25 DEF ReadStarves
  <1>26. CASE ReadNothing
    BY <1>26 DEF ReadNothing
  <1>27. CASE CheckEmptyRead
    BY <1>27 DEF CheckEmptyRead, CommandPending
  <1>28. CASE NothingDecoded
    BY <1>28 DEF NothingDecoded
  <1>29. CASE EndOfTrack
    BY <1>29 DEF EndOfTrack, HaltTransport, natural_end, cut_short
  <1>30. CASE WriteInterrupted
    BY <1>30 DEF WriteInterrupted, CommandPending
  <1>31. CASE WriteBlock
    BY <1>31 DEF WriteBlock
  <1>32. CASE WriteFails
    BY <1>32 DEF WriteFails
  <1>33. CASE RetryTrack
    BY <1>33 DEF RetryTrack
  <1>34. CASE RetryRefused
    BY <1>34 DEF RetryRefused
  <1>35. CASE GiveUp
    BY <1>35 DEF GiveUp, HaltTransport
  <1>36. CASE MarkStopped
    BY <1>36 DEF MarkStopped
  <1>37. CASE HoldStream
    BY <1>37 DEF HoldStream
  <1>38. CASE CloseStream
    BY <1>38 DEF CloseStream
  <1>39. CASE EndContext
    BY <1>39 DEF EndContext
  <1>40. ASSUME NEW f \in Files, audio_play(f) PROVE FreezeShape'
    BY <1>40 DEF audio_play, Free, Request
  <1>41. ASSUME NEW f \in Files, PlayAt(f) PROVE FreezeShape'
    BY <1>41 DEF PlayAt, audio_play_at, StartAt, Free, Request
  <1>42. ASSUME NEW f \in Files, PlayPaused(f) PROVE FreezeShape'
    BY <1>42 DEF PlayPaused, audio_play_paused, StartAt, Free, Request
  <1>43. ASSUME NEW who \in Pausers, DecideToPause(who) PROVE FreezeShape'
    BY <1>43 DEF DecideToPause
  <1>44. ASSUME NEW who \in Pausers, audio_pause(who) PROVE FreezeShape'
    BY <1>44 DEF audio_pause
  <1>45. CASE audio_resume
    BY <1>45 DEF audio_resume, audio_play_at, StartAt, Free, Request
  <1>46. CASE audio_stop
    BY <1>46 DEF audio_stop
  <1>47. CASE audio_take_completion
    BY <1>47 DEF audio_take_completion, Free
  <1>48. CASE audio_get_progress
    BY <1>48 DEF audio_get_progress, Free
  <1>49. ASSUME NEW seconds \in Positions, audio_seek(seconds) PROVE FreezeShape'
    BY <1>49 DEF audio_seek, Free
  <1>50. CASE audio_suspend_quiesce
    BY <1>50 DEF audio_suspend_quiesce
  <1>51. CASE Freeze
    BY <1>51 DEF Freeze, Free, Settled
  <1>52. CASE FreezeIsClean
    BY <1>52 DEF FreezeIsClean, Quiet
  <1>53. CASE FreezeTimesOut
    BY <1>53 DEF FreezeTimesOut, Quiet
  <1>54. CASE Sleep
    BY <1>54 DEF Sleep
  <1>55. CASE Wake
    BY <1>55 DEF Wake
  <1> QED
    BY <1>1, <1>2, <1>3, <1>4, <1>5, <1>6, <1>7, <1>8, <1>9, <1>10, <1>11, <1>12, <1>13, <1>14, <1>15,
       <1>16, <1>17, <1>18, <1>19, <1>20, <1>21, <1>22, <1>23, <1>24, <1>25, <1>26, <1>27, <1>28,
       <1>29, <1>30, <1>31, <1>32, <1>33, <1>34, <1>35, <1>36, <1>37, <1>38, <1>39, <1>40, <1>41,
       <1>42, <1>43, <1>44, <1>45, <1>46, <1>47, <1>48, <1>49, <1>50, <1>51, <1>52, <1>53, <1>54, <1>55
       DEF Next, Thread, Callers

\* Every step keeps an armed bookmark equal to what the screen shows.
LEMMA NextKeepsBookmark == FlagTypes /\ CallerTypes /\ FreezeShape /\ BookmarkShape /\ Next => BookmarkShape'
  <1> SUFFICES ASSUME FlagTypes, CallerTypes, FreezeShape, BookmarkShape, Next PROVE BookmarkShape'
    OBVIOUS
  <1> USE DEF FlagTypes, CallerTypes, Bookmarks, FreezeShape, BookmarkShape, Outside, Goto, track,
     flags, thread, request, seeking, bar, callers
  <1>1. CASE PickUp
    BY <1>1 DEF PickUp
  <1>2. CASE FlushRequested
    BY <1>2 DEF FlushRequested
  <1>3. CASE HoldTimesOut
    BY <1>3 DEF HoldTimesOut
  <1>4. CASE TakeHeldOut
    BY <1>4 DEF TakeHeldOut
  <1>5. CASE CloseHeld
    BY <1>5 DEF CloseHeld
  <1>6. CASE OpenFails
    BY <1>6 DEF OpenFails, HaltTransport
  <1>7. CASE OpenTrack
    BY <1>7 DEF OpenTrack, opening_position
  <1>8. CASE ReuseHeldStream
    BY <1>8 DEF ReuseHeldStream, StartTrack, held_pcm_emptied
  <1>9. CASE OpenStream
    BY <1>9 DEF OpenStream, StartTrack, held_pcm_emptied
  <1>10. CASE OpenStreamFails
    BY <1>10 DEF OpenStreamFails, HaltTransport
  <1>11. CASE NoBuffer
    BY <1>11 DEF NoBuffer, HaltTransport
  <1>12. CASE LeaveLoop
    BY <1>12 DEF LeaveLoop, Replaced
  <1>13. CASE TakeSeek
    BY <1>13 DEF TakeSeek, SeekDue, Replaced
  <1>14. CASE SeekWaits
    BY <1>14 DEF SeekWaits
  <1>15. CASE FinishSeek
    BY <1>15 DEF FinishSeek, StillPaused
  <1>16. CASE EnterPause
    BY <1>16 DEF EnterPause, Replaced
  <1>17. CASE RewindUnheard
    BY <1>17 DEF RewindUnheard
  <1>18. CASE ReleaseWhilePaused
    BY <1>18 DEF ReleaseWhilePaused, Replaced
  <1>19. CASE Unpause
    BY <1>19 DEF Unpause, MayPlay, Replaced
  <1>20. CASE UnpauseFails
    BY <1>20 DEF UnpauseFails, MayPlay, Replaced, HaltTransport
  <1>21. CASE KeepPlaying
    BY <1>21 DEF KeepPlaying, MayPlay, Replaced
  <1>22. CASE Reroute
    BY <1>22 DEF Reroute
  <1>23. CASE RerouteFails
    BY <1>23 DEF RerouteFails, HaltTransport
  <1>24. CASE ReadBlock
    BY <1>24 DEF ReadBlock, BlocksLeft
  <1>25. CASE ReadStarves
    BY <1>25 DEF ReadStarves
  <1>26. CASE ReadNothing
    BY <1>26 DEF ReadNothing
  <1>27. CASE CheckEmptyRead
    BY <1>27 DEF CheckEmptyRead, CommandPending
  <1>28. CASE NothingDecoded
    BY <1>28 DEF NothingDecoded
  <1>29. CASE EndOfTrack
    BY <1>29 DEF EndOfTrack, HaltTransport, natural_end, cut_short
  <1>30. CASE WriteInterrupted
    BY <1>30 DEF WriteInterrupted, CommandPending
  <1>31. CASE WriteBlock
    BY <1>31 DEF WriteBlock
  <1>32. CASE WriteFails
    BY <1>32 DEF WriteFails
  <1>33. CASE RetryTrack
    BY <1>33 DEF RetryTrack
  <1>34. CASE RetryRefused
    BY <1>34 DEF RetryRefused
  <1>35. CASE GiveUp
    BY <1>35 DEF GiveUp, HaltTransport
  <1>36. CASE MarkStopped
    BY <1>36 DEF MarkStopped
  <1>37. CASE HoldStream
    BY <1>37 DEF HoldStream
  <1>38. CASE CloseStream
    BY <1>38 DEF CloseStream
  <1>39. CASE EndContext
    BY <1>39 DEF EndContext
  <1>40. ASSUME NEW f \in Files, audio_play(f) PROVE BookmarkShape'
    BY <1>40 DEF audio_play, Free, Request
  <1>41. ASSUME NEW f \in Files, PlayAt(f) PROVE BookmarkShape'
    BY <1>41 DEF PlayAt, audio_play_at, StartAt, Free, Request
  <1>42. ASSUME NEW f \in Files, PlayPaused(f) PROVE BookmarkShape'
    BY <1>42 DEF PlayPaused, audio_play_paused, StartAt, Free, Request
  <1>43. ASSUME NEW who \in Pausers, DecideToPause(who) PROVE BookmarkShape'
    BY <1>43 DEF DecideToPause
  <1>44. ASSUME NEW who \in Pausers, audio_pause(who) PROVE BookmarkShape'
    BY <1>44 DEF audio_pause
  <1>45. CASE audio_resume
    BY <1>45 DEF audio_resume, audio_play_at, StartAt, Free, Request
  <1>46. CASE audio_stop
    BY <1>46 DEF audio_stop
  <1>47. CASE audio_take_completion
    BY <1>47 DEF audio_take_completion, Free
  <1>48. CASE audio_get_progress
    BY <1>48 DEF audio_get_progress, Free
  <1>49. ASSUME NEW seconds \in Positions, audio_seek(seconds) PROVE BookmarkShape'
    BY <1>49 DEF audio_seek, Free
  <1>50. CASE audio_suspend_quiesce
    BY <1>50 DEF audio_suspend_quiesce
  <1>51. CASE Freeze
    BY <1>51 DEF Freeze, Free, Settled
  <1>52. CASE FreezeIsClean
    BY <1>52 DEF FreezeIsClean, Quiet
  <1>53. CASE FreezeTimesOut
    BY <1>53 DEF FreezeTimesOut, Quiet
  <1>54. CASE Sleep
    BY <1>54 DEF Sleep
  <1>55. CASE Wake
    BY <1>55 DEF Wake
  <1> QED
    BY <1>1, <1>2, <1>3, <1>4, <1>5, <1>6, <1>7, <1>8, <1>9, <1>10, <1>11, <1>12, <1>13, <1>14, <1>15,
       <1>16, <1>17, <1>18, <1>19, <1>20, <1>21, <1>22, <1>23, <1>24, <1>25, <1>26, <1>27, <1>28,
       <1>29, <1>30, <1>31, <1>32, <1>33, <1>34, <1>35, <1>36, <1>37, <1>38, <1>39, <1>40, <1>41,
       <1>42, <1>43, <1>44, <1>45, <1>46, <1>47, <1>48, <1>49, <1>50, <1>51, <1>52, <1>53, <1>54, <1>55
       DEF Next, Thread, Callers

\* Every step that gives up the last stream reports it.
LEMMA NextKeepsClosed == FlagTypes /\ StreamShape /\ ClosedShape /\ Next => ClosedShape'
  <1> SUFFICES ASSUME FlagTypes, StreamShape, ClosedShape, Next PROVE ClosedShape'
    OBVIOUS
  <1> USE DEF FlagTypes, StreamShape, ClosedShape, Outside, Goto, track, flags, thread, request,
     seeking, bar, callers
  <1>1. CASE PickUp
    BY <1>1 DEF PickUp
  <1>2. CASE FlushRequested
    BY <1>2 DEF FlushRequested
  <1>3. CASE HoldTimesOut
    BY <1>3 DEF HoldTimesOut
  <1>4. CASE TakeHeldOut
    BY <1>4 DEF TakeHeldOut
  <1>5. CASE CloseHeld
    BY <1>5 DEF CloseHeld
  <1>6. CASE OpenFails
    BY <1>6 DEF OpenFails, HaltTransport
  <1>7. CASE OpenTrack
    BY <1>7 DEF OpenTrack, opening_position
  <1>8. CASE ReuseHeldStream
    BY <1>8 DEF ReuseHeldStream, StartTrack, held_pcm_emptied
  <1>9. CASE OpenStream
    BY <1>9 DEF OpenStream, StartTrack, held_pcm_emptied
  <1>10. CASE OpenStreamFails
    BY <1>10 DEF OpenStreamFails, HaltTransport
  <1>11. CASE NoBuffer
    BY <1>11 DEF NoBuffer, HaltTransport
  <1>12. CASE LeaveLoop
    BY <1>12 DEF LeaveLoop, Replaced
  <1>13. CASE TakeSeek
    BY <1>13 DEF TakeSeek, SeekDue, Replaced
  <1>14. CASE SeekWaits
    BY <1>14 DEF SeekWaits
  <1>15. CASE FinishSeek
    BY <1>15 DEF FinishSeek, StillPaused
  <1>16. CASE EnterPause
    BY <1>16 DEF EnterPause, Replaced
  <1>17. CASE RewindUnheard
    BY <1>17 DEF RewindUnheard
  <1>18. CASE ReleaseWhilePaused
    BY <1>18 DEF ReleaseWhilePaused, Replaced
  <1>19. CASE Unpause
    BY <1>19 DEF Unpause, MayPlay, Replaced
  <1>20. CASE UnpauseFails
    BY <1>20 DEF UnpauseFails, MayPlay, Replaced, HaltTransport
  <1>21. CASE KeepPlaying
    BY <1>21 DEF KeepPlaying, MayPlay, Replaced
  <1>22. CASE Reroute
    BY <1>22 DEF Reroute
  <1>23. CASE RerouteFails
    BY <1>23 DEF RerouteFails, HaltTransport
  <1>24. CASE ReadBlock
    BY <1>24 DEF ReadBlock, BlocksLeft
  <1>25. CASE ReadStarves
    BY <1>25 DEF ReadStarves
  <1>26. CASE ReadNothing
    BY <1>26 DEF ReadNothing
  <1>27. CASE CheckEmptyRead
    BY <1>27 DEF CheckEmptyRead, CommandPending
  <1>28. CASE NothingDecoded
    BY <1>28 DEF NothingDecoded
  <1>29. CASE EndOfTrack
    BY <1>29 DEF EndOfTrack, HaltTransport, natural_end, cut_short
  <1>30. CASE WriteInterrupted
    BY <1>30 DEF WriteInterrupted, CommandPending
  <1>31. CASE WriteBlock
    BY <1>31 DEF WriteBlock
  <1>32. CASE WriteFails
    BY <1>32 DEF WriteFails
  <1>33. CASE RetryTrack
    BY <1>33 DEF RetryTrack
  <1>34. CASE RetryRefused
    BY <1>34 DEF RetryRefused
  <1>35. CASE GiveUp
    BY <1>35 DEF GiveUp, HaltTransport
  <1>36. CASE MarkStopped
    BY <1>36 DEF MarkStopped
  <1>37. CASE HoldStream
    BY <1>37 DEF HoldStream
  <1>38. CASE CloseStream
    BY <1>38 DEF CloseStream
  <1>39. CASE EndContext
    BY <1>39 DEF EndContext
  <1>40. CASE Callers
    BY <1>40, CallersLeaveTheThread DEF ThreadUnchanged
  <1> QED
    BY <1>1, <1>2, <1>3, <1>4, <1>5, <1>6, <1>7, <1>8, <1>9, <1>10, <1>11, <1>12, <1>13, <1>14, <1>15,
       <1>16, <1>17, <1>18, <1>19, <1>20, <1>21, <1>22, <1>23, <1>24, <1>25, <1>26, <1>27, <1>28,
       <1>29, <1>30, <1>31, <1>32, <1>33, <1>34, <1>35, <1>36, <1>37, <1>38, <1>39, <1>40 DEF Next,
       Thread

Shapes == RoutineShape /\ StreamShape /\ PauseShape /\ FreezeShape /\ BookmarkShape /\ ClosedShape

\* The inductive invariant.
IInv == Types /\ Shapes

\* The idle engine has these shapes.
LEMMA InitShapes == Init => Shapes
  BY DEF Init, Shapes, RoutineShape, StreamShape, PauseShape, FreezeShape, BookmarkShape, ClosedShape, Outside

\* A step that changes nothing keeps them.
LEMMA StutterKeepsShapes == Shapes /\ UNCHANGED vars => Shapes'
  <1> SUFFICES ASSUME Shapes, UNCHANGED vars PROVE Shapes'
    OBVIOUS
  <1> USE DEF Shapes, vars, request, seeking, bar, flags, track, callers, Outside
  <1>1. RoutineShape' /\ StreamShape' /\ PauseShape'
    BY DEF RoutineShape, StreamShape, PauseShape
  <1>2. FreezeShape'
    BY DEF FreezeShape, Quitting
  <1>3. BookmarkShape' /\ ClosedShape'
    BY DEF BookmarkShape, ClosedShape
  <1> QED
    BY <1>1, <1>2, <1>3

\* The invariant holds in every reachable state.
THEOREM InvariantHolds == Spec => []IInv
  <1>1. Init => IInv
    BY InitTypes, InitShapes DEF IInv, Types
  <1>2. IInv /\ [Next]_vars => IInv'
    <2> SUFFICES ASSUME IInv, [Next]_vars PROVE IInv'
      OBVIOUS
    <2>1. CASE UNCHANGED vars
      BY <2>1, StutterKeepsTypes, StutterKeepsShapes DEF IInv, Types
    <2>2. CASE Next
      <3>1. Types'
        BY <2>2, NextKeepsFlags, NextKeepsData, NextKeepsCallers DEF IInv, Types
      <3>2. RoutineShape' /\ StreamShape' /\ PauseShape' /\ ClosedShape'
        BY <2>2, NextKeepsRoutine, NextKeepsStream, NextKeepsPause, NextKeepsClosed DEF IInv, Types, Shapes
      <3>3. FreezeShape' /\ BookmarkShape'
        BY <2>2, NextKeepsFreeze, NextKeepsBookmark DEF IInv, Types, Shapes
      <3> QED
        BY <3>1, <3>2, <3>3 DEF IInv, Shapes
    <2> QED
      BY <2>1, <2>2
  <1> QED
    BY <1>1, <1>2, PTL DEF Spec

-----------------------------------------------------------------------------
(***************************************************************************)
(* What follows from it.                                                   *)
(***************************************************************************)

\* The thread never has a stream of its own beside a held one: their places
\* in the routine are disjoint.
THEOREM OneStreamHolds == Spec => []OneStream
  <1>1. IInv => OneStream
    BY DEF IInv, Shapes, StreamShape, Outside, OneStream
  <1> QED
    BY <1>1, InvariantHolds, PTL

\* mem is written over an engine with nothing running and nothing open.
THEOREM SuspendIsSafe == Spec => []SuspendSafe
  <1>1. IInv => SuspendSafe
    BY DEF IInv, Shapes, StreamShape, FreezeShape, Outside, SuspendSafe
  <1> QED
    BY <1>1, InvariantHolds, PTL

\* A block is read and written only with a stream, and not in a pause.
THEOREM WritesAreSafe == Spec => []WritesHaveAStream
  <1>1. IInv => WritesHaveAStream
    BY DEF IInv, Shapes, PauseShape, WritesHaveAStream
  <1> QED
    BY <1>1, InvariantHolds, PTL

\* One stream at most, and whoever writes has it.
THEOREM StreamIsSoundHolds == Spec => []StreamIsSound
  BY OneStreamHolds, WritesAreSafe, PTL DEF StreamIsSound


\* The bookmark of a suspend is what the screen shows.
THEOREM BookmarkHolds == Spec => []BookmarkIsCurrent
  <1>1. IInv => BookmarkIsCurrent
    BY DEF IInv, Shapes, BookmarkShape, BookmarkIsCurrent
  <1> QED
    BY <1>1, InvariantHolds, PTL

\* The flag that is read without a lock is right, if memory never runs out.
THEOREM FlagIsTruthful == ASSUME "memory" \notin Faults PROVE Spec => []DeviceFlagTruthful
  <1>1. IInv => DeviceFlagTruthful
    BY DEF IInv, Shapes, StreamShape, ClosedShape, DeviceFlagTruthful
  <1> QED
    BY <1>1, InvariantHolds, PTL

\* Only the end of a track sets the flag.
LEMMA OnlyEndsComplete == Next /\ track_completed' /\ ~track_completed => EndOfTrack
  <1> SUFFICES ASSUME Next, track_completed', ~track_completed, ~EndOfTrack PROVE FALSE
    OBVIOUS
  <1> USE DEF request, seeking, bar, flags, track, callers, thread
  <1>1. ~Callers
    BY Zenon DEF Callers, audio_play, PlayAt, PlayPaused, audio_play_at, audio_play_paused, StartAt,
       DecideToPause, audio_pause, audio_resume, audio_stop, audio_take_completion, audio_get_progress,
       audio_seek, audio_suspend_quiesce, Freeze, FreezeIsClean, FreezeTimesOut, Sleep, Wake
  <1>2. ~Thread
    BY Zenon DEF Thread, StartTrack, PickUp, FlushRequested, HoldTimesOut, TakeHeldOut, CloseHeld,
       OpenFails, OpenTrack, ReuseHeldStream, OpenStream, OpenStreamFails, NoBuffer, LeaveLoop,
       TakeSeek, SeekWaits, FinishSeek, EnterPause, RewindUnheard, ReleaseWhilePaused, Unpause,
       UnpauseFails, KeepPlaying, Reroute, RerouteFails, ReadBlock, ReadStarves, ReadNothing,
       CheckEmptyRead, NothingDecoded, WriteInterrupted, WriteBlock, WriteFails, RetryTrack,
       RetryRefused, GiveUp, MarkStopped, HoldStream, CloseStream, EndContext
  <1> QED
    BY <1>1, <1>2 DEF Next

\* A track is reported as completed only when its last block has been played,
\* but for a WAV, whose routine takes any empty read for the end.
THEOREM EndsAreRealHolds == Spec => EndsAreReal
  <1>1. TypeOK /\ [Next]_vars => [track_completed' /\ ~track_completed => played = Len \/ filepath \in Wav]_vars
    <2> SUFFICES ASSUME TypeOK, Next, track_completed', ~track_completed, filepath \notin Wav PROVE played = Len
      OBVIOUS
    <2>1. EndOfTrack
      BY OnlyEndsComplete
    <2>2. ~(played < Len)
      BY <2>1, Zenon DEF EndOfTrack, natural_end, cut_short
    <2> QED
      BY <2>2, LenAssumption DEF TypeOK, Positions
  <1> QED
    BY <1>1, TypeCorrect, PTL DEF Spec, EndsAreReal

-----------------------------------------------------------------------------
(***************************************************************************)
(* Every step of the engine is a step of the abstract transport, or none.  *)
(***************************************************************************)

\* What is queued, running or bookmarked is a track.
NamesShape ==
    /\ play_request => current_filepath \in Files
    /\ playback_context_active => filepath \in Files
    /\ restart_fresh /= NoRestart => restart_fresh.path \in Files
    /\ frozen /= NoRestart => frozen.path \in Files

\* Every step queues, runs and bookmarks tracks only.
LEMMA NextKeepsNames == FlagTypes /\ DataTypes /\ CallerTypes /\ RoutineShape /\ NamesShape /\ Next => NamesShape'
  <1> SUFFICES ASSUME FlagTypes, DataTypes, CallerTypes, RoutineShape, NamesShape, Next PROVE NamesShape'
    OBVIOUS
  <1> USE DEF FlagTypes, DataTypes, CallerTypes, Bookmarks, RoutineShape, NamesShape, Outside, Goto,
     track, flags, thread, request, seeking, bar, callers
  <1>1. CASE PickUp
    BY <1>1 DEF PickUp
  <1>2. CASE FlushRequested
    BY <1>2 DEF FlushRequested
  <1>3. CASE HoldTimesOut
    BY <1>3 DEF HoldTimesOut
  <1>4. CASE TakeHeldOut
    BY <1>4 DEF TakeHeldOut
  <1>5. CASE CloseHeld
    BY <1>5 DEF CloseHeld
  <1>6. CASE OpenFails
    BY <1>6 DEF OpenFails, HaltTransport
  <1>7. CASE OpenTrack
    BY <1>7 DEF OpenTrack, opening_position
  <1>8. CASE ReuseHeldStream
    BY <1>8 DEF ReuseHeldStream, StartTrack, held_pcm_emptied
  <1>9. CASE OpenStream
    BY <1>9 DEF OpenStream, StartTrack, held_pcm_emptied
  <1>10. CASE OpenStreamFails
    BY <1>10 DEF OpenStreamFails, HaltTransport
  <1>11. CASE NoBuffer
    BY <1>11 DEF NoBuffer, HaltTransport
  <1>12. CASE LeaveLoop
    BY <1>12 DEF LeaveLoop, Replaced
  <1>13. CASE TakeSeek
    BY <1>13 DEF TakeSeek, SeekDue, Replaced
  <1>14. CASE SeekWaits
    BY <1>14 DEF SeekWaits
  <1>15. CASE FinishSeek
    BY <1>15 DEF FinishSeek, StillPaused
  <1>16. CASE EnterPause
    BY <1>16 DEF EnterPause, Replaced
  <1>17. CASE RewindUnheard
    BY <1>17 DEF RewindUnheard
  <1>18. CASE ReleaseWhilePaused
    BY <1>18 DEF ReleaseWhilePaused, Replaced
  <1>19. CASE Unpause
    BY <1>19 DEF Unpause, MayPlay, Replaced
  <1>20. CASE UnpauseFails
    BY <1>20 DEF UnpauseFails, MayPlay, Replaced, HaltTransport
  <1>21. CASE KeepPlaying
    BY <1>21 DEF KeepPlaying, MayPlay, Replaced
  <1>22. CASE Reroute
    BY <1>22 DEF Reroute
  <1>23. CASE RerouteFails
    BY <1>23 DEF RerouteFails, HaltTransport
  <1>24. CASE ReadBlock
    BY <1>24 DEF ReadBlock, BlocksLeft
  <1>25. CASE ReadStarves
    BY <1>25 DEF ReadStarves
  <1>26. CASE ReadNothing
    BY <1>26 DEF ReadNothing
  <1>27. CASE CheckEmptyRead
    BY <1>27 DEF CheckEmptyRead, CommandPending
  <1>28. CASE NothingDecoded
    BY <1>28 DEF NothingDecoded
  <1>29. CASE EndOfTrack
    BY <1>29 DEF EndOfTrack, HaltTransport, natural_end, cut_short
  <1>30. CASE WriteInterrupted
    BY <1>30 DEF WriteInterrupted, CommandPending
  <1>31. CASE WriteBlock
    BY <1>31 DEF WriteBlock
  <1>32. CASE WriteFails
    BY <1>32 DEF WriteFails
  <1>33. CASE RetryTrack
    BY <1>33 DEF RetryTrack
  <1>34. CASE RetryRefused
    BY <1>34 DEF RetryRefused
  <1>35. CASE GiveUp
    BY <1>35 DEF GiveUp, HaltTransport
  <1>36. CASE MarkStopped
    BY <1>36 DEF MarkStopped
  <1>37. CASE HoldStream
    BY <1>37 DEF HoldStream
  <1>38. CASE CloseStream
    BY <1>38 DEF CloseStream
  <1>39. CASE EndContext
    BY <1>39 DEF EndContext
  <1>40. ASSUME NEW f \in Files, audio_play(f) PROVE NamesShape'
    BY <1>40 DEF audio_play, Free, Request
  <1>41. ASSUME NEW f \in Files, PlayAt(f) PROVE NamesShape'
    BY <1>41 DEF PlayAt, audio_play_at, StartAt, Free, Request
  <1>42. ASSUME NEW f \in Files, PlayPaused(f) PROVE NamesShape'
    BY <1>42 DEF PlayPaused, audio_play_paused, StartAt, Free, Request
  <1>43. ASSUME NEW who \in Pausers, DecideToPause(who) PROVE NamesShape'
    BY <1>43 DEF DecideToPause
  <1>44. ASSUME NEW who \in Pausers, audio_pause(who) PROVE NamesShape'
    BY <1>44 DEF audio_pause
  <1>45. CASE audio_resume
    BY <1>45 DEF audio_resume, audio_play_at, StartAt, Free, Request
  <1>46. CASE audio_stop
    BY <1>46 DEF audio_stop
  <1>47. CASE audio_take_completion
    BY <1>47 DEF audio_take_completion, Free
  <1>48. CASE audio_get_progress
    BY <1>48 DEF audio_get_progress, Free
  <1>49. ASSUME NEW seconds \in Positions, audio_seek(seconds) PROVE NamesShape'
    BY <1>49 DEF audio_seek, Free
  <1>50. CASE audio_suspend_quiesce
    BY <1>50 DEF audio_suspend_quiesce
  <1>51. CASE Freeze
    BY <1>51 DEF Freeze, Free, Settled
  <1>52. CASE FreezeIsClean
    BY <1>52 DEF FreezeIsClean, Quiet
  <1>53. CASE FreezeTimesOut
    BY <1>53 DEF FreezeTimesOut, Quiet
  <1>54. CASE Sleep
    BY <1>54 DEF Sleep
  <1>55. CASE Wake
    BY <1>55 DEF Wake
  <1> QED
    BY <1>1, <1>2, <1>3, <1>4, <1>5, <1>6, <1>7, <1>8, <1>9, <1>10, <1>11, <1>12, <1>13, <1>14, <1>15,
       <1>16, <1>17, <1>18, <1>19, <1>20, <1>21, <1>22, <1>23, <1>24, <1>25, <1>26, <1>27, <1>28,
       <1>29, <1>30, <1>31, <1>32, <1>33, <1>34, <1>35, <1>36, <1>37, <1>38, <1>39, <1>40, <1>41,
       <1>42, <1>43, <1>44, <1>45, <1>46, <1>47, <1>48, <1>49, <1>50, <1>51, <1>52, <1>53, <1>54, <1>55
       DEF Next, Thread, Callers

\* What is queued, running or bookmarked is a track, in every reachable state.
LEMMA NamesHold == Spec => []NamesShape
  <1>1. Init => NamesShape
    BY DEF Init, NamesShape
  <1>2. IInv /\ NamesShape /\ [Next]_vars => NamesShape'
    <2> SUFFICES ASSUME IInv, NamesShape, [Next]_vars PROVE NamesShape'
      OBVIOUS
    <2>1. CASE UNCHANGED vars
      BY <2>1 DEF NamesShape, vars, request, flags, track, callers
    <2>2. CASE Next
      BY <2>2, NextKeepsNames DEF IInv, Types, Shapes
    <2> QED
      BY <2>1, <2>2
  <1> QED
    BY <1>1, <1>2, InvariantHolds, PTL DEF Spec

\* A step of the engine is a step of the transport, or none.
LEMMA StepImplementsTransport == FlagTypes /\ RoutineShape /\ StreamShape /\ PauseShape /\ FreezeShape /\ NamesShape /\ Next => [T!Next]_(T!tvars)
  <1> SUFFICES ASSUME FlagTypes, RoutineShape, StreamShape, PauseShape, FreezeShape, NamesShape, Next PROVE [T!Next]_(T!tvars)
    OBVIOUS
  <1> USE DEF FlagTypes, RoutineShape, StreamShape, PauseShape, FreezeShape, NamesShape, Outside,
     T!Next, T!Ask, T!Start, T!Finish, T!Open, T!Close, T!Hold, T!tvars, Goto, track, flags, thread,
     request, seeking, bar, callers
  <1>1. CASE PickUp
    BY <1>1, FilesAssumption DEF PickUp
  <1>2. CASE FlushRequested
    BY <1>2, FilesAssumption DEF FlushRequested
  <1>3. CASE HoldTimesOut
    BY <1>3, FilesAssumption DEF HoldTimesOut
  <1>4. CASE TakeHeldOut
    BY <1>4, FilesAssumption DEF TakeHeldOut
  <1>5. CASE CloseHeld
    BY <1>5, FilesAssumption DEF CloseHeld
  <1>6. CASE OpenFails
    BY <1>6, FilesAssumption DEF OpenFails, HaltTransport
  <1>7. CASE OpenTrack
    BY <1>7, FilesAssumption DEF OpenTrack, opening_position
  <1>8. CASE ReuseHeldStream
    BY <1>8, FilesAssumption DEF ReuseHeldStream, StartTrack, held_pcm_emptied
  <1>9. CASE OpenStream
    BY <1>9, FilesAssumption DEF OpenStream, StartTrack, held_pcm_emptied
  <1>10. CASE OpenStreamFails
    BY <1>10, FilesAssumption DEF OpenStreamFails, HaltTransport
  <1>11. CASE NoBuffer
    BY <1>11, FilesAssumption DEF NoBuffer, HaltTransport
  <1>12. CASE LeaveLoop
    BY <1>12, FilesAssumption DEF LeaveLoop, Replaced
  <1>13. CASE TakeSeek
    BY <1>13, FilesAssumption DEF TakeSeek, SeekDue, Replaced
  <1>14. CASE SeekWaits
    BY <1>14, FilesAssumption DEF SeekWaits
  <1>15. CASE FinishSeek
    BY <1>15, FilesAssumption DEF FinishSeek, StillPaused
  <1>16. CASE EnterPause
    BY <1>16, FilesAssumption DEF EnterPause, Replaced
  <1>17. CASE RewindUnheard
    BY <1>17, FilesAssumption DEF RewindUnheard
  <1>18. CASE ReleaseWhilePaused
    BY <1>18, FilesAssumption DEF ReleaseWhilePaused, Replaced
  <1>19. CASE Unpause
    BY <1>19, FilesAssumption DEF Unpause, MayPlay, Replaced
  <1>20. CASE UnpauseFails
    BY <1>20, FilesAssumption DEF UnpauseFails, MayPlay, Replaced, HaltTransport
  <1>21. CASE KeepPlaying
    BY <1>21, FilesAssumption DEF KeepPlaying, MayPlay, Replaced
  <1>22. CASE Reroute
    BY <1>22, FilesAssumption DEF Reroute
  <1>23. CASE RerouteFails
    BY <1>23, FilesAssumption DEF RerouteFails, HaltTransport
  <1>24. CASE ReadBlock
    BY <1>24, FilesAssumption DEF ReadBlock, BlocksLeft
  <1>25. CASE ReadStarves
    BY <1>25, FilesAssumption DEF ReadStarves
  <1>26. CASE ReadNothing
    BY <1>26, FilesAssumption DEF ReadNothing
  <1>27. CASE CheckEmptyRead
    BY <1>27, FilesAssumption DEF CheckEmptyRead, CommandPending
  <1>28. CASE NothingDecoded
    BY <1>28, FilesAssumption DEF NothingDecoded
  <1>29. CASE EndOfTrack
    BY <1>29, FilesAssumption DEF EndOfTrack, HaltTransport, natural_end, cut_short
  <1>30. CASE WriteInterrupted
    BY <1>30, FilesAssumption DEF WriteInterrupted, CommandPending
  <1>31. CASE WriteBlock
    BY <1>31, FilesAssumption DEF WriteBlock
  <1>32. CASE WriteFails
    BY <1>32, FilesAssumption DEF WriteFails
  <1>33. CASE RetryTrack
    BY <1>33, FilesAssumption DEF RetryTrack
  <1>34. CASE RetryRefused
    BY <1>34, FilesAssumption DEF RetryRefused
  <1>35. CASE GiveUp
    BY <1>35, FilesAssumption DEF GiveUp, HaltTransport
  <1>36. CASE MarkStopped
    BY <1>36, FilesAssumption DEF MarkStopped
  <1>37. CASE HoldStream
    BY <1>37, FilesAssumption DEF HoldStream
  <1>38. CASE CloseStream
    BY <1>38, FilesAssumption DEF CloseStream
  <1>39. CASE EndContext
    BY <1>39, FilesAssumption DEF EndContext
  <1>40. ASSUME NEW f \in Files, audio_play(f) PROVE [T!Next]_(T!tvars)
    BY <1>40, FilesAssumption DEF audio_play, Free, Request
  <1>41. ASSUME NEW f \in Files, PlayAt(f) PROVE [T!Next]_(T!tvars)
    BY <1>41, FilesAssumption DEF PlayAt, audio_play_at, StartAt, Free, Request
  <1>42. ASSUME NEW f \in Files, PlayPaused(f) PROVE [T!Next]_(T!tvars)
    BY <1>42, FilesAssumption DEF PlayPaused, audio_play_paused, StartAt, Free, Request
  <1>43. ASSUME NEW who \in Pausers, DecideToPause(who) PROVE [T!Next]_(T!tvars)
    BY <1>43, FilesAssumption DEF DecideToPause
  <1>44. ASSUME NEW who \in Pausers, audio_pause(who) PROVE [T!Next]_(T!tvars)
    BY <1>44, FilesAssumption DEF audio_pause
  <1>45. CASE audio_resume
    BY <1>45, FilesAssumption DEF audio_resume, audio_play_at, StartAt, Free, Request
  <1>46. CASE audio_stop
    BY <1>46, FilesAssumption DEF audio_stop
  <1>47. CASE audio_take_completion
    BY <1>47, FilesAssumption DEF audio_take_completion, Free
  <1>48. CASE audio_get_progress
    BY <1>48, FilesAssumption DEF audio_get_progress, Free
  <1>49. ASSUME NEW seconds \in Positions, audio_seek(seconds) PROVE [T!Next]_(T!tvars)
    BY <1>49, FilesAssumption DEF audio_seek, Free
  <1>50. CASE audio_suspend_quiesce
    BY <1>50, FilesAssumption DEF audio_suspend_quiesce
  <1>51. CASE Freeze
    BY <1>51, FilesAssumption DEF Freeze, Free, Settled
  <1>52. CASE FreezeIsClean
    BY <1>52, FilesAssumption DEF FreezeIsClean, Quiet
  <1>53. CASE FreezeTimesOut
    BY <1>53, FilesAssumption DEF FreezeTimesOut, Quiet
  <1>54. CASE Sleep
    BY <1>54, FilesAssumption DEF Sleep
  <1>55. CASE Wake
    BY <1>55, FilesAssumption DEF Wake
  <1> QED
    BY <1>1, <1>2, <1>3, <1>4, <1>5, <1>6, <1>7, <1>8, <1>9, <1>10, <1>11, <1>12, <1>13, <1>14, <1>15,
       <1>16, <1>17, <1>18, <1>19, <1>20, <1>21, <1>22, <1>23, <1>24, <1>25, <1>26, <1>27, <1>28,
       <1>29, <1>30, <1>31, <1>32, <1>33, <1>34, <1>35, <1>36, <1>37, <1>38, <1>39, <1>40, <1>41,
       <1>42, <1>43, <1>44, <1>45, <1>46, <1>47, <1>48, <1>49, <1>50, <1>51, <1>52, <1>53, <1>54, <1>55
       DEF Next, Thread, Callers

\* The engine implements the transport, but for the latter's fairness.
THEOREM EngineImplementsTransport == Spec => T!Init /\ [][T!Next]_(T!tvars)
  <1>1. Init => T!Init
    BY DEF Init, T!Init
  <1>2. IInv /\ NamesShape /\ [Next]_vars => [T!Next]_(T!tvars)
    <2> SUFFICES ASSUME IInv, NamesShape, [Next]_vars PROVE [T!Next]_(T!tvars)
      OBVIOUS
    <2>1. CASE UNCHANGED vars
      BY <2>1 DEF T!tvars, vars, request, flags, track
    <2>2. CASE Next
      BY <2>2, StepImplementsTransport DEF IInv, Types, Shapes
    <2> QED
      BY <2>1, <2>2
  <1> QED
    BY <1>1, <1>2, InvariantHolds, NamesHold, PTL DEF Spec

-----------------------------------------------------------------------------
(***************************************************************************)
(* What the callers asked last stands: AudioPromises.                      *)
(***************************************************************************)

\* The track last asked for is the one queued, or the one running; a cancelled
\* engine has no command to play; and a seek that waits is of the track that the
\* engine is to play.
AskedShape ==
    /\ play_request \/ pc \notin Outside => current_filepath = wanted
    /\ ~play_request /\ pc \notin Outside => filepath = wanted
    /\ cancelled => audio_command \in {"STOP", "PAUSE"}
    /\ 0 \notin StartsAt /\ seek_request => seek_of = current_filepath

\* What the thread may do to what it was asked, but for its retry.
ThreadObeys ==
    /\ current_filepath' = current_filepath
    /\ seek_request' => seek_request
    /\ \/ audio_command' \in {audio_command, "STOP"}
       \/ audio_command \in {"PLAY", "RESUME"}
    /\ \/ play_request' = play_request /\ filepath' = filepath /\ (pc \in Outside => pc' \in Outside)
       \/ play_request /\ ~play_request' /\ filepath' = current_filepath

LEMMA ThreadStepsObey == Thread /\ ~RetryTrack => ThreadObeys
  <1> SUFFICES ASSUME Thread, ~RetryTrack PROVE ThreadObeys
    OBVIOUS
  <1> USE DEF ThreadObeys, Outside, Goto, track, flags, request, seeking
  <1>1. CASE PickUp
    BY <1>1 DEF PickUp
  <1>2. CASE FlushRequested
    BY <1>2 DEF FlushRequested
  <1>3. CASE HoldTimesOut
    BY <1>3 DEF HoldTimesOut
  <1>4. CASE TakeHeldOut
    BY <1>4 DEF TakeHeldOut
  <1>5. CASE CloseHeld
    BY <1>5 DEF CloseHeld
  <1>6. CASE OpenFails
    BY <1>6 DEF OpenFails, HaltTransport
  <1>7. CASE OpenTrack
    BY <1>7 DEF OpenTrack
  <1>8. CASE ReuseHeldStream
    BY <1>8 DEF ReuseHeldStream, StartTrack
  <1>9. CASE OpenStream
    BY <1>9 DEF OpenStream, StartTrack
  <1>10. CASE OpenStreamFails
    BY <1>10 DEF OpenStreamFails, HaltTransport
  <1>11. CASE NoBuffer
    BY <1>11 DEF NoBuffer, HaltTransport
  <1>12. CASE LeaveLoop
    BY <1>12 DEF LeaveLoop
  <1>13. CASE TakeSeek
    BY <1>13 DEF TakeSeek
  <1>14. CASE SeekWaits
    BY <1>14 DEF SeekWaits
  <1>15. CASE FinishSeek
    BY <1>15 DEF FinishSeek
  <1>16. CASE EnterPause
    BY <1>16 DEF EnterPause
  <1>17. CASE RewindUnheard
    BY <1>17 DEF RewindUnheard
  <1>18. CASE ReleaseWhilePaused
    BY <1>18 DEF ReleaseWhilePaused
  <1>19. CASE Unpause
    BY <1>19 DEF Unpause, MayPlay
  <1>20. CASE UnpauseFails
    <2>1. /\ UNCHANGED <<current_filepath, play_request, seek_request, filepath>>
          /\ audio_command' = "STOP" /\ pc = "loop"
      BY <1>20, Zenon DEF UnpauseFails, HaltTransport, MayPlay
    <2> QED
      BY <2>1
  <1>21. CASE KeepPlaying
    BY <1>21 DEF KeepPlaying, MayPlay
  <1>22. CASE Reroute
    BY <1>22 DEF Reroute
  <1>23. CASE RerouteFails
    BY <1>23 DEF RerouteFails, HaltTransport
  <1>24. CASE ReadBlock
    BY <1>24 DEF ReadBlock
  <1>25. CASE ReadStarves
    BY <1>25 DEF ReadStarves
  <1>26. CASE ReadNothing
    BY <1>26 DEF ReadNothing
  <1>27. CASE CheckEmptyRead
    BY <1>27 DEF CheckEmptyRead
  <1>28. CASE NothingDecoded
    BY <1>28 DEF NothingDecoded
  <1>29. CASE EndOfTrack
    BY <1>29 DEF EndOfTrack, HaltTransport
  <1>30. CASE WriteInterrupted
    BY <1>30 DEF WriteInterrupted
  <1>31. CASE WriteBlock
    BY <1>31 DEF WriteBlock
  <1>32. CASE WriteFails
    BY <1>32 DEF WriteFails
  <1>33. CASE RetryRefused
    BY <1>33 DEF RetryRefused
  <1>34. CASE GiveUp
    BY <1>34 DEF GiveUp, HaltTransport
  <1>35. CASE MarkStopped
    BY <1>35 DEF MarkStopped
  <1>36. CASE HoldStream
    BY <1>36 DEF HoldStream
  <1>37. CASE CloseStream
    BY <1>37 DEF CloseStream
  <1>38. CASE EndContext
    BY <1>38 DEF EndContext
  <1> QED
    BY <1>1, <1>2, <1>3, <1>4, <1>5, <1>6, <1>7, <1>8, <1>9, <1>10, <1>11, <1>12, <1>13, <1>14,
       <1>15, <1>16, <1>17, <1>18, <1>19, <1>20, <1>21, <1>22, <1>23, <1>24, <1>25, <1>26, <1>27,
       <1>28, <1>29, <1>30, <1>31, <1>32, <1>33, <1>34, <1>35, <1>36, <1>37, <1>38 DEF Thread

\* A step of the engine with its callers is one of the engine.
LEMMA PNextIsNext == PNext => Next
  <1> SUFFICES ASSUME PNext PROVE Next
    OBVIOUS
  <1>1. CASE AskedFor
    BY <1>1 DEF AskedFor, Next, Callers, PlayAt, PlayPaused
  <1>2. CASE Resumed \/ Cancelled \/ Sought
    BY <1>2 DEF Resumed, Cancelled, Sought, Next, Callers
  <1>3. CASE Retried
    BY <1>3 DEF Retried, Next, Thread
  <1>4. CASE Unremembered
    BY <1>4 DEF Unremembered, Next, Callers
  <1> QED
    BY <1>1, <1>2, <1>3, <1>4 DEF PNext

\* A request puts what it asks for in place of what was asked before.
LEMMA RequestsAreAsked ==
  ASSUME NEW f, NEW start, NEW command, NEW status, Request(f, command, status), Remember(f, start),
         0 \notin StartsAt /\ seek_request' => start > 0
  PROVE  AskedShape'
  BY DEF AskedShape, Request, Remember, Outside

LEMMA StepKeepsAsked ==
  ASSUME IInv, AskedShape, [PNext]_allvars PROVE AskedShape'
  <1>1. CASE AskedFor
    <2> SUFFICES ASSUME NEW f \in Files,
                        \/ audio_play(f) /\ Remember(f, 0)
                        \/ \E start \in StartsAt : audio_play_at(f, start) /\ Remember(f, start)
                        \/ \E start \in StartsAt : audio_play_paused(f, start) /\ Remember(f, start)
                 PROVE  AskedShape'
      BY <1>1 DEF AskedFor
    <2>1. CASE audio_play(f) /\ Remember(f, 0)
      <3>1. Request(f, "PLAY", "PLAYING") /\ ~seek_request'
        BY <2>1 DEF audio_play
      <3> QED
        BY <2>1, <3>1, RequestsAreAsked
    <2>2. ASSUME NEW start \in StartsAt PROVE 0 \notin StartsAt => start > 0
      BY StartsAssumption
    <2>3. ASSUME NEW start \in StartsAt, audio_play_at(f, start), Remember(f, start) PROVE AskedShape'
      BY <2>2, <2>3, RequestsAreAsked DEF audio_play_at
    <2>4. ASSUME NEW start \in StartsAt, audio_play_paused(f, start), Remember(f, start) PROVE AskedShape'
      BY <2>2, <2>4, RequestsAreAsked DEF audio_play_paused
    <2> QED
      BY <2>1, <2>3, <2>4
  <1>2. CASE Resumed
    <2>1. CASE restart_fresh /= NoRestart
      <3>1. /\ Request(restart_fresh.path, "PLAY", "PLAYING") /\ Remember(restart_fresh.path, restart_fresh.pos)
            /\ seek_request' = (seek_request \/ restart_fresh.pos > 0)
        BY <1>2, <2>1 DEF Resumed, audio_resume, audio_play_at, StartAt
      <3>2. ~seek_request
        BY <2>1 DEF IInv, Shapes, BookmarkShape
      <3> QED
        BY <3>1, <3>2, RequestsAreAsked
    <2>2. CASE restart_fresh = NoRestart
      <3>1. ~cancelled' /\ UNCHANGED <<play_request, current_filepath, seek_request, pc, filepath, wanted, seek_of>>
        BY <1>2, <2>2 DEF Resumed, audio_resume, seeking, thread, track
      <3> QED
        BY <3>1 DEF AskedShape, Outside
    <2> QED
      BY <2>1, <2>2
  <1>3. CASE Cancelled
    <2>1. /\ audio_command' = "STOP" /\ ~seek_request'
          /\ UNCHANGED <<play_request, current_filepath, pc, filepath, wanted>>
      BY <1>3 DEF Cancelled, audio_stop, Freeze, thread, track
    <2> QED
      BY <2>1 DEF AskedShape, Outside
  <1>4. CASE Sought
    <2>1. /\ UNCHANGED <<audio_command, play_request, current_filepath, pc, filepath, wanted, cancelled>>
          /\ seek_of' = current_filepath
      BY <1>4 DEF Sought, audio_seek, request, thread, track
    <2> QED
      BY <2>1 DEF AskedShape, Outside
  <1>5. CASE Retried
    <2>1. /\ current_filepath' = filepath /\ wanted' = filepath /\ seek_of' = filepath /\ ~cancelled'
          /\ play_request'
      BY <1>5 DEF Retried, RetryTrack
    <2> QED
      BY <2>1 DEF AskedShape, Outside
  <1>6. CASE Unremembered
    <2>1. UNCHANGED <<wanted, cancelled, seek_of>>
      BY <1>6 DEF Unremembered, asked
    <2>2. CASE Thread /\ ~RetryTrack
      BY <2>1, <2>2, ThreadStepsObey DEF AskedShape, ThreadObeys
    <2>3. CASE Sleep
      <3>1. pc \in Outside /\ ~play_request /\ ~seek_request
        BY <2>3 DEF Sleep, IInv, Shapes, FreezeShape, Outside
      <3>2. UNCHANGED <<audio_command, play_request, seek_request, pc>>
        BY <2>3 DEF Sleep, request, seeking, thread
      <3> QED
        BY <2>1, <3>1, <3>2 DEF AskedShape, Outside
    <2>4. CASE \/ \E who \in Pausers : DecideToPause(who) \/ audio_pause(who)
               \/ audio_take_completion \/ audio_get_progress \/ audio_suspend_quiesce
               \/ FreezeIsClean \/ FreezeTimesOut \/ Wake
      <3>1. /\ UNCHANGED <<play_request, current_filepath, seek_request, pc, filepath>>
            /\ audio_command' \in {audio_command, "PAUSE"}
        BY <2>4, Zenon DEF DecideToPause, audio_pause, audio_take_completion, audio_get_progress, audio_suspend_quiesce,
           FreezeIsClean, FreezeTimesOut, Wake, request, seeking, thread, track
      <3> QED
        BY <2>1, <3>1 DEF AskedShape, Outside
    <2> QED
      BY <1>6, <2>2, <2>3, <2>4 DEF Unremembered
  <1>7. CASE UNCHANGED allvars
    BY <1>7 DEF AskedShape, Outside, allvars, vars, asked, request, seeking, track
  <1> QED
    BY <1>1, <1>2, <1>3, <1>4, <1>5, <1>6, <1>7 DEF PNext

LEMMA AskedHolds == PSpec => [](IInv /\ AskedShape)
  <1>1. PSpec => []IInv
    <2>1. PInit => Init
      BY DEF PInit
    <2>2. [PNext]_allvars => [Next]_vars
      BY PNextIsNext DEF allvars
    <2> QED
      BY <2>1, <2>2, InvariantHolds, PTL DEF PSpec, Spec
  <1>2. PInit => AskedShape
    BY DEF PInit, Init, AskedShape, Outside
  <1>3. IInv /\ AskedShape /\ [PNext]_allvars => AskedShape'
    BY StepKeepsAsked
  <1> QED
    BY <1>1, <1>2, <1>3, PTL DEF PSpec

\* The last request is the one that is taken, and a stop stands, whatever the thread
\* is ending or failing at.
THEOREM CallsStandHolds == PSpec => []CallsStand
  <1>1. IInv /\ AskedShape => CallsStand
    BY DEF AskedShape, CallsStand, LastRequestWins, StopIsFinal
  <1> QED
    BY <1>1, AskedHolds, PTL

\* An end is reported for the track asked for last, and a seek moves the track that
\* it was asked for, if no track is asked for paused at its beginning.
THEOREM EndsAndSeeksHold == ASSUME 0 \notin StartsAt PROVE PSpec => EndsAndSeeksAreOfTheirTrack
  <1>1. ASSUME IInv, AskedShape, PNext, track_completed', ~track_completed PROVE filepath = wanted
    <2>1. EndOfTrack
      BY <1>1, OnlyEndsComplete, PNextIsNext
    <2> QED
      BY <1>1, <2>1 DEF EndOfTrack, natural_end, AskedShape, Outside
  <1>2. ASSUME IInv, AskedShape, TakeSeek PROVE seek_of = filepath
    BY <1>2 DEF TakeSeek, SeekDue, Replaced, AskedShape, Outside
  <1>3. IInv /\ AskedShape /\ [PNext]_allvars => [EndIsOfTheTrackAskedFor /\ SeekReachesItsTrack]_allvars
    BY <1>1, <1>2 DEF EndIsOfTheTrackAskedFor, SeekReachesItsTrack
  <1> QED
    BY <1>3, AskedHolds, PTL DEF PSpec, EndsAndSeeksAreOfTheirTrack

=============================================================================
