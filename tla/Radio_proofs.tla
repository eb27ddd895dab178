--------------------------- MODULE Radio_proofs ---------------------------
(***************************************************************************)
(* The inductive invariant of Radio and its theorems, for any number of    *)
(* stations, retries and hops, any ring, and whatever may fail.            *)
(***************************************************************************)
EXTENDS Radio, TLAPS

\* Where the connection is published, where there is a filler, and where the
\* output may be open.
Published == Looping \cup {"listing", "starting", "closing"}
Filling == Looping \cup {"closing", "stopping", "ending"}
\* Where a connection is wanted, or made, and nothing is known of it.
Trying == {"opening", "publishing", "publishing_hls", "listing", "starting"}
\* Where the interface does not touch the thread.
Free == ui.at \in {"free", "toggling"}

\* Who waits for the thread has taken it off, and who writes has joined it.
PressShape ==
  /\ ui.at \in {"waking", "joining"} => ~play.mine
  /\ ui.at \in {"free", "toggling", "superseding"} /\ play.at # "off" => play.mine
  /\ ui.at \in {"writing", "starting"} => play.at = "off"
  /\ ui.at = "starting" => ui.op \in {"play", "resume"}
  /\ ui.at = "writing" => ui.op \in {"play", "stop", "clear"}

\* The connection is published as long as it may be read, and a thread that is
\* waited for blocks in nothing but what has been shut down.
LinkShape ==
  /\ link.live <=> play.at \in Published
  /\ ui.at = "joining" /\ play.at \in {"listing", "reading"} => link.woken

RingShape ==
  /\ ring.filler # "gone" => play.at \in Filling
  /\ ring.filler = "fetching" => ring.level < RADIO_BUFFER

\* What a connection knows of itself.
ThreadShape ==
  /\ play.at \in Trying \cup Filling \cup {"again", "judging"} => play.attempt <= RADIO_MAX_RETRIES
  /\ play.at = "pushing" => play.heard
  /\ play.at \in {"resolving"} \cup (Trying \ {"opening"}) => ~play.heard
  /\ play.at = "attempting" /\ play.attempt = 0 => ~play.heard
  /\ play.redirect => ~play.heard
  /\ play.at \in Filling \cup (Trying \ {"opening"}) => ~play.redirect
  /\ play.out => play.at \in Filling

\* What the screen says of the thread.
ScreenShape ==
  /\ play.at # "off" => play.station = now.station
  /\ play.out /\ play.at \in Looping => now.playing
  /\ Free /\ play.at = "done" => Quiet
  /\ Free /\ play.at = "off" => Quiet \/ ui.op = "resume"
  /\ Free /\ play.at # "off" /\ now.playing => play.hurried \/ (play.heard /\ ~now.connecting)
  /\ Free /\ play.at = "opening" => play.hurried \/ ~now.playing
  /\ Free /\ (\/ play.at \in {"resolving", "opening", "publishing", "publishing_hls", "listing"}
              \/ play.at = "attempting" /\ play.attempt = 0
              \/ play.at = "judging" /\ play.redirect)
       => play.hurried \/ now.connecting

\* What a press has said by the time it starts the thread.
SaidShape ==
  LET said == now.connecting /\ ~now.playing
  IN  /\ ui.at = "starting" /\ ui.op = "play" => said /\ ~ui.hurried
      /\ ui.at \in {"superseding", "waking", "joining", "starting"} /\ ui.op = "resume" /\ ~ui.hurried
           => said /\ play.at \in {"off", "done"}
      /\ ui.at = "superseding" => ui.op = "resume"
      /\ ui.at \in {"waking", "joining", "writing"} /\ ui.op # "resume" => ~ui.hurried

Shape == PressShape /\ LinkShape /\ RingShape /\ ThreadShape /\ ScreenShape /\ SaidShape
IInv == TypeOK /\ Shape
-----------------------------------------------------------------------------

\* A thread is one before it is started, between two connections, and at the
\* next of its tries.
LEMMA NoThreadIsThread == NoThread \in PlayType
  BY RadioAssumption DEF NoThread, PlayType
LEMMA FreshIsThread == ASSUME play \in PlayType PROVE Fresh(play) \in PlayType
  BY ZenonT(40) DEF PlayType, Fresh
LEMMA TriedAgainIsThread ==
  ASSUME play \in PlayType, play.attempt <= RADIO_MAX_RETRIES PROVE TriedAgain \in PlayType
  <1>1. play.attempt + 1 \in 0..(RADIO_MAX_RETRIES + 1)
    BY RadioAssumption DEF PlayType
  <1> QED
    BY <1>1 DEF PlayType, TriedAgain
-----------------------------------------------------------------------------
(* Every step keeps the types, and then the shape. *)

LEMMA PressIsTyped == TypeOK /\ ThreadShape /\ RingShape /\ Press => TypeOK'
  <1> SUFFICES ASSUME TypeOK, ThreadShape, RingShape, Press PROVE TypeOK'
    OBVIOUS
  <1>1. CASE radio_play
    <2>1. ui' \in UiType
      BY <1>1, RadioAssumption DEF radio_play, Presses, Superseded, TypeOK, UiType, NowType
    <2>2. play' \in PlayType
      BY <1>1, RadioAssumption, ZenonT(40) DEF radio_play, Presses, Superseded, TypeOK, PlayType,
         Connected, Looping
    <2> QED
      BY <1>1, <2>1, <2>2 DEF radio_play, Presses, TypeOK
  <1>2. CASE radio_stop
    BY <1>2, RadioAssumption DEF radio_stop, Presses, Superseded, TypeOK, UiType, PlayType,
       Connected, Looping
  <1>3. CASE radio_clear
    BY <1>3, RadioAssumption DEF radio_clear, Presses, Superseded, TypeOK, UiType,
       PlayType, Connected, Looping
  <1>4. CASE toggle_play_pause
    BY <1>4, RadioAssumption DEF toggle_play_pause, TypeOK, UiType
  <1> QED
    BY <1>1, <1>2, <1>3, <1>4 DEF Press

LEMMA InterfaceIsTyped == TypeOK /\ ThreadShape /\ RingShape /\ Interface => TypeOK'
  <1> SUFFICES ASSUME TypeOK, ThreadShape, RingShape, Interface PROVE TypeOK'
    OBVIOUS
  <1>1. CASE toggle_stops
    BY <1>1, RadioAssumption DEF toggle_stops, Superseded, TypeOK, UiType, PlayType,
       Connected, Looping
  <1>2. CASE radio_resume
    BY <1>2, RadioAssumption DEF radio_resume, TypeOK, NowType, UiType
  <1>3. CASE resume_supersedes
    BY <1>3, RadioAssumption DEF resume_supersedes, Superseded, TypeOK, UiType, PlayType,
       Connected, Looping
  <1>4. CASE transport_wakes
    BY <1>4, RadioAssumption DEF transport_wakes, TypeOK, UiType, LinkType
  <1>5. CASE transport_joins
    BY <1>5, RadioAssumption DEF transport_joins, NoThread, TypeOK, UiType, PlayType,
       Connected, Looping
  <1>6. CASE play_writes
    BY <1>6, RadioAssumption DEF play_writes, Unloaded, TypeOK, NowType, UiType
  <1>7. CASE stop_writes
    BY <1>7, RadioAssumption DEF stop_writes, Stopped, TypeOK, NowType, UiType
  <1>8. CASE clear_writes
    BY <1>8, RadioAssumption DEF clear_writes, Unloaded, TypeOK, NowType, UiType
  <1>9. CASE transport_starts
    <2>1. ui' \in UiType
      BY <1>9, RadioAssumption DEF transport_starts, NoThread, TypeOK, UiType, NowType
    <2>2. play' \in PlayType
      <3>1. /\ PLAYLIST_MAX_HOPS \in 0..PLAYLIST_MAX_HOPS
            /\ now.station \in Stations \cup {NoStation} /\ ui.hurried \in BOOLEAN
        BY RadioAssumption DEF TypeOK, NowType, UiType
      <3> QED
        BY <1>9, <3>1, NoThreadIsThread DEF PlayType, transport_starts
    <2> QED
      BY <1>9, <2>1, <2>2 DEF transport_starts, TypeOK
  <1>10. CASE transport_fails
    BY <1>10, RadioAssumption DEF transport_fails, Unloaded, TypeOK, NowType, UiType
  <1> QED
    BY <1>1, <1>2, <1>3, <1>4, <1>5, <1>6, <1>7, <1>8, <1>9, <1>10 DEF Interface

LEMMA ConnectsIsTyped == TypeOK /\ ThreadShape /\ RingShape /\ Connects => TypeOK'
  <1> SUFFICES ASSUME TypeOK, ThreadShape, RingShape, Connects PROVE TypeOK'
    OBVIOUS
  <1>1. CASE play_resolves
    <2>1. play' \in PlayType
      <3>1. PICK kind \in {"plain", "hls"} : play' = [play EXCEPT !.at = "attempting", !.kind = kind]
        BY <1>1 DEF play_resolves
      <3> QED
        BY <3>1 DEF TypeOK, PlayType
    <2> QED
      BY <1>1, <2>1 DEF play_resolves, TypeOK
  <1>2. CASE play_resolves_nothing
    BY <1>2, RadioAssumption DEF play_resolves_nothing, Failed, Stopped, Goes, TypeOK,
       NowType, PlayType, Connected, Looping
  <1>3. CASE play_attempts
    BY <1>3, RadioAssumption DEF play_attempts, Goes, TypeOK, PlayType, Connected, Looping
  <1>4. CASE play_again
    BY <1>4, RadioAssumption DEF play_again, Goes, Again, TypeOK, NowType, PlayType,
       Connected, Looping
  <1>5. CASE play_opens
    <2>1. play' \in PlayType
      BY <1>5, FreshIsThread DEF TypeOK, PlayType, play_opens, Connected
    <2>2. link' \in LinkType
      BY <1>5, RadioAssumption DEF play_opens, NoLink, Fresh, TypeOK, LinkType
    <2> QED
      BY <1>5, <2>1, <2>2 DEF play_opens, TypeOK
  <1>6. CASE play_opens_nothing
    <2>1. play' \in PlayType
      BY <1>6, TriedAgainIsThread DEF TypeOK, ThreadShape, Trying, play_opens_nothing
    <2> QED
      BY <1>6, <2>1 DEF play_opens_nothing, TypeOK
  <1>7. CASE play_opens_no_hls
    BY <1>7, RadioAssumption DEF play_opens_no_hls, Failed, Stopped, Goes, TypeOK, NowType,
       PlayType, Connected, Looping
  <1>8. CASE publish
    <2>1. play' \in PlayType
      BY <1>8, RadioAssumption DEF publish, Goes, TypeOK, PlayType, Connected, Looping
    <2>2. link' \in LinkType
      BY <1>8, RadioAssumption DEF publish, Goes, TypeOK, LinkType
    <2> QED
      BY <1>8, <2>1, <2>2 DEF publish, TypeOK
  <1>9. CASE publish_asks_hls
    BY <1>9, RadioAssumption DEF publish_asks_hls, Goes, TypeOK, PlayType, Connected,
       Looping
  <1>10. CASE publish_hls
    BY <1>10, RadioAssumption DEF publish_hls, Goes, TypeOK, PlayType, LinkType, Connected,
       Looping
  <1>11. CASE play_lists
    <2>1. play' \in PlayType
      <3>1. PICK kind \in {"plain", "hls"} :
               play' = [play EXCEPT !.at = "judging", !.kind = kind, !.redirect = TRUE]
        BY <1>11 DEF play_lists
      <3> QED
        BY <3>1 DEF TypeOK, PlayType
    <2>2. link' \in LinkType
      BY <1>11, RadioAssumption DEF play_lists, TypeOK, LinkType
    <2> QED
      BY <1>11, <2>1, <2>2 DEF play_lists, TypeOK
  <1>12. CASE play_lists_nothing
    BY <1>12, RadioAssumption DEF play_lists_nothing, Goes, TypeOK, NowType, PlayType,
       LinkType, Connected, Looping
  <1>13. CASE play_judges
    <2>1. play' \in PlayType
      <3>1. play.attempt <= RADIO_MAX_RETRIES
        BY <1>13 DEF ThreadShape, play_judges
      <3>2. CASE play.redirect /\ play.hops > 0
        <4>1. play.hops - 1 \in 0..PLAYLIST_MAX_HOPS
          BY <3>2, RadioAssumption DEF TypeOK, PlayType
        <4> QED
          BY <1>13, <3>1, <3>2, <4>1, TriedAgainIsThread DEF TypeOK, PlayType, play_judges
      <3>3. CASE ~(play.redirect /\ play.hops > 0)
        BY <1>13, <3>1, <3>3, TriedAgainIsThread DEF TypeOK, PlayType, play_judges
      <3> QED
        BY <3>2, <3>3
    <2> QED
      BY <1>13, <2>1 DEF play_judges, TypeOK
  <1>14. CASE play_leaves
    BY <1>14, RadioAssumption DEF play_leaves, Goes, TypeOK, PlayType, Connected, Looping
  <1>15. CASE play_clears
    BY <1>15, RadioAssumption DEF play_clears, Stopped, Goes, TypeOK, NowType, PlayType,
       Connected, Looping
  <1> QED
    BY <1>1, <1>2, <1>3, <1>4, <1>5, <1>6, <1>7, <1>8, <1>9, <1>10, <1>11, <1>12, <1>13,
       <1>14, <1>15 DEF Connects

LEMMA PlaysIsTyped == TypeOK /\ ThreadShape /\ RingShape /\ Plays => TypeOK'
  <1> SUFFICES ASSUME TypeOK, ThreadShape, RingShape, Plays PROVE TypeOK'
    OBVIOUS
  <1>1. CASE play_starts_buffer
    BY <1>1, RadioAssumption DEF play_starts_buffer, Goes, TypeOK, PlayType, RingType,
       Connected, Looping
  <1>2. CASE play_starts_no_buffer
    BY <1>2, RadioAssumption DEF play_starts_no_buffer, Goes, TypeOK, PlayType, Connected,
       Looping
  <1>3. CASE play_starts_no_decoder
    BY <1>3, RadioAssumption DEF play_starts_no_decoder, Failed, Stopped, Refused, TypeOK,
       NowType, PlayType, Connected, Looping
  <1>4. CASE play_turns
    BY <1>4, RadioAssumption DEF play_turns, TypeOK, PlayType, Connected, Looping
  <1>5. CASE play_times_out
    BY <1>5, RadioAssumption DEF play_times_out, Failed, Stopped, Refused, TypeOK, NowType,
       PlayType, Connected, Looping
  <1>6. CASE play_reads
    BY <1>6, RadioAssumption DEF play_reads, Goes, TypeOK, PlayType, RingType, Connected,
       Looping
  <1>7. CASE play_reads_nothing
    BY <1>7, RadioAssumption, ZenonT(40) DEF play_reads_nothing, TypeOK, PlayType, Connected, Looping
  <1>8. CASE play_hunts
    BY <1>8, RadioAssumption DEF play_hunts, Goes, TypeOK, PlayType, Connected, Looping
  <1>9. CASE play_decodes
    BY <1>9, RadioAssumption DEF play_decodes, TypeOK, PlayType, Connected, Looping
  <1>10. CASE play_sniffs_flac
    BY <1>10, RadioAssumption DEF play_sniffs_flac, TypeOK, PlayType, Connected, Looping
  <1>11. CASE play_makes_no_flac
    BY <1>11, RadioAssumption DEF play_makes_no_flac, Hopeless, TypeOK, PlayType,
       Connected, Looping
  <1>12. CASE play_makes_no_aac
    BY <1>12, RadioAssumption DEF play_makes_no_aac, Failed, Stopped, Refused, TypeOK,
       NowType, PlayType, Connected, Looping
  <1>13. CASE play_finds_nothing
    BY <1>13, RadioAssumption DEF play_finds_nothing, Refused, TypeOK, NowType, PlayType,
       Connected, Looping
  <1>14. CASE play_breaks
    BY <1>14, RadioAssumption DEF play_breaks, Goes, TypeOK, PlayType, Connected, Looping
  <1>15. CASE play_finds_no_flac
    BY <1>15, RadioAssumption DEF play_finds_no_flac, Failed, Stopped, Hopeless, TypeOK,
       NowType, PlayType, Connected, Looping
  <1>16. CASE play_pushes
    BY <1>16, RadioAssumption DEF play_pushes, Goes, TypeOK, PlayType, Connected, Looping
  <1>17. CASE play_opens_output
    BY <1>17, RadioAssumption DEF play_opens_output, TypeOK, NowType, PlayType, Connected,
       Looping
  <1>18. CASE play_opens_no_output
    BY <1>18, RadioAssumption DEF play_opens_no_output, TypeOK, PlayType, Connected,
       Looping
  <1>19. CASE play_closes
    BY <1>19, RadioAssumption DEF play_closes, Goes, TypeOK, PlayType, LinkType, Connected,
       Looping
  <1>20. CASE play_stops_buffer
    BY <1>20, RadioAssumption DEF play_stops_buffer, Goes, TypeOK, PlayType, LinkType,
       RingType, Connected, Looping
  <1>21. CASE play_ends
    <2>1. play' \in PlayType
      BY <1>21, RadioAssumption DEF play_ends, TypeOK, PlayType, Connected, Looping
    <2>2. ring' \in RingType /\ link' \in LinkType
      BY <1>21, RadioAssumption DEF play_ends, NoLink, NoRing, LinkType, RingType
    <2> QED
      BY <1>21, <2>1, <2>2 DEF play_ends, TypeOK
  <1> QED
    BY <1>1, <1>2, <1>3, <1>4, <1>5, <1>6, <1>7, <1>8, <1>9, <1>10, <1>11, <1>12, <1>13,
       <1>14, <1>15, <1>16, <1>17, <1>18, <1>19, <1>20, <1>21 DEF Plays

LEMMA FillerIsTyped == TypeOK /\ ThreadShape /\ RingShape /\ Filler => TypeOK'
  <1> SUFFICES ASSUME TypeOK, ThreadShape, RingShape, Filler PROVE TypeOK'
    OBVIOUS
  <1>1. CASE filler_looks
    BY <1>1, RadioAssumption DEF filler_looks, TypeOK, RingType
  <1>2. CASE filler_fetches
    <2>1. ring' \in RingType
      <3>1. ring.level + 1 \in 0..RADIO_BUFFER
        BY <1>2, RadioAssumption DEF TypeOK, RingType, RingShape, filler_fetches
      <3> QED
        BY <1>2, <3>1 DEF TypeOK, RingType, filler_fetches
    <2> QED
      BY <1>2, <2>1 DEF filler_fetches, TypeOK
  <1>3. CASE filler_ends
    BY <1>3, RadioAssumption DEF filler_ends, Ended, TypeOK, RingType
  <1> QED
    BY <1>1, <1>2, <1>3 DEF Filler

LEMMA PressKeepsShape == IInv /\ Press => Shape'
  <1> SUFFICES ASSUME IInv, Press PROVE Shape'
    OBVIOUS
  <1> USE RadioAssumption DEF IInv, Shape, PressShape, LinkShape, RingShape, ThreadShape, ScreenShape, SaidShape,
          TypeOK, NowType, UiType, PlayType, LinkType, RingType,
          Connected, Looping, Published, Filling, Trying, Free, Quiet
  <1>1. CASE radio_play
    BY <1>1 DEF radio_play, Presses, Superseded
  <1>2. CASE radio_stop
    BY <1>2 DEF radio_stop, Presses, Superseded
  <1>3. CASE radio_clear
    BY <1>3 DEF radio_clear, Presses, Superseded
  <1>4. CASE toggle_play_pause
    BY <1>4 DEF toggle_play_pause
  <1> QED
    BY <1>1, <1>2, <1>3, <1>4 DEF Press

LEMMA InterfaceKeepsShape == IInv /\ Interface => Shape'
  <1> SUFFICES ASSUME IInv, Interface PROVE Shape'
    OBVIOUS
  <1> USE RadioAssumption DEF IInv, Shape, PressShape, LinkShape, RingShape, ThreadShape, ScreenShape, SaidShape,
          TypeOK, NowType, UiType, PlayType, LinkType, RingType,
          Connected, Looping, Published, Filling, Trying, Free, Quiet
  <1>1. CASE toggle_stops
    BY <1>1 DEF toggle_stops, Superseded
  <1>2. CASE radio_resume
    BY <1>2 DEF radio_resume
  <1>3. CASE resume_supersedes
    BY <1>3 DEF resume_supersedes, Superseded
  <1>4. CASE transport_wakes
    BY <1>4 DEF transport_wakes
  <1>5. CASE transport_joins
    BY <1>5 DEF transport_joins, NoThread
  <1>6. CASE play_writes
    BY <1>6 DEF play_writes, Unloaded
  <1>7. CASE stop_writes
    BY <1>7 DEF stop_writes, Stopped
  <1>8. CASE clear_writes
    BY <1>8 DEF clear_writes, Unloaded
  <1>9. CASE transport_starts
    BY <1>9 DEF transport_starts, NoThread
  <1>10. CASE transport_fails
    BY <1>10 DEF transport_fails, Unloaded
  <1> QED
    BY <1>1, <1>2, <1>3, <1>4, <1>5, <1>6, <1>7, <1>8, <1>9, <1>10 DEF Interface

LEMMA ConnectsKeepsShape == IInv /\ Connects => Shape'
  <1> SUFFICES ASSUME IInv, Connects PROVE Shape'
    OBVIOUS
  <1> USE RadioAssumption DEF IInv, Shape, PressShape, LinkShape, RingShape, ThreadShape, ScreenShape, SaidShape,
          TypeOK, NowType, UiType, PlayType, LinkType, RingType,
          Connected, Looping, Published, Filling, Trying, Free, Quiet
  <1>1. CASE play_resolves
    BY <1>1 DEF play_resolves
  <1>2. CASE play_resolves_nothing
    BY <1>2 DEF play_resolves_nothing, Failed, Stopped, Goes
  <1>3. CASE play_attempts
    BY <1>3 DEF play_attempts, Goes
  <1>4. CASE play_again
    BY <1>4 DEF play_again, Goes, Again
  <1>5. CASE play_opens
    BY <1>5 DEF play_opens, NoLink, Fresh
  <1>6. CASE play_opens_nothing
    BY <1>6 DEF play_opens_nothing, TriedAgain
  <1>7. CASE play_opens_no_hls
    BY <1>7 DEF play_opens_no_hls, Failed, Stopped, Goes
  <1>8. CASE publish
    BY <1>8 DEF publish, Goes
  <1>9. CASE publish_asks_hls
    BY <1>9 DEF publish_asks_hls, Goes
  <1>10. CASE publish_hls
    BY <1>10 DEF publish_hls, Goes
  <1>11. CASE play_lists
    BY <1>11 DEF play_lists
  <1>12. CASE play_lists_nothing
    BY <1>12 DEF play_lists_nothing, Goes
  <1>13. CASE play_judges
    BY <1>13 DEF play_judges, TriedAgain, Done
  <1>14. CASE play_leaves
    BY <1>14 DEF play_leaves, Goes
  <1>15. CASE play_clears
    BY <1>15 DEF play_clears, Stopped, Goes
  <1> QED
    BY <1>1, <1>2, <1>3, <1>4, <1>5, <1>6, <1>7, <1>8, <1>9, <1>10, <1>11, <1>12, <1>13,
       <1>14, <1>15 DEF Connects

LEMMA PlaysKeepsShape == IInv /\ Plays => Shape'
  <1> SUFFICES ASSUME IInv, Plays PROVE Shape'
    OBVIOUS
  <1> USE RadioAssumption DEF IInv, Shape, PressShape, LinkShape, RingShape, ThreadShape, ScreenShape, SaidShape,
          TypeOK, NowType, UiType, PlayType, LinkType, RingType,
          Connected, Looping, Published, Filling, Trying, Free, Quiet
  <1>1. CASE play_starts_buffer
    BY <1>1 DEF play_starts_buffer, Goes
  <1>2. CASE play_starts_no_buffer
    BY <1>2 DEF play_starts_no_buffer, Goes
  <1>3. CASE play_starts_no_decoder
    BY <1>3 DEF play_starts_no_decoder, Failed, Stopped, Refused
  <1>4. CASE play_turns
    BY <1>4 DEF play_turns
  <1>5. CASE play_times_out
    BY <1>5 DEF play_times_out, Failed, Stopped, Refused
  <1>6. CASE play_reads
    BY <1>6 DEF play_reads, Goes
  <1>7. CASE play_reads_nothing
    BY <1>7 DEF play_reads_nothing
  <1>8. CASE play_hunts
    BY <1>8 DEF play_hunts, Goes
  <1>9. CASE play_decodes
    BY <1>9 DEF play_decodes
  <1>10. CASE play_sniffs_flac
    BY <1>10 DEF play_sniffs_flac
  <1>11. CASE play_makes_no_flac
    BY <1>11 DEF play_makes_no_flac, Hopeless
  <1>12. CASE play_makes_no_aac
    BY <1>12 DEF play_makes_no_aac, Failed, Stopped, Refused
  <1>13. CASE play_finds_nothing
    BY <1>13 DEF play_finds_nothing, Refused
  <1>14. CASE play_breaks
    BY <1>14 DEF play_breaks, Goes
  <1>15. CASE play_finds_no_flac
    BY <1>15 DEF play_finds_no_flac, Failed, Stopped, Hopeless
  <1>16. CASE play_pushes
    BY <1>16 DEF play_pushes, Goes
  <1>17. CASE play_opens_output
    BY <1>17 DEF play_opens_output
  <1>18. CASE play_opens_no_output
    BY <1>18 DEF play_opens_no_output
  <1>19. CASE play_closes
    BY <1>19 DEF play_closes, Goes
  <1>20. CASE play_stops_buffer
    BY <1>20 DEF play_stops_buffer, Goes
  <1>21. CASE play_ends
    BY <1>21 DEF play_ends, NoLink, NoRing
  <1> QED
    BY <1>1, <1>2, <1>3, <1>4, <1>5, <1>6, <1>7, <1>8, <1>9, <1>10, <1>11, <1>12, <1>13,
       <1>14, <1>15, <1>16, <1>17, <1>18, <1>19, <1>20, <1>21 DEF Plays

LEMMA FillerKeepsShape == IInv /\ Filler => Shape'
  <1> SUFFICES ASSUME IInv, Filler PROVE Shape'
    OBVIOUS
  <1> USE RadioAssumption DEF IInv, Shape, PressShape, LinkShape, RingShape, ThreadShape, ScreenShape, SaidShape,
          TypeOK, NowType, UiType, PlayType, LinkType, RingType,
          Connected, Looping, Published, Filling, Trying, Free, Quiet
  <1>1. CASE filler_looks
    BY <1>1 DEF filler_looks
  <1>2. CASE filler_fetches
    BY <1>2 DEF filler_fetches
  <1>3. CASE filler_ends
    BY <1>3 DEF filler_ends, Ended
  <1> QED
    BY <1>1, <1>2, <1>3 DEF Filler
-----------------------------------------------------------------------------
(* Theorems. *)

LEMMA InitHolds == Init => IInv
  BY RadioAssumption DEF Init, NoThread, NoLink, NoRing, Unloaded, IInv, Shape, PressShape, LinkShape, RingShape, ThreadShape,
     ScreenShape, SaidShape, TypeOK, NowType, UiType, PlayType, LinkType, RingType,
     Connected, Looping, Published, Filling, Trying, Free, Quiet

LEMMA StepKeeps == IInv /\ [Next]_vars => IInv'
  <1> SUFFICES ASSUME IInv, [Next]_vars PROVE IInv'
    OBVIOUS
  <1>1. CASE Press
    BY <1>1, PressIsTyped, PressKeepsShape DEF IInv, Shape
  <1>2. CASE Interface
    BY <1>2, InterfaceIsTyped, InterfaceKeepsShape DEF IInv, Shape
  <1>3. CASE Connects
    BY <1>3, ConnectsIsTyped, ConnectsKeepsShape DEF IInv, Shape
  <1>4. CASE Plays
    BY <1>4, PlaysIsTyped, PlaysKeepsShape DEF IInv, Shape
  <1>5. CASE Filler
    BY <1>5, FillerIsTyped, FillerKeepsShape DEF IInv, Shape
  <1>6. CASE UNCHANGED vars
    BY <1>6 DEF vars, IInv, Shape, PressShape, LinkShape, RingShape, ThreadShape, ScreenShape,
       SaidShape, TypeOK, Free, Quiet
  <1> QED
    BY <1>1, <1>2, <1>3, <1>4, <1>5, <1>6 DEF Next, Player

LEMMA ShapeHolds == Spec => []IInv
  <1> QED
    BY InitHolds, StepKeeps, PTL DEF Spec

\* Every variable stays in its type: the ring never holds more than it has room
\* for, and no station is tried more often than the code means to.
THEOREM TypeCorrect == Spec => []TypeOK
  <1>1. IInv => TypeOK
    BY DEF IInv
  <1> QED
    BY <1>1, ShapeHolds, PTL

\* transport_stop() never waits for the network: what the thread it joins may
\* block in has been shut down, for every generation and every order of the
\* press and the publication of the connection.
THEOREM StopIsHeardHolds == Spec => []StopIsHeard
  <1>1. IInv => StopIsHeard
    BY DEF IInv, Shape, LinkShape, RingShape, StopIsHeard, Published, Filling, Looping, Connected
  <1> QED
    BY <1>1, ShapeHolds, PTL

\* Between two presses what the screen is told is what the thread does.
THEOREM ScreenTellsTheTruthHolds == Spec => []ScreenTellsTheTruth
  <1>1. IInv => ScreenTellsTheTruth
    BY DEF IInv, Shape, ScreenShape, ScreenTellsTheTruth, Free, Looping
  <1> QED
    BY <1>1, ShapeHolds, PTL
=============================================================================
