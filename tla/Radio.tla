------------------------------- MODULE Radio -------------------------------
(***************************************************************************)
(* radio.c: a live station, from the press that asks for it to the output. *)
(*                                                                         *)
(* Three threads.  The interface starts, stops and unloads a station, and  *)
(* waits for the thread of the one before to be gone.  The player thread   *)
(* connects, follows playlists, decodes, and connects again when a station *)
(* drops.  The filler reads the network ahead of it into a ring.  A thread *)
(* is superseded when `play_generation' moves on: it notices the next time *)
(* it asks still_mine(), and what it is blocked in is cut short through    *)
(* the connection it has published.                                        *)
(*                                                                         *)
(* The generation is kept as the one thing that is asked of it, whether it *)
(* still is the thread's own.  Whether an address is HLS, FLAC or what the *)
(* rest of the decoders take is the server's choice.                       *)
(***************************************************************************)
EXTENDS Integers

CONSTANTS
  Stations,
  NoStation,            \* none loaded: now_state.active is false
  RADIO_MAX_RETRIES,
  PLAYLIST_MAX_HOPS,
  RADIO_BUFFER,         \* what the ring holds, in pieces of RADIO_IN_BUFFER
  Faults                \* what may fail besides the network: "thread",
                        \* "memory", "output"

ASSUME RadioAssumption ==
  /\ NoStation \notin Stations
  /\ RADIO_MAX_RETRIES \in Nat /\ PLAYLIST_MAX_HOPS \in Nat
  /\ RADIO_BUFFER \in Nat \ {0}
  /\ Faults \subseteq {"thread", "memory", "output"}

VARIABLES
  now,      \* now_state and now_station, under now_lock
  ui,       \* where the interface thread is, for which press, of which station
  play,     \* the player thread and what it keeps
  link,     \* the connection: live, which is published; woken, shut down
  ring      \* radio_buffer, and where its filler is
(***************************************************************************)
(* now.error        something is said of the station                       *)
(* ui.hurried       history: the press was a resume, with a thread of the  *)
(*                  station still about                                    *)
(* play.at          "off" when there is no thread, or it has been joined   *)
(* play.mine        still_mine()                                           *)
(* play.kind        "plain", "flac" or "hls"                               *)
(* play.redirect    the connection gave a playlist instead of a stream     *)
(* play.heard       ever_decoded; .clean, .hopeless (give_up), .out and    *)
(*                  .ended are the variables of that name                  *)
(* play.hurried     the press that started it was                          *)
(***************************************************************************)
vars == <<now, ui, play, link, ring>>

Unloaded == [station |-> NoStation, connecting |-> FALSE, playing |-> FALSE, error |-> FALSE]
Stopped == [now EXCEPT !.playing = FALSE, !.connecting = FALSE]
Failed == [Stopped EXCEPT !.error = TRUE]

\* What a connection starts from.
Fresh(thread) ==
  [thread EXCEPT !.kind = IF @ = "hls" THEN @ ELSE "plain",
                 !.redirect = FALSE, !.heard = FALSE, !.clean = FALSE,
                 !.hopeless = FALSE, !.out = FALSE, !.ended = FALSE]

NoThread ==
  [at |-> "off", mine |-> FALSE, station |-> NoStation, kind |-> "plain",
   attempt |-> 0, hops |-> 0, redirect |-> FALSE, heard |-> FALSE, clean |-> FALSE,
   hopeless |-> FALSE, out |-> FALSE, ended |-> FALSE, hurried |-> FALSE]

NoLink == [live |-> FALSE, woken |-> FALSE]
NoRing == [level |-> 0, ended |-> FALSE, stop |-> FALSE, filler |-> "gone"]

Init ==
  /\ now = Unloaded
  /\ ui = [at |-> "free", op |-> "stop", station |-> NoStation, hurried |-> FALSE]
  /\ play = NoThread
  /\ link = NoLink
  /\ ring = NoRing

-----------------------------------------------------------------------------
(* The interface. *)

\* transport_stop(), as far as the lock: from here the thread is superseded.
Superseded == play' = [play EXCEPT !.mine = FALSE]

Presses(op, station) ==
  /\ ui.at = "free"
  /\ ui' = [at |-> "waking", op |-> op, station |-> station, hurried |-> FALSE]
  /\ Superseded
  /\ UNCHANGED <<now, link, ring>>

radio_play == \E s \in Stations : Presses("play", s)
radio_stop == Presses("stop", NoStation)
radio_clear == Presses("clear", NoStation)

\* The key and the button on the screen, which leave a station alone that is
\* still connecting ...
toggle_play_pause ==
  /\ ui.at = "free"
  /\ now.station # NoStation /\ ~now.connecting
  /\ ui' = [ui EXCEPT !.at = "toggling"]
  /\ UNCHANGED <<now, play, link, ring>>

\* ... and look again at what they then stop, ...
toggle_stops ==
  /\ ui.at = "toggling"
  /\ now.playing \/ now.connecting
  /\ ui' = [at |-> "waking", op |-> "stop", station |-> NoStation, hurried |-> FALSE]
  /\ Superseded
  /\ UNCHANGED <<now, link, ring>>

\* ... or bring back: radio_resume() says so before it stops anything.
radio_resume ==
  /\ ui.at = "toggling"
  /\ ~now.playing /\ ~now.connecting
  /\ now' = [now EXCEPT !.connecting = TRUE, !.error = FALSE]
  /\ ui' = [at |-> "superseding", op |-> "resume", station |-> now.station,
            hurried |-> play.at \notin {"off", "done"}]
  /\ UNCHANGED <<play, link, ring>>

resume_supersedes ==
  /\ ui.at = "superseding"
  /\ ui' = [ui EXCEPT !.at = "waking"]
  /\ Superseded
  /\ UNCHANGED <<now, link, ring>>

transport_wakes ==
  /\ ui.at = "waking"
  /\ ui' = [ui EXCEPT !.at = "joining"]
  /\ link' = [link EXCEPT !.woken = @ \/ link.live]
  /\ UNCHANGED <<now, play, ring>>

transport_joins ==
  /\ ui.at = "joining"
  /\ play.at \in {"off", "done"}
  /\ play' = NoThread
  /\ ui' = [ui EXCEPT !.at = IF ui.op = "resume" THEN "starting" ELSE "writing"]
  /\ UNCHANGED <<now, link, ring>>

\* What each operation writes once the thread is gone.
play_writes ==
  /\ ui.at = "writing" /\ ui.op = "play"
  /\ now' = [Unloaded EXCEPT !.station = ui.station, !.connecting = TRUE]
  /\ ui' = [ui EXCEPT !.at = "starting"]
  /\ UNCHANGED <<play, link, ring>>

stop_writes ==
  /\ ui.at = "writing" /\ ui.op = "stop"
  /\ now' = Stopped
  /\ ui' = [ui EXCEPT !.at = "free"]
  /\ UNCHANGED <<play, link, ring>>

clear_writes ==
  /\ ui.at = "writing" /\ ui.op = "clear"
  /\ now' = Unloaded
  /\ ui' = [ui EXCEPT !.at = "free"]
  /\ UNCHANGED <<play, link, ring>>

\* transport_start(): there is no thread to stop this time.
transport_starts ==
  /\ ui.at = "starting"
  /\ ui' = [ui EXCEPT !.at = "free"]
  /\ play' = [NoThread EXCEPT !.at = "resolving", !.mine = TRUE, !.station = now.station,
                              !.hops = PLAYLIST_MAX_HOPS, !.hurried = ui.hurried]
  /\ UNCHANGED <<now, link, ring>>

\* No thread: radio_play() takes back what it has said, radio_resume() does not.
transport_fails ==
  /\ "thread" \in Faults
  /\ ui.at = "starting"
  /\ ui' = [ui EXCEPT !.at = "free"]
  /\ now' = IF ui.op = "play" THEN Unloaded ELSE now
  /\ UNCHANGED <<play, link, ring>>

-----------------------------------------------------------------------------
(* The player thread: from connection to connection. *)

Goes(where) == play' = [play EXCEPT !.at = where]

\* resolve_playlist(): the address is that of a stream, ...
play_resolves ==
  /\ play.at = "resolving"
  /\ \E kind \in {"plain", "hls"} : play' = [play EXCEPT !.at = "attempting", !.kind = kind]
  /\ UNCHANGED <<now, ui, link, ring>>

\* ... or of a playlist that is empty, or leads round.
play_resolves_nothing ==
  /\ play.at = "resolving"
  /\ now' = Failed
  /\ Goes("done")
  /\ UNCHANGED <<ui, link, ring>>

\* Faulty variant: the screen is not told.
Again_unsaid == [now EXCEPT !.playing = FALSE]
Again == [now EXCEPT !.connecting = TRUE, !.playing = FALSE]

\* The head of play_main()'s loop.
play_attempts ==
  /\ play.at = "attempting"
  /\ IF play.mine /\ play.attempt <= RADIO_MAX_RETRIES
     THEN Goes(IF play.attempt > 0 THEN "again" ELSE "opening")
     ELSE Goes("leaving")
  /\ UNCHANGED <<now, ui, link, ring>>

play_again ==
  /\ play.at = "again"
  /\ now' = Again
  /\ Goes("opening")
  /\ UNCHANGED <<ui, link, ring>>

\* Faulty variant: the count stops at its bound.
TriedAgain_forever ==
  [play EXCEPT !.at = "attempting", !.attempt = IF @ < RADIO_MAX_RETRIES THEN @ + 1 ELSE @]
TriedAgain == [play EXCEPT !.at = "attempting", !.attempt = @ + 1]

\* http_stream_open() or hls_open(), which nothing can cut short.
play_opens ==
  /\ play.at = "opening"
  /\ link' = NoLink
  /\ play' = [Fresh(play) EXCEPT !.at = "publishing"]
  /\ UNCHANGED <<now, ui, ring>>

play_opens_nothing ==
  /\ play.at = "opening" /\ play.kind # "hls"
  /\ play' = TriedAgain
  /\ UNCHANGED <<now, ui, link, ring>>

play_opens_no_hls ==
  /\ play.at = "opening" /\ play.kind = "hls"
  /\ now' = Failed
  /\ Goes("leaving")
  /\ UNCHANGED <<ui, link, ring>>

\* Faulty variant: published without asking whether the thread is superseded.
publish_unasked ==
  /\ play.at = "publishing" /\ play.kind # "hls"
  /\ link' = [link EXCEPT !.live = TRUE]
  /\ \E where \in {"listing", "starting"} : Goes(where)
  /\ UNCHANGED <<now, ui, ring>>

\* Under stream_lock: superseded, or published for transport_stop() to find.
\* Then the server says whether this is a playlist.
publish ==
  /\ play.at = "publishing" /\ play.kind # "hls"
  /\ IF play.mine
     THEN /\ link' = [link EXCEPT !.live = TRUE]
          /\ \E where \in {"listing", "starting"} : Goes(where)
     ELSE Goes("leaving") /\ UNCHANGED link
  /\ UNCHANGED <<now, ui, ring>>

\* play_hls() asks first, and publishes whatever the answer has become.
publish_asks_hls ==
  /\ play.at = "publishing" /\ play.kind = "hls"
  /\ Goes(IF play.mine THEN "publishing_hls" ELSE "leaving")
  /\ UNCHANGED <<now, ui, link, ring>>

publish_hls ==
  /\ play.at = "publishing_hls"
  /\ link' = [link EXCEPT !.live = TRUE]
  /\ Goes("starting")
  /\ UNCHANGED <<now, ui, ring>>

\* A playlist where a stream was expected: read, and let go of.
play_lists ==
  /\ play.at = "listing"
  /\ link' = [link EXCEPT !.live = FALSE]
  /\ \E kind \in {"plain", "hls"} :
       play' = [play EXCEPT !.at = "judging", !.kind = kind, !.redirect = TRUE]
  /\ UNCHANGED <<now, ui, ring>>

play_lists_nothing ==
  /\ play.at = "listing"
  /\ link' = [link EXCEPT !.live = FALSE]
  /\ now' = [now EXCEPT !.error = TRUE]
  /\ Goes("leaving")
  /\ UNCHANGED <<ui, ring>>

\* Whether the address is to be tried again, after play_one_connection() or
\* play_hls().
Done ==
  IF play.kind = "hls"
  THEN ~(~play.heard /\ play.mine /\ ~play.clean)
  ELSE IF ~play.heard /\ play.mine /\ ~play.hopeless THEN FALSE ELSE play.clean

play_judges ==
  /\ play.at = "judging"
  /\ play' = CASE play.redirect /\ play.hops > 0 /\ play.mine ->
                    [play EXCEPT !.at = "attempting", !.hops = @ - 1]
               [] play.redirect -> [play EXCEPT !.at = "leaving"]
               [] Done -> [play EXCEPT !.at = "leaving"]
               [] OTHER -> TriedAgain
  /\ UNCHANGED <<now, ui, link, ring>>

play_leaves ==
  /\ play.at = "leaving"
  /\ Goes(IF play.mine THEN "clearing" ELSE "done")
  /\ UNCHANGED <<now, ui, link, ring>>

play_clears ==
  /\ play.at = "clearing"
  /\ now' = [Stopped EXCEPT !.error = @ \/ ~now.playing]
  /\ Goes("done")
  /\ UNCHANGED <<ui, link, ring>>

-----------------------------------------------------------------------------
(* The player thread: one connection. *)

Refused == play' = [play EXCEPT !.at = "closing", !.clean = TRUE]
Hopeless == play' = [play EXCEPT !.at = "closing", !.clean = TRUE, !.hopeless = TRUE]

play_starts_buffer ==
  /\ play.at = "starting"
  /\ ring' = [level |-> 0, ended |-> FALSE, stop |-> FALSE, filler |-> "looking"]
  /\ Goes("turning")
  /\ UNCHANGED <<now, ui, link>>

play_starts_no_buffer ==
  /\ "thread" \in Faults
  /\ play.at = "starting"
  /\ Goes("closing")
  /\ UNCHANGED <<now, ui, link, ring>>

\* HLS opens its decoder before the buffer.
play_starts_no_decoder ==
  /\ "memory" \in Faults
  /\ play.at = "starting" /\ play.kind = "hls"
  /\ now' = Failed
  /\ Refused
  /\ UNCHANGED <<ui, link, ring>>

\* The head of the three loops.
play_turns ==
  /\ play.at = "turning"
  /\ play' = IF play.mine
             THEN [play EXCEPT !.at = IF play.ended THEN "decoding" ELSE "reading"]
             ELSE [play EXCEPT !.at = "closing", !.clean = (play.kind # "flac")]
  /\ UNCHANGED <<now, ui, link, ring>>

\* RADIO_SILENCE_TIMEOUT, of the plain loop.
play_times_out ==
  /\ play.at = "turning" /\ play.mine
  /\ play.kind = "plain" /\ ~play.heard
  /\ now' = Failed
  /\ Refused
  /\ UNCHANGED <<ui, link, ring>>

\* radio_buffer_read(), ...
play_reads ==
  /\ play.at = "reading"
  /\ ring.level > 0
  /\ ring' = [ring EXCEPT !.level = @ - 1]
  /\ Goes("decoding")
  /\ UNCHANGED <<now, ui, link>>

\* ... and what comes of its end: the plain loop still decodes what it has.
play_reads_nothing ==
  /\ play.at = "reading"
  /\ ring.level = 0 /\ ring.ended
  /\ play' = IF play.kind = "hls"
             THEN [play EXCEPT !.at = "closing"]
             ELSE [play EXCEPT !.at = "decoding", !.ended = TRUE]
  /\ UNCHANGED <<now, ui, link, ring>>

\* Not a frame yet, or nothing that makes one.
play_hunts ==
  /\ play.at = "decoding"
  /\ Goes(IF play.ended THEN "closing" ELSE "turning")
  /\ UNCHANGED <<now, ui, link, ring>>

play_decodes ==
  /\ play.at = "decoding"
  /\ play' = [play EXCEPT !.at = "pushing", !.heard = TRUE]
  /\ UNCHANGED <<now, ui, link, ring>>

\* The first bytes say FLAC, or AAC, for which a decoder has to be made.
play_sniffs_flac ==
  /\ play.at = "decoding" /\ play.kind = "plain" /\ ~play.heard /\ ~play.ended
  /\ play' = [play EXCEPT !.at = "turning", !.kind = "flac"]
  /\ UNCHANGED <<now, ui, link, ring>>

play_makes_no_flac ==
  /\ "memory" \in Faults
  /\ play.at = "decoding" /\ play.kind = "plain" /\ ~play.heard /\ ~play.ended
  /\ Hopeless
  /\ UNCHANGED <<now, ui, link, ring>>

play_makes_no_aac ==
  /\ "memory" \in Faults
  /\ play.at = "decoding" /\ play.kind = "plain" /\ ~play.heard /\ ~play.ended
  /\ now' = Failed
  /\ Refused
  /\ UNCHANGED <<ui, link, ring>>

\* A full buffer, and not a frame in it.
play_finds_nothing ==
  /\ play.at = "decoding" /\ play.kind = "plain" /\ ~play.ended
  /\ now' = [now EXCEPT !.error = TRUE]
  /\ Refused
  /\ UNCHANGED <<ui, link, ring>>

\* aacdec_fill() gives up.
play_breaks ==
  /\ play.at = "decoding" /\ play.kind # "flac"
  /\ Goes("closing")
  /\ UNCHANGED <<now, ui, link, ring>>

\* radioflac_read() has looked at SEARCH_LIMIT_BYTES.
play_finds_no_flac ==
  /\ play.at = "decoding" /\ play.kind = "flac" /\ ~play.heard
  /\ now' = Failed
  /\ Hopeless
  /\ UNCHANGED <<ui, link, ring>>

\* radio_push_pcm(), ...
play_pushes ==
  /\ play.at = "pushing" /\ play.out
  /\ Goes("turning")
  /\ UNCHANGED <<now, ui, link, ring>>

\* ... which opens the output for the first frame, and again when the stream
\* changes its rate.
play_opens_output ==
  /\ play.at = "pushing"
  /\ play' = [play EXCEPT !.at = "turning", !.out = TRUE]
  /\ now' = [now EXCEPT !.connecting = FALSE, !.playing = TRUE]
  /\ UNCHANGED <<ui, link, ring>>

play_opens_no_output ==
  /\ "output" \in Faults
  /\ play.at = "pushing"
  /\ play' = [play EXCEPT !.at = "closing", !.clean = TRUE, !.out = FALSE]
  /\ UNCHANGED <<now, ui, link, ring>>

\* Off the shared slot first, ...
play_closes ==
  /\ play.at = "closing"
  /\ link' = [link EXCEPT !.live = FALSE]
  /\ Goes("stopping")
  /\ UNCHANGED <<now, ui, ring>>

\* ... then radio_buffer_stop(), ...
play_stops_buffer ==
  /\ play.at = "stopping"
  /\ ring' = [ring EXCEPT !.stop = TRUE]
  /\ link' = [link EXCEPT !.woken = TRUE]
  /\ Goes("ending")
  /\ UNCHANGED <<now, ui>>

\* ... and once the filler is gone the output, the ring and the connection.
play_ends ==
  /\ play.at = "ending"
  /\ ring.filler = "gone"
  /\ play' = [play EXCEPT !.at = "judging", !.out = FALSE]
  /\ ring' = NoRing /\ link' = NoLink
  /\ UNCHANGED <<now, ui>>

-----------------------------------------------------------------------------
(* radio_buffer_main(). *)

filler_looks ==
  /\ ring.filler = "looking"
  /\ ring.stop \/ ring.level < RADIO_BUFFER
  /\ ring' = [ring EXCEPT !.filler = IF ring.stop THEN "gone" ELSE "fetching"]
  /\ UNCHANGED <<now, ui, play, link>>

filler_fetches ==
  /\ ring.filler = "fetching"
  /\ ring' = [ring EXCEPT !.level = @ + 1, !.filler = "looking"]
  /\ UNCHANGED <<now, ui, play, link>>

Ended == [ring EXCEPT !.ended = TRUE, !.filler = "gone"]

\* The station closes, goes quiet for the receive timeout, or is woken.
filler_ends ==
  /\ ring.filler = "fetching"
  /\ ring' = Ended
  /\ UNCHANGED <<now, ui, play, link>>

-----------------------------------------------------------------------------
Press == radio_play \/ radio_stop \/ radio_clear \/ toggle_play_pause

Interface ==
  \/ toggle_stops \/ radio_resume \/ resume_supersedes
  \/ transport_wakes \/ transport_joins
  \/ play_writes \/ stop_writes \/ clear_writes
  \/ transport_starts \/ transport_fails

\* From connection to connection, ...
Connects ==
  \/ play_resolves \/ play_resolves_nothing \/ play_attempts \/ play_again
  \/ play_opens \/ play_opens_nothing \/ play_opens_no_hls
  \/ publish \/ publish_asks_hls \/ publish_hls
  \/ play_lists \/ play_lists_nothing
  \/ play_judges \/ play_leaves \/ play_clears

\* ... and within one.
Plays ==
  \/ play_starts_buffer \/ play_starts_no_buffer \/ play_starts_no_decoder
  \/ play_turns \/ play_times_out \/ play_reads \/ play_reads_nothing
  \/ play_hunts \/ play_decodes
  \/ play_sniffs_flac \/ play_makes_no_flac \/ play_makes_no_aac
  \/ play_finds_nothing \/ play_breaks \/ play_finds_no_flac
  \/ play_pushes \/ play_opens_output \/ play_opens_no_output
  \/ play_closes \/ play_stops_buffer \/ play_ends

Player == Connects \/ Plays
Filler == filler_looks \/ filler_fetches \/ filler_ends

Next == Press \/ Interface \/ Player \/ Filler

Spec == Init /\ [][Next]_vars

(* Threads that can go on do; time passes while a station is silent, and    *)
(* the search for FLAC counts the bytes it has seen.                        *)
Fairness ==
  /\ WF_vars(Interface) /\ WF_vars(Player) /\ WF_vars(Filler)
  /\ SF_vars(play_times_out) /\ SF_vars(play_finds_no_flac)

LiveSpec == Spec /\ Fairness

-----------------------------------------------------------------------------
(* Properties. *)

Connected == {"publishing", "publishing_hls", "listing", "starting", "turning",
              "reading", "decoding", "pushing", "closing", "stopping", "ending"}
Looping == {"turning", "reading", "decoding", "pushing"}
Quiet == ~now.playing /\ ~now.connecting

NowType == [station : Stations \cup {NoStation}, connecting : BOOLEAN,
            playing : BOOLEAN, error : BOOLEAN]
UiType ==
  [at : {"free", "toggling", "superseding", "waking", "joining", "writing", "starting"},
   op : {"play", "stop", "clear", "resume"},
   station : Stations \cup {NoStation}, hurried : BOOLEAN]
PlayType ==
  [at : Connected \cup {"off", "resolving", "attempting", "again", "opening",
                        "judging", "leaving", "clearing", "done"},
   mine : BOOLEAN, station : Stations \cup {NoStation}, kind : {"plain", "flac", "hls"},
   attempt : 0..(RADIO_MAX_RETRIES + 1), hops : 0..PLAYLIST_MAX_HOPS,
   redirect : BOOLEAN, heard : BOOLEAN, clean : BOOLEAN, hopeless : BOOLEAN,
   out : BOOLEAN, ended : BOOLEAN, hurried : BOOLEAN]
LinkType == [live : BOOLEAN, woken : BOOLEAN]
RingType == [level : 0..RADIO_BUFFER, ended : BOOLEAN, stop : BOOLEAN,
             filler : {"looking", "fetching", "gone"}]

TypeOK ==
  /\ now \in NowType /\ ui \in UiType /\ play \in PlayType
  /\ link \in LinkType /\ ring \in RingType

\* What the interface waits for does not wait for the network: it shuts down
\* only a connection that is open, the thread it joins is not left in a read of
\* one that is not shut down, and the filler reads from nothing that is closed.
StopIsHeard ==
  /\ link.live => play.at \in Connected
  /\ ui.at = "joining" /\ play.at = "listing" => link.woken
  /\ ui.at = "joining" /\ play.at = "reading" /\ ring.level = 0 /\ ~ring.ended => link.woken
  /\ ring.filler # "gone" => play.at \in Connected

\* Between two presses the screen shows the station that is played and how far
\* it has got: no flag outlives its thread, "playing" is said only of a station
\* that has been heard, and one that is being tried is shown as such.  A resume
\* is not held to it that met the end of the thread before it, or found none to
\* be started.
ScreenTellsTheTruth ==
  /\ play.at \notin {"off", "done"} /\ ui.at # "starting" => play.station = now.station
  /\ play.out /\ play.at \in Looping => now.playing \/ ui.at # "free"
  /\ ui.at = "free" =>
       /\ play.at = "done" => Quiet
       /\ play.at = "off" => Quiet \/ ui.op = "resume"
       /\ play.at # "off" /\ now.playing => play.hurried \/ (play.heard /\ ~now.connecting)
       /\ play.at = "opening" => play.hurried \/ now.connecting

\* A press comes to an end, and so does "connecting", before or with the press
\* after it - unless no thread could be started for a resume, or an HLS stream
\* goes on giving what nothing can decode.
RadioSettles ==
  /\ ui.at # "free" ~> ui.at = "free"
  /\ now.connecting ~> \/ ~now.connecting \/ ui.at # "free"
                       \/ play.at = "off" /\ ui.at = "free"
                       \/ play.kind = "hls" /\ play.at \in Looping

\* "Stop and say so rather than reconnect, which would only repeat it."
UnplayableIsNotRetried == [][play_again => ~now.error]_vars
=============================================================================
