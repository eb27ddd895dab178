------------------------------- MODULE Covers -------------------------------
(***************************************************************************)
(* The loader with those who ask it: the player's cover (player.c), the    *)
(* rows of a list (browser.c) and the screensaver (screensaver.c).         *)
(*                                                                         *)
(* All three run on the interface thread, each callback to its end; the    *)
(* loader's threads take their steps between two of them.                  *)
(***************************************************************************)
EXTENDS CoverLoader

CONSTANTS
  Played,       \* of the files, those that are played
  Listed,       \* those in the listing
  Photographs   \* those in the card's Screensaver folder

ASSUME CoversAssumption ==
  Played \cup Listed \cup Photographs \subseteq Paths

VARIABLES
  player,   \* .shown_path, .shown_id, .incoming_id, .id_state, .outstanding;
            \* .cover: the picture on screen; .polling: cover_poll_timer runs
  rows,     \* for each row .of, the entry it is bound to; .requested, .settled, .thumb
  listing,  \* thumb_timer runs
  saver     \* .images: the pictures are those of the folder; .pending; .next and
            \* .image: the pair prepared and the pair on screen; .visible

clients == <<player, rows, listing, saver>>
vars == <<loader, player, rows, listing, saver>>

Init ==
  /\ LoaderInit
  /\ player = [shown_path |-> NoPath, shown_id |-> 0, incoming_id |-> 0, id_state |-> "idle",
               outstanding |-> FALSE, cover |-> NoPath, polling |-> FALSE]
  /\ rows = [s \in Slots |-> [of |-> NoPath, requested |-> FALSE, settled |-> FALSE, thumb |-> NoPath]]
  /\ listing = FALSE
  /\ saver = [images |-> FALSE, pending |-> FALSE, next |-> NoPath, image |-> NoPath, visible |-> FALSE]

-----------------------------------------------------------------------------
(* The player's cover.  Each of these takes the loader and the player and  *)
(* gives both as its calls leave them.                                     *)

Both(l, p) == [loader |-> l, player |-> p]

reload_cover(w, path) ==
  LET p == [w.player EXCEPT !.cover = NoPath]
      l == [w.loader EXCEPT !.live = @ - Held(w.player.cover)]
  IN  IF path = NoPath THEN Both(l, [p EXCEPT !.outstanding = FALSE])
      ELSE Both(Requested(l, PLAYER, path), [p EXCEPT !.outstanding = TRUE, !.polling = TRUE])

asks_id(w, why) ==
  Both(IdRequested(w.loader, w.player.shown_path), [w.player EXCEPT !.id_state = why, !.polling = TRUE])

refresh_cover_remembers(w, path) ==
  LET p == [w.player EXCEPT !.shown_path = path] IN
    IF p.shown_id # 0 /\ p.cover # NoPath /\ path # NoPath
    THEN asks_id(Both(w.loader, p), "new track")
    ELSE reload_cover(Both(w.loader, [p EXCEPT !.id_state = "idle"]), path)

refresh_cover(w, path) ==
  LET p == [w.player EXCEPT !.shown_path = path] IN
    IF p.shown_id # 0 /\ p.cover # NoPath /\ path # NoPath
    THEN asks_id(Both(w.loader, p), "new track")
    ELSE reload_cover(Both(w.loader, [p EXCEPT !.id_state = "idle", !.incoming_id = 0]), path)

apply_cover_id_result(w) ==
  LET p == w.player
      id == w.loader.id_job.id
      asked == Both(IdTaken(w.loader), [p EXCEPT !.id_state = "idle"])
  IN  IF p.id_state = "idle" \/ ~w.loader.id_job.done THEN w
      ELSE IF p.id_state = "measure" THEN [asked EXCEPT !.player.shown_id = id]
      ELSE IF id # 0 /\ id = p.shown_id THEN asked
      ELSE reload_cover([asked EXCEPT !.player.incoming_id = id], p.shown_path)

\* `ahead': the screen is on, and the peek at the queue gives another file.
prefetch_next_cover(w, ahead) == IF ahead THEN [w EXCEPT !.loader = Prefetched(@)] ELSE w

apply_cover_result(w, ahead) ==
  LET p == w.player
      job == w.loader.jobs[PLAYER]
      taken == Both(Taken(w.loader, PLAYER), [p EXCEPT !.outstanding = FALSE, !.incoming_id = 0])
      put == [taken EXCEPT !.player.cover = job.picture,
                           !.player.shown_id = p.incoming_id]
  IN  IF ~p.outstanding \/ ~job.done THEN w
      ELSE prefetch_next_cover(
             IF ~job.found THEN [taken EXCEPT !.player.shown_id = 0]
             ELSE IF p.incoming_id = 0 THEN asks_id(put, "measure")
             ELSE put, ahead)

OfPlayer(w) ==
  /\ loader' = w.loader /\ player' = w.player
  /\ UNCHANGED <<rows, listing, saver>>

Now == Both(loader, player)
Collected(ahead) == apply_cover_result(apply_cover_id_result(Now), ahead)

\* refresh_now_playing(), refresh_live_texts(), player_refresh_theme().
track_changes == \E path \in Played \cup {NoPath} : OfPlayer(refresh_cover(Now, path))

\* update_layout(), to or from the arrangement that shows the backdrop in another shape.
layout_changes == player.shown_path # NoPath /\ OfPlayer(reload_cover(Now, player.shown_path))

cover_poll_cb ==
  /\ player.polling
  /\ \E ahead \in BOOLEAN :
       LET w == Collected(ahead) IN
         OfPlayer([w EXCEPT !.player.polling = w.player.outstanding \/ w.player.id_state # "idle"])

progress_slider_timer_cb == \E ahead \in BOOLEAN : OfPlayer(Collected(ahead))

-----------------------------------------------------------------------------
(* The rows of a list. *)

row_drop_thumb(s, l) == [Discarded(l, s) EXCEPT !.live = @ - Held(rows[s].thumb)]

row_calls(s, call, l) ==
  CASE call = "drop" -> row_drop_thumb(s, l)
    [] call = "take" -> Taken(l, s)
    [] call = "ask"  -> Requested(l, s, rows[s].of)
    [] call = "none" -> l

\* What is left of the loader when the rows have been gone through, each with
\* a call of its own.
AllRowsCall(calls) ==
  LET after[n \in 0..SAVER] ==
        IF n = 0 THEN loader ELSE row_calls(n - 1, calls[n - 1], after[n - 1])
  IN  after[SAVER]

\* row_bind() of every row, by window_update() or browser_open_dir(): those
\* that keep their entry are let be.
list_scrolls ==
  \E entries \in [Slots -> Listed \cup {NoPath}] :
    LET rebound == {s \in Slots : entries[s] # rows[s].of} IN
      /\ rebound # {}
      /\ loader' = AllRowsCall([s \in Slots |-> IF s \in rebound THEN "drop" ELSE "none"])
      /\ rows' = [s \in Slots |->
                    IF s \in rebound
                    THEN [of |-> entries[s], requested |-> FALSE, settled |-> FALSE, thumb |-> NoPath]
                    ELSE rows[s]]
      /\ listing' = TRUE
      /\ UNCHANGED <<player, saver>>

Unsettled(s) == rows[s].of # NoPath /\ ~rows[s].settled
Collects(s) == Unsettled(s) /\ rows[s].requested /\ loader.jobs[s].done

row_updates(s) ==
  IF Collects(s) THEN "take" ELSE IF Unsettled(s) /\ ~rows[s].requested THEN "ask" ELSE "none"

thumbs_update ==
  /\ listing
  /\ loader' = AllRowsCall([s \in Slots |-> row_updates(s)])
  /\ rows' = [s \in Slots |->
                IF Collects(s) THEN [rows[s] EXCEPT !.settled = TRUE, !.thumb = loader.jobs[s].picture]
                ELSE IF Unsettled(s) THEN [rows[s] EXCEPT !.requested = TRUE]
                ELSE rows[s]]
  /\ listing' = \E s \in Slots : Unsettled(s) /\ ~Collects(s)
  /\ UNCHANGED <<player, saver>>

-----------------------------------------------------------------------------
(* The screensaver.                                                        *)

Kept(l, v) == [loader |-> l, saver |-> v]

request_next(w, path) ==
  IF ~w.saver.images \/ w.saver.next # NoPath \/ w.saver.pending \/ path = NoPath THEN w
  ELSE Kept(Requested(w.loader, SAVER, path), [w.saver EXCEPT !.pending = TRUE])

collect_next(w) ==
  LET job == w.loader.jobs[SAVER] IN
    IF ~w.saver.pending \/ ~job.done THEN w
    ELSE IF ~job.found THEN Kept(Taken(w.loader, SAVER), [w.saver EXCEPT !.pending = FALSE])
    ELSE Kept([Taken(w.loader, SAVER) EXCEPT !.live = @ - Held(w.saver.next)],
              [w.saver EXCEPT !.pending = FALSE, !.next = job.picture])

promote_next(w) ==
  IF w.saver.next = NoPath THEN w
  ELSE Kept([w.loader EXCEPT !.live = @ - Held(w.saver.image)],
            [w.saver EXCEPT !.image = w.saver.next, !.next = NoPath])

drop_next(w) ==
  LET l == IF w.saver.pending THEN Discarded(w.loader, SAVER) ELSE w.loader IN
    Kept([l EXCEPT !.live = @ - Held(w.saver.next)],
         [w.saver EXCEPT !.pending = FALSE, !.next = NoPath])

drop_image(w) ==
  Kept([w.loader EXCEPT !.live = @ - Held(w.saver.image)], [w.saver EXCEPT !.image = NoPath])

OfSaver(w) ==
  /\ loader' = w.loader /\ saver' = w.saver
  /\ UNCHANGED <<player, rows, listing>>

Sleeping == Kept(loader, saver)

\* As the panel goes dark, and as it lights up.
screensaver_prepare ==
  \E waking \in BOOLEAN, path \in Photographs \cup {NoPath} :
    LET w == collect_next(Sleeping)
        up == [(IF waking \/ ~saver.visible THEN promote_next(w) ELSE w) EXCEPT !.saver.visible = TRUE]
    IN  OfSaver(IF waking THEN up ELSE request_next(up, path))

clock_timer_cb == saver.visible /\ OfSaver(collect_next(Sleeping))

finish_hide ==
  /\ saver.visible
  /\ OfSaver([drop_next(drop_image(Sleeping)) EXCEPT !.saver.visible = FALSE])

\* screensaver_set_source(), and screensaver_set_enabled() when it is turned off.
source_changes ==
  \/ \E path \in Photographs \cup {NoPath} :
       OfSaver(request_next([Sleeping EXCEPT !.saver.images = TRUE], path))
  \/ OfSaver([drop_next(Sleeping) EXCEPT !.saver.images = FALSE])
  \/ ~saver.visible /\ OfSaver(drop_next(Sleeping))

-----------------------------------------------------------------------------

Changes == track_changes \/ layout_changes \/ list_scrolls
SaverSteps == screensaver_prepare \/ clock_timer_cb \/ finish_hide \/ source_changes
ThreadSteps == (WorkerSteps \/ IdWorkerSteps) /\ UNCHANGED clients

Next ==
  \/ Changes \/ SaverSteps
  \/ cover_poll_cb \/ progress_slider_timer_cb \/ thumbs_update
  \/ ThreadSteps

\* The two timers fire as long as they run; the threads are scheduled.
Fairness ==
  /\ WF_vars(cover_poll_cb) /\ WF_vars(thumbs_update)
  /\ WF_vars(WorkerSteps /\ UNCHANGED clients)
  /\ WF_vars(IdWorkerSteps /\ UNCHANGED clients)

Spec == Init /\ [][Next]_vars /\ Fairness

-----------------------------------------------------------------------------

\* What the loader and the player are made of; and no picture is freed that
\* was not there (`live', the count of cover_free() against the decodes).
TypeOK ==
  /\ loader.jobs \in [Jobs -> [path : Paths \cup {NoPath}, pending : BOOLEAN, done : BOOLEAN,
                              found : BOOLEAN, picture : Paths \cup {NoPath}]]
  /\ loader.live \in Nat
  /\ loader.worker.at \in {"asleep", "looking", "decoding", "wasted", "prefetching", "identifying"}
  /\ player.id_state \in {"idle", "new track", "measure"}

\* Every picture that was decoded and not freed is held, and by one holder:
\* a job that waits to be collected, a row, the player, or the screensaver.
\* A request that overtakes a decode, a row that scrolls away and a picture
\* handed over must each free once and no more (coverloader.c discard(),
\* dual_discard(), dual_take(); browser.c row_drop_thumb()).
NothingLeaks ==
  loader.live = Cardinality({j \in Jobs : loader.jobs[j].picture # NoPath})
                + Cardinality({s \in Slots : rows[s].thumb # NoPath})
                + Held(player.cover) + Held(saver.next) + Held(saver.image)

\* The cover on screen carries the picture of the track that is shown, unless
\* the question whether it does is out; and what the next track's is compared
\* with is what is on screen (refresh_cover(), player_cover_copy(): "Only a
\* settled cover").  A row's picture is of the entry it is bound to.
CoverIsOfTheTrack ==
  /\ player.cover # NoPath =>
       \/ player.id_state = "new track"
       \/ player.shown_path # NoPath /\ SourceId[player.cover] = SourceId[player.shown_path]
  /\ player.cover # NoPath /\ player.shown_id # 0 => player.shown_id = SourceId[player.cover]
  /\ \A s \in Slots : rows[s].thumb \in {NoPath, rows[s].of}

\* Nothing is waited for.
Settled ==
  /\ player.id_state = "idle" /\ ~player.outstanding
  /\ \A s \in Slots : ~Unsettled(s)

\* Once the track, the arrangement and the list stay as they are, the player
\* and every row come to have their answer: no request is left behind by a
\* lost wakeup, a timer paused too soon, or a question nobody answers, with
\* id_worker or, where it could not be started, without.
EverythingSettles == <>[][~Changes]_vars => <>[]Settled
=============================================================================
