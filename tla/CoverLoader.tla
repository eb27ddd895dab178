----------------------------- MODULE CoverLoader -----------------------------
(***************************************************************************)
(* coverloader.c: the thread that decodes the covers the interface asks    *)
(* for, and the one that tells which picture a track carries.              *)
(*                                                                         *)
(* The interface asks, polls and takes; it never waits.  What it asks goes *)
(* into a job of its own, which holds the newest request and nothing of    *)
(* those before; the worker copies a job, lets go of the lock, decodes,    *)
(* and throws the pictures away if the job was asked for something else in *)
(* the meantime.                                                           *)
(*                                                                         *)
(* Each step below is what one thread does under the lock.  A job's        *)
(* `generation' is compared with the copy the worker took of it and with   *)
(* nothing else: what is kept is whether the two still agree.  A thread    *)
(* that works for a generation gone by is at "wasted" work, of which       *)
(* nothing is left when it ends.  A picture is the path it was made from;  *)
(* the player's and its backdrop, or the two of the screensaver, count     *)
(* as one.                                                                 *)
(***************************************************************************)
EXTENDS Integers, FiniteSets

CONSTANTS
  Slots,        \* of the list rows, 0..COVERLOADER_SLOTS-1
  Paths,        \* the files covers are asked for
  NoPath,       \* no file, and no picture
  SourceId      \* what cover_source_id() says of a file; 0: no artwork

PLAYER == -1                        \* player_job
SAVER == Cardinality(Slots)         \* saver_job

\* By number in the order the worker takes them.
Jobs == {PLAYER} \cup Slots \cup {SAVER}

ASSUME LoaderAssumption ==
  /\ IsFiniteSet(Slots) /\ Slots = 0..(Cardinality(Slots) - 1)
  /\ NoPath \notin Paths
  /\ SourceId \in [Paths -> Nat]

VARIABLE loader
(***************************************************************************)
(* .jobs[j]        path, pending (asked, not started), done (a result      *)
(*                 waits), found, and the picture                          *)
(* .id_job         player_id_job: the same with a number for an answer     *)
(* .prefetch_job   a path waits to be made, for the cache only              *)
(* .worker         at: "asleep" in pthread_cond_wait(), "looking" for a    *)
(*                 job, "decoding" or "identifying", "wasted", or          *)
(*                 "prefetching"; with the job and its copy of the path    *)
(* .id_worker      the same for id_worker                                  *)
(* .id_on_worker   id_worker could not be started                          *)
(* .live           how many pictures are allocated                         *)
(***************************************************************************)

Idle == [path |-> NoPath, pending |-> FALSE, done |-> FALSE, found |-> FALSE,
         picture |-> NoPath]
IdIdle == [path |-> NoPath, pending |-> FALSE, done |-> FALSE, id |-> 0]
Looking == [at |-> "looking", job |-> PLAYER, path |-> NoPath]
Wasted == [Looking EXCEPT !.at = "wasted"]

LoaderInit ==
  \E on_worker \in BOOLEAN :
    loader = [jobs |-> [j \in Jobs |-> Idle], id_job |-> IdIdle, prefetch_job |-> FALSE,
              worker |-> Looking, id_worker |-> Looking,
              id_on_worker |-> on_worker, live |-> 0]

Held(picture) == IF picture = NoPath THEN 0 ELSE 1

Woken(thread) == [thread EXCEPT !.at = IF @ = "asleep" THEN "looking" ELSE @]

-----------------------------------------------------------------------------
(* What the interface calls. *)

Discarded_sameGeneration(l, j) ==
  [l EXCEPT !.jobs[j] = Idle, !.live = @ - Held(l.jobs[j].picture)]

Discarded_leaks(l, j) ==
  [l EXCEPT !.jobs[j] = Idle,
            !.worker = IF @.at = "decoding" /\ @.job = j THEN Wasted ELSE @]

\* discard() and dual_discard().
Discarded(l, j) ==
  [l EXCEPT !.jobs[j] = Idle,
            !.worker = IF @.at = "decoding" /\ @.job = j THEN Wasted ELSE @,
            !.live = @ - Held(l.jobs[j].picture)]

\* coverloader_request(), _request_shared(), _request_player(), _request_screensaver().
Requested(l, j, path) ==
  [Discarded(l, j) EXCEPT !.jobs[j].path = path,
                          !.jobs[j].pending = TRUE,
                          !.worker = Woken(@)]

Taken_andFreed(l, j) == [l EXCEPT !.jobs[j] = Idle, !.live = @ - 1]

\* coverloader_take() and dual_take(), once there is something to take:
\* the picture is the caller's and the job keeps nothing.
Taken(l, j) == [l EXCEPT !.jobs[j] = Idle]

\* coverloader_request_player_id().
Outdated(thread) == IF thread.at = "identifying" THEN Wasted ELSE thread

IdRequested_unheard(l, path) ==
  [l EXCEPT !.id_job = [IdIdle EXCEPT !.path = path, !.pending = TRUE],
            !.worker = IF l.id_on_worker THEN Outdated(@) ELSE @,
            !.id_worker = Woken(Outdated(@))]

IdRequested(l, path) ==
  [l EXCEPT !.id_job = [IdIdle EXCEPT !.path = path, !.pending = TRUE],
            !.worker = IF l.id_on_worker THEN Woken(Outdated(@)) ELSE @,
            !.id_worker = IF l.id_on_worker THEN @ ELSE Woken(Outdated(@))]

\* coverloader_take_player_id().
IdTaken(l) == [l EXCEPT !.id_job = IdIdle]

\* coverloader_prefetch_player().
Prefetched(l) == [l EXCEPT !.prefetch_job = TRUE, !.worker = Woken(@)]

-----------------------------------------------------------------------------
(* The worker. *)

IdWaits == loader.id_on_worker /\ loader.id_job.pending
Waiting == {j \in Jobs : loader.jobs[j].pending}

WorkerLooks == loader.worker.at = "looking"

worker_sleeps ==
  /\ WorkerLooks /\ ~IdWaits /\ Waiting = {} /\ ~loader.prefetch_job
  /\ loader' = [loader EXCEPT !.worker.at = "asleep"]

\* The start of run_dual_job(), or of a slot's turn.
worker_starts ==
  /\ WorkerLooks /\ ~IdWaits
  /\ \E j \in Waiting :
       /\ \A i \in Waiting : j <= i
       /\ loader' = [loader EXCEPT !.jobs[j].pending = FALSE,
                                   !.worker = [at |-> "decoding", job |-> j,
                                               path |-> loader.jobs[j].path]]

\* What a decode may return: a picture, or none.
Decoded(path) == {[found |-> FALSE, picture |-> NoPath]}
                 \cup {[found |-> TRUE, picture |-> p] : p \in {q \in {path} : SourceId[q] # 0}}

\* The rest of them, the lock taken again: unless the job was asked for
\* something else since.
Finished(l, result) ==
  [l EXCEPT !.jobs[l.worker.job] = [@ EXCEPT !.done = TRUE, !.found = result.found,
                                             !.picture = result.picture],
            !.worker = Looking,
            !.live = @ + Held(result.picture)]

worker_finishes ==
  \/ /\ loader.worker.at = "decoding"
     /\ \E result \in Decoded(loader.worker.path) : loader' = Finished(loader, result)
  \/ /\ loader.worker.at = "wasted"
     /\ loader' = [loader EXCEPT !.worker = Looking]

worker_prefetches ==
  \/ /\ WorkerLooks /\ ~IdWaits /\ Waiting = {} /\ loader.prefetch_job
     /\ loader' = [loader EXCEPT !.prefetch_job = FALSE, !.worker.at = "prefetching"]
  \/ /\ loader.worker.at = "prefetching"
     /\ loader' = [loader EXCEPT !.worker = Looking]

-----------------------------------------------------------------------------
(* answer_id(): by id_worker, or by the worker before all else. *)

Asks(thread, path) == [thread EXCEPT !.at = "identifying", !.path = path]

IdAnswered(l, path) == [l EXCEPT !.id_job.done = TRUE, !.id_job.id = SourceId[path]]

worker_answers_id ==
  \/ /\ WorkerLooks /\ IdWaits
     /\ loader' = [loader EXCEPT !.id_job.pending = FALSE,
                                 !.worker = Asks(@, loader.id_job.path)]
  \/ /\ loader.worker.at = "identifying"
     /\ loader' = [IdAnswered(loader, loader.worker.path) EXCEPT !.worker = Looking]

id_worker_sleeps ==
  /\ ~loader.id_on_worker /\ loader.id_worker.at = "looking" /\ ~loader.id_job.pending
  /\ loader' = [loader EXCEPT !.id_worker.at = "asleep"]

id_worker_answers ==
  \/ /\ ~loader.id_on_worker /\ loader.id_worker.at = "looking" /\ loader.id_job.pending
     /\ loader' = [loader EXCEPT !.id_job.pending = FALSE,
                                 !.id_worker = Asks(@, loader.id_job.path)]
  \/ /\ loader.id_worker.at = "identifying"
     /\ loader' = [IdAnswered(loader, loader.id_worker.path) EXCEPT !.id_worker = Looking]
  \/ /\ loader.id_worker.at = "wasted"
     /\ loader' = [loader EXCEPT !.id_worker = Looking]

WorkerSteps == worker_sleeps \/ worker_starts \/ worker_finishes \/ worker_prefetches \/ worker_answers_id
IdWorkerSteps == id_worker_sleeps \/ id_worker_answers

-----------------------------------------------------------------------------
(* The loader by itself, under whatever calls the interface makes of it.   *)

ClientCalls ==
  \/ \E j \in Jobs, path \in Paths : loader' = Requested(loader, j, path)
  \/ \E j \in Jobs : loader' = Discarded(loader, j)
  \/ \E j \in Jobs : loader.jobs[j].done /\ loader' = Taken(loader, j)
  \/ \E path \in Paths : loader' = IdRequested(loader, path)
  \/ loader.id_job.done /\ loader' = IdTaken(loader)
  \/ loader' = Prefetched(loader)

LoaderSpec == LoaderInit /\ [][WorkerSteps \/ IdWorkerSteps \/ ClientCalls]_loader

\* The question a job has, and the answer that waits in it.
Question(j) ==
  LET job == loader.jobs[j] IN
    IF job.pending \/ job.done \/ (loader.worker.at = "decoding" /\ loader.worker.job = j)
    THEN job.path ELSE NoPath

Answer(j) ==
  LET job == loader.jobs[j] IN IF job.done THEN <<job.picture>> ELSE NoPath

IdQuestion ==
  LET job == loader.id_job IN
    IF job.pending \/ job.done \/ "identifying" \in {loader.worker.at, loader.id_worker.at}
    THEN job.path ELSE NoPath

IdAnswer == IF loader.id_job.done THEN <<loader.id_job.id>> ELSE NoPath

ID == SAVER + 1

Promise == INSTANCE LatestAnswer WITH
  Askers <- Jobs \cup {ID}, Questions <- Paths, Nothing <- NoPath,
  Answers <- LAMBDA a, path : IF a = ID THEN {<<SourceId[path]>>} ELSE {<<path>>, <<NoPath>>},
  asked <- [a \in Jobs \cup {ID} |-> IF a = ID THEN IdQuestion ELSE Question(a)],
  answer <- [a \in Jobs \cup {ID} |-> IF a = ID THEN IdAnswer ELSE Answer(a)]

\* A cover, or what is said of one, is of the file that was asked for last,
\* and is given once: none that was asked for before is delivered late.
AnswersAreLatest == Promise!Spec
=============================================================================
