--------------------------- MODULE Covers_proofs ---------------------------
(***************************************************************************)
(* The cover loader keeps its promise, however many rows, files and calls  *)
(* there are: by itself, under whatever calls (LoaderSpec), and with those *)
(* who really ask it (Spec); there no picture is lost or freed twice, and  *)
(* what is on screen is of the track and of the row it is shown for.       *)
(*                                                                         *)
(* What makes it true is in two invariants.  LoaderInv: a job that is      *)
(* being decoded is still the job it was when the worker copied it, or     *)
(* else the work is wasted.  CoversInv: each of those who ask keeps only   *)
(* what it was asked for, and between them they hold the pictures that are *)
(* not in a job.                                                           *)
(*                                                                         *)
(* Those who ask make several calls in one step.  So the calls are proved  *)
(* about as values first (what Discarded, Requested and Taken leave of any *)
(* loader that is Sound), then each function of a caller's, then a step.   *)
(***************************************************************************)
EXTENDS Covers, FiniteSetTheorems, WellFoundedInduction, TLAPS

Files == Paths \cup {NoPath}

JobType == [path : Files, pending : BOOLEAN, done : BOOLEAN, found : BOOLEAN, picture : Files]
IdType == [path : Files, pending : BOOLEAN, done : BOOLEAN, id : Nat]
ThreadType ==
  [at : {"asleep", "looking", "decoding", "identifying", "wasted", "prefetching"},
   job : Jobs, path : Files]

LoaderType ==
  loader \in [jobs : [Jobs -> JobType], id_job : IdType, prefetch_job : BOOLEAN,
              worker : ThreadType, id_worker : ThreadType, id_on_worker : BOOLEAN, live : Int]

\* A job that waits, or has an answer, is about a file; and not both.
JobInv(job) ==
  /\ job.pending \/ job.done => job.path \in Paths
  /\ ~(job.pending /\ job.done)

\* A thread at work works for the job as it is.
AtWork(thread, job) ==
  /\ thread.path = job.path /\ job.path \in Paths
  /\ ~job.pending /\ ~job.done

Decoding(j) == loader.worker.at = "decoding" /\ loader.worker.job = j
Identifying == "identifying" \in {loader.worker.at, loader.id_worker.at}

LoaderInv ==
  /\ LoaderType
  /\ \A j \in Jobs : JobInv(loader.jobs[j])
  /\ \A j \in Jobs : loader.jobs[j].done => loader.jobs[j].picture \in {loader.jobs[j].path, NoPath}
  /\ \A j \in Jobs : Decoding(j) => AtWork(loader.worker, loader.jobs[j])
  /\ JobInv(loader.id_job)
  /\ loader.id_job.done => loader.id_job.id = SourceId[loader.id_job.path]
  /\ loader.worker.at = "identifying" => loader.id_on_worker /\ AtWork(loader.worker, loader.id_job)
  /\ loader.id_worker.at = "identifying" => ~loader.id_on_worker /\ AtWork(loader.id_worker, loader.id_job)

-----------------------------------------------------------------------------
(* What one step may do to one of those who ask. *)

JobKept(j) == Question(j)' = Question(j) /\ Answer(j)' = Answer(j)
IdKept == IdQuestion' = IdQuestion /\ IdAnswer' = IdAnswer

JobMoves(j) ==
  \/ Question(j)' \in Files /\ Answer(j)' = NoPath
  \/ /\ Question(j) \in Paths /\ Answer(j) = NoPath /\ Question(j)' = Question(j)
     /\ Answer(j)' \in {<<Question(j)>>, <<NoPath>>}
  \/ JobKept(j)

IdMoves ==
  \/ IdQuestion' \in Files /\ IdAnswer' = NoPath
  \/ /\ IdQuestion \in Paths /\ IdAnswer = NoPath /\ IdQuestion' = IdQuestion
     /\ IdAnswer' = <<SourceId[IdQuestion]>>
  \/ IdKept

LEMMA Numbers == SAVER \in Nat /\ ID \notin Jobs /\ PLAYER \in Jobs /\ SAVER \in Jobs
<1>1. SAVER \in Nat
  BY FS_CardinalityType, LoaderAssumption DEF SAVER
<1>2. \A j \in Jobs : j \in Int /\ j <= SAVER
  BY <1>1, LoaderAssumption DEF Jobs, PLAYER, SAVER
<1> QED
  BY <1>1, <1>2 DEF ID, Jobs

LEMMA MovesMakeAStep ==
  ASSUME \A j \in Jobs : JobMoves(j), IdMoves
  PROVE  Promise!Next
<1> SUFFICES ASSUME NEW a \in Jobs \cup {ID}
             PROVE  Promise!Ask(a) \/ Promise!Forget(a) \/ Promise!Answer(a) \/ Promise!Keep(a)
  BY DEF Promise!Next
<1>1. CASE a \in Jobs
  <2>1. a # ID
    BY <1>1, Numbers
  <2>2. JobMoves(a)
    BY <1>1
  <2> QED
    BY <1>1, <2>1, <2>2, LoaderAssumption
    DEF JobMoves, JobKept, Files, Promise!Ask, Promise!Forget, Promise!Answer, Promise!Keep
<1>2. CASE a = ID
  BY <1>2, LoaderAssumption
  DEF IdMoves, IdKept, Files, Promise!Ask, Promise!Forget, Promise!Answer, Promise!Keep
<1> QED
  BY <1>1, <1>2

\* A job that a step leaves alone, and the worker too as far as it is its job.
LEMMA JobLeftAlone ==
  ASSUME NEW j \in Jobs, loader'.jobs[j] = loader.jobs[j], Decoding(j)' <=> Decoding(j)
  PROVE  JobMoves(j)
BY DEF JobMoves, JobKept, Question, Answer, Decoding

LEMMA IdLeftAlone ==
  ASSUME loader'.id_job = loader.id_job, Identifying' <=> Identifying
  PROVE  IdMoves
BY DEF IdMoves, IdKept, IdQuestion, IdAnswer, Identifying

-----------------------------------------------------------------------------
Steps == LoaderInv' /\ (\A j \in Jobs : JobMoves(j)) /\ IdMoves

LEMMA InitHolds == LoaderInit => LoaderInv /\ Promise!Init
<1> SUFFICES ASSUME LoaderInit PROVE LoaderInv /\ Promise!Init
  OBVIOUS
<1>1. \A j \in Jobs : Question(j) = NoPath /\ Answer(j) = NoPath
  BY DEF LoaderInit, Question, Answer, Idle, Looking
<1>2. IdQuestion = NoPath /\ IdAnswer = NoPath
  BY DEF LoaderInit, IdQuestion, IdAnswer, IdIdle, Looking
<1>3. Promise!Init
  BY <1>1, <1>2 DEF Promise!Init
<1>4. LoaderInv
  BY Numbers DEF LoaderInit, LoaderInv, LoaderType, JobType, IdType, ThreadType, JobInv, Decoding,
                 Idle, IdIdle, Looking, Files
<1> QED
  BY <1>3, <1>4

\* Only the worker's place changes, and it was not at a job nor goes to one.
LEMMA Elsewhere ==
  ASSUME LoaderInv, NEW at \in {"asleep", "looking", "wasted", "prefetching"},
         loader.worker.at \notin {"decoding", "identifying"},
         NEW waits \in BOOLEAN,
         loader' = [loader EXCEPT !.worker = [@ EXCEPT !.at = at], !.prefetch_job = waits]
  PROVE  Steps
<1>1. LoaderInv'
  BY DEF LoaderInv, LoaderType, ThreadType, Decoding, JobInv, AtWork
<1>2. /\ loader'.worker.at = at
      /\ loader'.jobs = loader.jobs /\ loader'.id_job = loader.id_job
      /\ loader'.id_worker = loader.id_worker
  BY DEF LoaderInv, LoaderType, ThreadType
<1>3. \A j \in Jobs : JobMoves(j)
  BY <1>2, JobLeftAlone DEF Decoding
<1>4. IdMoves
  BY <1>2, IdLeftAlone DEF Identifying
<1> QED
  BY <1>1, <1>3, <1>4 DEF Steps

LEMMA WorkerSleeps ==
  ASSUME LoaderInv, worker_sleeps
  PROVE  Steps
<1>1. loader' = [loader EXCEPT !.worker = [@ EXCEPT !.at = "asleep"], !.prefetch_job = loader.prefetch_job]
  BY DEF worker_sleeps, LoaderInv, LoaderType
<1> QED
  BY <1>1, Elsewhere DEF worker_sleeps, WorkerLooks, LoaderInv, LoaderType

LEMMA WorkerStarts ==
  ASSUME LoaderInv, worker_starts
  PROVE  Steps
<1>1. PICK j \in Jobs :
        /\ loader.jobs[j].pending
        /\ loader' = [loader EXCEPT !.jobs[j].pending = FALSE,
                                    !.worker = [at |-> "decoding", job |-> j,
                                                path |-> loader.jobs[j].path]]
  BY DEF worker_starts, Waiting
<1>2. loader.worker.at = "looking"
  BY DEF worker_starts, WorkerLooks
<1>3. /\ loader'.worker = [at |-> "decoding", job |-> j, path |-> loader.jobs[j].path]
      /\ loader'.jobs = [loader.jobs EXCEPT ![j].pending = FALSE]
      /\ loader'.id_job = loader.id_job
      /\ loader'.id_worker = loader.id_worker
      /\ loader'.id_on_worker = loader.id_on_worker
  BY <1>1 DEF LoaderInv, LoaderType
<1>4. LoaderType'
  <2>1. [at |-> "decoding", job |-> j, path |-> loader.jobs[j].path] \in ThreadType
    BY DEF LoaderInv, LoaderType, JobType, ThreadType
  <2>2. [loader.jobs EXCEPT ![j].pending = FALSE] \in [Jobs -> JobType]
    BY DEF LoaderInv, LoaderType, JobType
  <2> QED
    BY <1>1, <2>1, <2>2 DEF LoaderInv, LoaderType
<1>5. LoaderInv'
  <2>1. \A i \in Jobs \ {j} : loader'.jobs[i] = loader.jobs[i]
    BY <1>3 DEF LoaderInv, LoaderType
  <2>2. loader'.jobs[j] = [loader.jobs[j] EXCEPT !.pending = FALSE]
    BY <1>3 DEF LoaderInv, LoaderType
  <2>3. loader.jobs[j].path \in Paths /\ ~loader.jobs[j].done
    BY <1>1 DEF LoaderInv, JobInv
  <2>4. /\ loader'.jobs[j].path = loader.jobs[j].path
        /\ ~loader'.jobs[j].done /\ ~loader'.jobs[j].pending
    BY <2>2, <2>3 DEF LoaderInv, LoaderType, JobType
  <2>5. \A i \in Jobs : JobInv(loader'.jobs[i])
    BY <2>1, <2>4 DEF LoaderInv, JobInv
  <2>6. \A i \in Jobs : loader'.jobs[i].done => loader'.jobs[i].picture \in {loader'.jobs[i].path, NoPath}
    BY <2>1, <2>4 DEF LoaderInv
  <2>7. AtWork(loader'.worker, loader'.jobs[j])
    BY <1>3, <2>3, <2>4 DEF AtWork
  <2>8. loader'.worker.at = "decoding" /\ loader'.worker.job = j
    BY <1>3
  <2>9. \A i \in Jobs : Decoding(i)' => AtWork(loader'.worker, loader'.jobs[i])
    BY <2>7, <2>8 DEF Decoding
  <2>10. /\ JobInv(loader'.id_job)
         /\ loader'.id_job.done => loader'.id_job.id = SourceId[loader'.id_job.path]
         /\ loader'.id_worker.at = "identifying" =>
              ~loader'.id_on_worker /\ AtWork(loader'.id_worker, loader'.id_job)
    BY <1>3 DEF LoaderInv
  <2> QED
    BY <1>4, <2>5, <2>6, <2>8, <2>9, <2>10 DEF LoaderInv
<1>6. ASSUME NEW i \in Jobs PROVE JobMoves(i)
  <2>1. CASE i = j
    BY <1>1, <1>3, <2>1 DEF JobMoves, JobKept, Question, Answer, LoaderInv, LoaderType, JobType, JobInv
  <2>2. CASE i # j
    BY <1>2, <1>3, <2>2, JobLeftAlone DEF Decoding, LoaderInv, LoaderType
  <2> QED
    BY <2>1, <2>2
<1>7. IdMoves
  BY <1>2, <1>3, IdLeftAlone DEF Identifying
<1> QED
  BY <1>5, <1>6, <1>7 DEF Steps

LEMMA LookingType == Looking \in ThreadType /\ Looking.at = "looking" /\ Wasted \in ThreadType /\ Wasted.at = "wasted"
BY Numbers DEF Looking, Wasted, ThreadType, Files

LEMMA WorkerFinishes ==
  ASSUME LoaderInv, worker_finishes
  PROVE  Steps
<1>1. CASE loader.worker.at = "wasted" /\ loader' = [loader EXCEPT !.worker = Looking]
  <2>1. /\ loader'.worker = Looking
        /\ loader'.jobs = loader.jobs /\ loader'.id_job = loader.id_job
        /\ loader'.id_worker = loader.id_worker /\ loader'.id_on_worker = loader.id_on_worker
    BY <1>1 DEF LoaderInv, LoaderType
  <2>2. LoaderInv'
    BY <1>1, <2>1, LookingType DEF LoaderInv, LoaderType, Decoding
  <2>3. \A j \in Jobs : JobMoves(j)
    BY <1>1, <2>1, LookingType, JobLeftAlone DEF Decoding
  <2>4. IdMoves
    BY <1>1, <2>1, LookingType, IdLeftAlone DEF Identifying
  <2> QED
    BY <2>2, <2>3, <2>4 DEF Steps
<1>2. ASSUME loader.worker.at = "decoding",
             NEW result \in Decoded(loader.worker.path), loader' = Finished(loader, result)
      PROVE  Steps
  <2> DEFINE j == loader.worker.job
             done == [loader.jobs[j] EXCEPT !.done = TRUE, !.found = result.found,
                                            !.picture = result.picture]
  <2>1. /\ j \in Jobs /\ Decoding(j)
        /\ AtWork(loader.worker, loader.jobs[j])
    BY <1>2 DEF LoaderInv, LoaderType, ThreadType, Decoding
  <2>2. /\ result.found \in BOOLEAN /\ result.picture \in {loader.worker.path, NoPath}
        /\ Held(result.picture) \in Int
    <3>0. \/ result = [found |-> FALSE, picture |-> NoPath]
          \/ result = [found |-> TRUE, picture |-> loader.worker.path]
      BY <1>2 DEF Decoded
    <3>1. result.found \in BOOLEAN /\ result.picture \in {loader.worker.path, NoPath}
      <4>1. CASE result = [found |-> FALSE, picture |-> NoPath]
        BY <4>1
      <4>2. CASE result = [found |-> TRUE, picture |-> loader.worker.path]
        BY <4>2
      <4> QED
        BY <3>0, <4>1, <4>2
    <3>2. Held(result.picture) \in Int
      BY DEF Held
    <3> QED
      BY <3>1, <3>2
  <2>3. /\ loader'.worker = Looking
        /\ loader'.jobs = [loader.jobs EXCEPT ![j] = done]
        /\ loader'.id_job = loader.id_job
        /\ loader'.id_worker = loader.id_worker /\ loader'.id_on_worker = loader.id_on_worker
    BY <1>2 DEF Finished, LoaderInv, LoaderType
  <2>4. done \in JobType /\ done.done /\ ~done.pending
        /\ done.path = loader.worker.path /\ done.path \in Paths /\ done.picture \in {done.path, NoPath}
    BY <2>1, <2>2, ZenonT(40) DEF LoaderInv, LoaderType, JobType, AtWork, Files
  <2>5. LoaderType'
    <3>1. [loader.jobs EXCEPT ![j] = done] \in [Jobs -> JobType]
      BY <2>1, <2>4 DEF LoaderInv, LoaderType
    <3>2. loader.live + Held(result.picture) \in Int
      BY <2>2 DEF LoaderInv, LoaderType
    <3>3. loader' = [loader EXCEPT !.jobs = [loader.jobs EXCEPT ![j] = done], !.worker = Looking,
                                   !.live = loader.live + Held(result.picture)]
      BY <1>2 DEF Finished, LoaderInv, LoaderType
    <3> HIDE DEF done, j
    <3> QED
      BY <3>1, <3>2, <3>3, LookingType DEF LoaderInv, LoaderType
  <2>6. \A i \in Jobs : i # j => loader'.jobs[i] = loader.jobs[i] /\ ~Decoding(i) /\ ~Decoding(i)'
    BY <2>3, LookingType DEF LoaderInv, LoaderType, Decoding
  <2>7. loader'.jobs[j] = done /\ ~Decoding(j)'
    BY <2>1, <2>3, LookingType DEF LoaderInv, LoaderType, Decoding
  <2> HIDE DEF done, j
  <2>8. LoaderInv'
    <3>1. \A i \in Jobs : loader'.jobs[i] = (IF i = j THEN done ELSE loader.jobs[i]) /\ ~Decoding(i)'
      BY <2>3, <2>6, <2>7, LookingType DEF Decoding
    <3>2. loader'.worker.at # "identifying"
      BY <2>3, LookingType
    <3>3. \A i \in Jobs : JobInv(loader.jobs[i])'
      BY <3>1, <2>4 DEF LoaderInv, JobInv
    <3>4. \A i \in Jobs : (loader.jobs[i].done)' => (loader.jobs[i].picture)' \in {(loader.jobs[i].path)', NoPath}
      BY <3>1, <2>4 DEF LoaderInv
    <3>5. \A i \in Jobs : Decoding(i)' => AtWork(loader.worker, loader.jobs[i])'
      BY <3>1
    <3> QED
      BY <3>2, <3>3, <3>4, <3>5, <2>3, <2>5 DEF LoaderInv, JobInv, AtWork
  <2>9. ASSUME NEW i \in Jobs PROVE JobMoves(i)
    <3>1. CASE i = j
      <4>1. Question(i) = loader.worker.path /\ Answer(i) = NoPath
        BY <2>1, <3>1 DEF Question, Answer, Decoding, AtWork
      <4>2. Question(i)' = loader.worker.path /\ Answer(i)' = <<done.picture>>
        BY <2>4, <2>7, <3>1 DEF Question, Answer
      <4> QED
        BY <4>1, <4>2, <2>4 DEF JobMoves
    <3>2. CASE i # j
      BY <3>2, <2>6, JobLeftAlone
    <3> QED
      BY <3>1, <3>2
  <2>10. IdMoves
    BY <1>2, <2>3, LookingType, IdLeftAlone DEF Identifying
  <2> QED
    BY <2>8, <2>9, <2>10 DEF Steps
<1> QED
  BY <1>1, <1>2 DEF worker_finishes

LEMMA WorkerPrefetches ==
  ASSUME LoaderInv, worker_prefetches
  PROVE  Steps
<1>1. CASE WorkerLooks /\ loader' = [loader EXCEPT !.prefetch_job = FALSE, !.worker.at = "prefetching"]
  <2>1. loader' = [loader EXCEPT !.worker = [@ EXCEPT !.at = "prefetching"], !.prefetch_job = FALSE]
    BY <1>1 DEF LoaderInv, LoaderType
  <2> QED
    BY <1>1, <2>1, Elsewhere DEF WorkerLooks
<1>2. CASE loader.worker.at = "prefetching" /\ loader' = [loader EXCEPT !.worker = Looking]
  <2>1. /\ loader'.worker = Looking
        /\ loader'.jobs = loader.jobs /\ loader'.id_job = loader.id_job
        /\ loader'.id_worker = loader.id_worker /\ loader'.id_on_worker = loader.id_on_worker
    BY <1>2 DEF LoaderInv, LoaderType
  <2>2. LoaderInv'
    BY <1>2, <2>1, LookingType DEF LoaderInv, LoaderType, Decoding
  <2>3. \A j \in Jobs : JobMoves(j)
    BY <1>2, <2>1, LookingType, JobLeftAlone DEF Decoding
  <2>4. IdMoves
    BY <1>2, <2>1, LookingType, IdLeftAlone DEF Identifying
  <2> QED
    BY <2>2, <2>3, <2>4 DEF Steps
<1> QED
  BY <1>1, <1>2 DEF worker_prefetches

\* The start of answer_id(), on whichever thread it is.
LEMMA IdStarts ==
  ASSUME LoaderInv, LoaderType', loader.id_job.pending,
         loader'.jobs = loader.jobs, loader'.id_on_worker = loader.id_on_worker,
         loader'.id_job = [loader.id_job EXCEPT !.pending = FALSE],
         \/ /\ loader.id_on_worker /\ loader.worker.at = "looking"
            /\ loader'.worker = Asks(loader.worker, loader.id_job.path)
            /\ loader'.id_worker = loader.id_worker
         \/ /\ ~loader.id_on_worker /\ loader.id_worker.at = "looking"
            /\ loader'.id_worker = Asks(loader.id_worker, loader.id_job.path)
            /\ loader'.worker = loader.worker
  PROVE  Steps
<1>1. /\ loader'.id_job.path = loader.id_job.path /\ loader.id_job.path \in Paths
      /\ ~loader'.id_job.pending /\ ~loader'.id_job.done /\ ~loader.id_job.done
  BY DEF LoaderInv, LoaderType, IdType, JobInv
<1>2. /\ Asks(loader.worker, loader.id_job.path).at = "identifying"
      /\ Asks(loader.worker, loader.id_job.path).path = loader.id_job.path
      /\ Asks(loader.id_worker, loader.id_job.path).at = "identifying"
      /\ Asks(loader.id_worker, loader.id_job.path).path = loader.id_job.path
  BY DEF Asks, LoaderInv, LoaderType, ThreadType
<1>3. \A j \in Jobs : Decoding(j)' <=> Decoding(j)
  BY <1>2 DEF Decoding
<1>4. \A j \in Jobs : JobMoves(j)
  BY <1>3, JobLeftAlone
<1>5. \A j \in Jobs : Decoding(j)' => AtWork(loader.worker, loader.jobs[j])'
  BY <1>2 DEF LoaderInv, Decoding, AtWork
<1>6. LoaderInv'
  BY <1>1, <1>2, <1>5 DEF LoaderInv, JobInv, AtWork
<1>7. IdMoves
  BY <1>1, <1>2 DEF IdMoves, IdKept, IdQuestion, IdAnswer
<1> QED
  BY <1>4, <1>6, <1>7 DEF Steps

\* Its end, if nothing else was asked meanwhile.
LEMMA IdEnds ==
  ASSUME LoaderInv, LoaderType', NEW path \in Paths, path = loader.id_job.path,
         loader'.jobs = loader.jobs, loader'.id_on_worker = loader.id_on_worker,
         loader'.id_job = [loader.id_job EXCEPT !.done = TRUE, !.id = SourceId[path]],
         \/ /\ loader.id_on_worker /\ loader.worker.at = "identifying"
            /\ loader'.worker = Looking /\ loader'.id_worker = loader.id_worker
         \/ /\ ~loader.id_on_worker /\ loader.id_worker.at = "identifying"
            /\ loader'.id_worker = Looking /\ loader'.worker = loader.worker
  PROVE  Steps
<1>1. /\ loader'.id_job.path = path /\ loader'.id_job.done /\ loader'.id_job.id = SourceId[path]
      /\ ~loader'.id_job.pending /\ ~loader.id_job.pending /\ ~loader.id_job.done
  BY DEF LoaderInv, LoaderType, IdType, JobInv, AtWork
<1>2. \A j \in Jobs : Decoding(j)' <=> Decoding(j)
  BY LookingType DEF Decoding
<1>3. \A j \in Jobs : JobMoves(j)
  BY <1>2, JobLeftAlone
<1>4. \A j \in Jobs : Decoding(j)' => AtWork(loader.worker, loader.jobs[j])'
  BY LookingType DEF LoaderInv, Decoding, AtWork
<1>5. loader'.worker.at # "identifying" /\ loader'.id_worker.at # "identifying"
  BY LookingType DEF LoaderInv
<1>6. LoaderInv'
  BY <1>1, <1>4, <1>5 DEF LoaderInv, JobInv, AtWork
<1>7. IdMoves
  BY <1>1, <1>5 DEF IdMoves, IdKept, IdQuestion, IdAnswer
<1> QED
  BY <1>3, <1>6, <1>7 DEF Steps

LEMMA WorkerAnswersId ==
  ASSUME LoaderInv, worker_answers_id
  PROVE  Steps
<1>1. CASE /\ WorkerLooks /\ IdWaits
           /\ loader' = [loader EXCEPT !.id_job.pending = FALSE,
                                       !.worker = Asks(@, loader.id_job.path)]
  <2>1. [loader.id_job EXCEPT !.pending = FALSE] \in IdType
    BY DEF LoaderInv, LoaderType, IdType
  <2>2. Asks(loader.worker, loader.id_job.path) \in ThreadType
    BY DEF LoaderInv, LoaderType, IdType, ThreadType, Asks
  <2>3. loader' = [loader EXCEPT !.id_job = [loader.id_job EXCEPT !.pending = FALSE],
                                 !.worker = Asks(loader.worker, loader.id_job.path)]
    BY <1>1 DEF LoaderInv, LoaderType
  <2>4. LoaderType'
    BY <2>1, <2>2, <2>3 DEF LoaderInv, LoaderType
  <2>5. /\ loader'.jobs = loader.jobs /\ loader'.id_on_worker = loader.id_on_worker
        /\ loader'.id_job = [loader.id_job EXCEPT !.pending = FALSE]
        /\ loader'.worker = Asks(loader.worker, loader.id_job.path)
        /\ loader'.id_worker = loader.id_worker
    BY <2>3 DEF LoaderInv, LoaderType
  <2> QED
    BY <1>1, <2>4, <2>5, IdStarts DEF WorkerLooks, IdWaits
<1>2. CASE /\ loader.worker.at = "identifying"
           /\ loader' = [IdAnswered(loader, loader.worker.path) EXCEPT !.worker = Looking]
  <2> DEFINE path == loader.worker.path
             job == [loader.id_job EXCEPT !.done = TRUE, !.id = SourceId[path]]
  <2>1. path \in Paths /\ path = loader.id_job.path /\ loader.id_on_worker
    BY <1>2 DEF LoaderInv, AtWork
  <2>2. job \in IdType
    BY <2>1, LoaderAssumption DEF LoaderInv, LoaderType, IdType
  <2>3. loader' = [loader EXCEPT !.id_job = job, !.worker = Looking]
    BY <1>2 DEF LoaderInv, LoaderType, IdAnswered
  <2> HIDE DEF job
  <2>4. LoaderType'
    BY <2>2, <2>3, LookingType DEF LoaderInv, LoaderType
  <2>5. /\ loader'.jobs = loader.jobs /\ loader'.id_on_worker = loader.id_on_worker
        /\ loader'.id_job = job
        /\ loader'.worker = Looking /\ loader'.id_worker = loader.id_worker
    BY <2>3 DEF LoaderInv, LoaderType
  <2> QED
    BY <1>2, <2>1, <2>4, <2>5, IdEnds DEF job
<1> QED
  BY <1>1, <1>2 DEF worker_answers_id

\* id_worker goes to sleep, or comes back from what nobody waits for.
LEMMA IdWorkerElsewhere ==
  ASSUME LoaderInv, NEW thread \in ThreadType, thread.at # "identifying",
         loader.id_worker.at # "identifying",
         loader' = [loader EXCEPT !.id_worker = thread]
  PROVE  Steps
<1>1. /\ loader'.id_worker = thread /\ loader'.worker = loader.worker
      /\ loader'.jobs = loader.jobs /\ loader'.id_job = loader.id_job
      /\ loader'.id_on_worker = loader.id_on_worker
  BY DEF LoaderInv, LoaderType
<1>2. LoaderInv'
  BY <1>1 DEF LoaderInv, LoaderType, JobInv, AtWork, Decoding
<1>3. \A j \in Jobs : JobMoves(j)
  BY <1>1, JobLeftAlone DEF Decoding
<1>4. IdMoves
  BY <1>1, IdLeftAlone DEF Identifying
<1> QED
  BY <1>2, <1>3, <1>4 DEF Steps

LEMMA IdWorkerSleeps ==
  ASSUME LoaderInv, id_worker_sleeps
  PROVE  Steps
<1> DEFINE thread == [loader.id_worker EXCEPT !.at = "asleep"]
<1>1. thread \in ThreadType /\ thread.at = "asleep"
  BY DEF LoaderInv, LoaderType, ThreadType
<1>2. loader' = [loader EXCEPT !.id_worker = thread]
  BY DEF id_worker_sleeps, LoaderInv, LoaderType
<1> HIDE DEF thread
<1> QED
  BY <1>1, <1>2, IdWorkerElsewhere DEF id_worker_sleeps

LEMMA IdWorkerAnswers ==
  ASSUME LoaderInv, id_worker_answers
  PROVE  Steps
<1>1. CASE /\ ~loader.id_on_worker /\ loader.id_worker.at = "looking" /\ loader.id_job.pending
           /\ loader' = [loader EXCEPT !.id_job.pending = FALSE,
                                       !.id_worker = Asks(@, loader.id_job.path)]
  <2>1. [loader.id_job EXCEPT !.pending = FALSE] \in IdType
    BY DEF LoaderInv, LoaderType, IdType
  <2>2. Asks(loader.id_worker, loader.id_job.path) \in ThreadType
    BY DEF LoaderInv, LoaderType, IdType, ThreadType, Asks
  <2>3. loader' = [loader EXCEPT !.id_job = [loader.id_job EXCEPT !.pending = FALSE],
                                 !.id_worker = Asks(loader.id_worker, loader.id_job.path)]
    BY <1>1 DEF LoaderInv, LoaderType
  <2>4. LoaderType'
    BY <2>1, <2>2, <2>3 DEF LoaderInv, LoaderType
  <2>5. /\ loader'.jobs = loader.jobs /\ loader'.id_on_worker = loader.id_on_worker
        /\ loader'.id_job = [loader.id_job EXCEPT !.pending = FALSE]
        /\ loader'.id_worker = Asks(loader.id_worker, loader.id_job.path)
        /\ loader'.worker = loader.worker
    BY <2>3 DEF LoaderInv, LoaderType
  <2> QED
    BY <1>1, <2>4, <2>5, IdStarts
<1>2. CASE /\ loader.id_worker.at = "identifying"
           /\ loader' = [IdAnswered(loader, loader.id_worker.path) EXCEPT !.id_worker = Looking]
  <2> DEFINE path == loader.id_worker.path
             job == [loader.id_job EXCEPT !.done = TRUE, !.id = SourceId[path]]
  <2>1. path \in Paths /\ path = loader.id_job.path /\ ~loader.id_on_worker
    BY <1>2 DEF LoaderInv, AtWork
  <2>2. job \in IdType
    BY <2>1, LoaderAssumption DEF LoaderInv, LoaderType, IdType
  <2>3. loader' = [loader EXCEPT !.id_job = job, !.id_worker = Looking]
    BY <1>2 DEF LoaderInv, LoaderType, IdAnswered
  <2> HIDE DEF job
  <2>4. LoaderType'
    BY <2>2, <2>3, LookingType DEF LoaderInv, LoaderType
  <2>5. /\ loader'.jobs = loader.jobs /\ loader'.id_on_worker = loader.id_on_worker
        /\ loader'.id_job = job
        /\ loader'.id_worker = Looking /\ loader'.worker = loader.worker
    BY <2>3 DEF LoaderInv, LoaderType
  <2> QED
    BY <1>2, <2>1, <2>4, <2>5, IdEnds DEF job
<1>3. CASE loader.id_worker.at = "wasted" /\ loader' = [loader EXCEPT !.id_worker = Looking]
  BY <1>3, LookingType, IdWorkerElsewhere
<1> QED
  BY <1>1, <1>2, <1>3 DEF id_worker_answers

-----------------------------------------------------------------------------
(* The calls.  A call about a job leaves a worker that was at it with      *)
(* nothing to work for.                                                    *)

Call(j, job, thread, live) ==
  loader' = [loader EXCEPT !.jobs = [@ EXCEPT ![j] = job], !.worker = thread, !.live = live]

\* The calls about a job j: whatever they leave in it, the worker is
\* not at it any more, and it has no answer.
LEMMA JobCalled ==
  ASSUME LoaderInv, NEW j \in Jobs, NEW job \in JobType, JobInv(job), ~job.done,
         ~job.pending => job.path = NoPath,
         NEW thread \in ThreadType, thread.at = "decoding" => thread.job # j,
         NEW live \in Int,
         thread.at \in {"asleep", "looking", "wasted", "prefetching"} \/ thread = loader.worker,
         loader.worker.at = "identifying" => thread = loader.worker,
         loader.worker.at = "decoding" /\ loader.worker.job # j => thread = loader.worker,
         Call(j, job, thread, live)
  PROVE  Steps
<1>1. /\ loader'.jobs = [loader.jobs EXCEPT ![j] = job] /\ loader'.worker = thread
      /\ loader'.id_job = loader.id_job
      /\ loader'.id_worker = loader.id_worker /\ loader'.id_on_worker = loader.id_on_worker
  BY DEF LoaderInv, LoaderType, Call
<1>2. LoaderType'
  <2>1. [loader.jobs EXCEPT ![j] = job] \in [Jobs -> JobType]
    BY DEF LoaderInv, LoaderType
  <2> QED
    BY <2>1 DEF LoaderInv, LoaderType, Call
<1>3. /\ loader'.jobs[j] = job
      /\ \A i \in Jobs : i # j => loader'.jobs[i] = loader.jobs[i]
  BY <1>1 DEF LoaderInv, LoaderType
<1>4. ~Decoding(j)' /\ \A i \in Jobs : i # j => (Decoding(i)' <=> Decoding(i))
  BY <1>1 DEF Decoding
<1>5. ASSUME NEW i \in Jobs PROVE JobMoves(i)
  <2>1. CASE i = j
    <3>1. Question(i)' \in Files /\ Answer(i)' = NoPath
      BY <1>1, <1>3, <2>1 DEF Question, Answer, JobInv, Files
    <3> QED
      BY <3>1 DEF JobMoves
  <2>2. CASE i # j
    BY <1>3, <1>4, <2>2, JobLeftAlone
  <2> QED
    BY <2>1, <2>2
<1>6. IdMoves
  BY <1>1, IdLeftAlone DEF Identifying
<1>7. \A i \in Jobs : JobInv(loader.jobs[i])'
  BY <1>3 DEF LoaderInv, JobInv
<1>8. \A i \in Jobs : (loader.jobs[i].done)' => (loader.jobs[i].picture)' \in {(loader.jobs[i].path)', NoPath}
  BY <1>3 DEF LoaderInv
<1>9. \A i \in Jobs : Decoding(i)' => AtWork(loader.worker, loader.jobs[i])'
  BY <1>1, <1>3 DEF LoaderInv, AtWork, Decoding
<1>10. LoaderInv'
  BY <1>1, <1>2, <1>7, <1>8, <1>9 DEF LoaderInv, JobInv, AtWork
<1> QED
  BY <1>5, <1>6, <1>10 DEF Steps

LEMMA IdleType == Idle \in JobType /\ ~Idle.pending /\ ~Idle.done /\ Idle.path = NoPath
BY DEF Idle, JobType, Files

LEMMA HeldType == ASSUME NEW picture PROVE Held(picture) \in Int
BY DEF Held

\* The worker as discard() leaves it.
Let(j) == IF loader.worker.at = "decoding" /\ loader.worker.job = j THEN Wasted ELSE loader.worker

LEMMA LetType ==
  ASSUME LoaderInv, NEW j \in Jobs
  PROVE  Let(j) \in ThreadType /\ (Let(j).at = "decoding" => Let(j).job # j)
BY LookingType DEF Let, LoaderInv, LoaderType

LEMMA Discards ==
  ASSUME LoaderInv, NEW j \in Jobs, loader' = Discarded(loader, j)
  PROVE  Steps
<1> DEFINE live == loader.live - Held(loader.jobs[j].picture)
<1>1. live \in Int
  BY HeldType DEF LoaderInv, LoaderType
<1>2. Call(j, Idle, Let(j), live)
  BY DEF Call, Discarded, Let, LoaderInv, LoaderType
<1> HIDE DEF live
<1>3. \/ Let(j) = loader.worker
      \/ Let(j) = Wasted /\ loader.worker.at = "decoding" /\ loader.worker.job = j
  BY DEF Let
<1>4. JobInv(Idle) /\ Idle \in JobType /\ ~Idle.done /\ (~Idle.pending => Idle.path = NoPath)
  BY IdleType DEF JobInv
<1>5. Let(j) \in ThreadType /\ (Let(j).at = "decoding" => Let(j).job # j)
  BY LetType
<1>6. /\ Let(j).at \in {"asleep", "looking", "wasted", "prefetching"} \/ Let(j) = loader.worker
      /\ loader.worker.at = "identifying" => Let(j) = loader.worker
      /\ loader.worker.at = "decoding" /\ loader.worker.job # j => Let(j) = loader.worker
  BY <1>3, LookingType
<1> QED
  BY <1>1, <1>2, <1>4, <1>5, <1>6, JobCalled

LEMMA Requests ==
  ASSUME LoaderInv, NEW j \in Jobs, NEW path \in Paths, loader' = Requested(loader, j, path)
  PROVE  Steps
<1> DEFINE live == loader.live - Held(loader.jobs[j].picture)
           job == [Idle EXCEPT !.path = path, !.pending = TRUE]
           thread == Woken(Let(j))
<1>1. live \in Int
  BY HeldType DEF LoaderInv, LoaderType
<1>2. Call(j, job, thread, live)
  <2>1. /\ Discarded(loader, j).jobs = [loader.jobs EXCEPT ![j] = Idle]
        /\ Discarded(loader, j).worker = Let(j)
        /\ Discarded(loader, j) = [loader EXCEPT !.jobs = [loader.jobs EXCEPT ![j] = Idle],
                                                 !.worker = Let(j), !.live = live]
    BY DEF Discarded, Let, LoaderInv, LoaderType
  <2>2. [Discarded(loader, j).jobs EXCEPT ![j] = [@ EXCEPT !.path = path, !.pending = TRUE]]
          = [loader.jobs EXCEPT ![j] = job]
    BY <2>1 DEF LoaderInv, LoaderType
  <2>3. loader' = [Discarded(loader, j) EXCEPT !.jobs = [loader.jobs EXCEPT ![j] = job], !.worker = thread]
    BY <2>1, <2>2, ZenonT(40) DEF Requested, LoaderInv, LoaderType
  <2> HIDE DEF live, job, thread
  <2> QED
    BY <2>1, <2>3 DEF Call, LoaderInv, LoaderType
<1>3. job \in JobType /\ job.path \in Paths /\ job.pending /\ ~job.done
  BY DEF Idle, JobType, Files
<1>4. thread \in ThreadType /\ (thread.at = "decoding" => thread.job # j)
  BY LetType DEF Woken, ThreadType
<1>5. \/ thread = Let(j)
      \/ thread.at = "looking" /\ Let(j).at = "asleep"
  BY LetType DEF Woken, ThreadType
<1>6. \/ Let(j) = loader.worker
      \/ Let(j) = Wasted /\ loader.worker.at = "decoding" /\ loader.worker.job = j
  BY DEF Let
<1> HIDE DEF live, job, thread
<1>7. JobInv(job) /\ job \in JobType /\ ~job.done /\ (~job.pending => job.path = NoPath)
  BY <1>3 DEF JobInv
<1>8. /\ thread.at \in {"asleep", "looking", "wasted", "prefetching"} \/ thread = loader.worker
      /\ loader.worker.at = "identifying" => thread = loader.worker
      /\ loader.worker.at = "decoding" /\ loader.worker.job # j => thread = loader.worker
  BY <1>5, <1>6, LookingType
<1> QED
  BY <1>1, <1>2, <1>4, <1>7, <1>8, JobCalled

LEMMA Takes ==
  ASSUME LoaderInv, NEW j \in Jobs, loader.jobs[j].done, loader' = Taken(loader, j)
  PROVE  Steps
<1>1. Call(j, Idle, loader.worker, loader.live)
  BY DEF Call, Taken, LoaderInv, LoaderType
<1>2. loader.worker.at = "decoding" => loader.worker.job # j
  BY DEF LoaderInv, LoaderType, Decoding, AtWork
<1>3. JobInv(Idle) /\ Idle \in JobType /\ ~Idle.done /\ (~Idle.pending => Idle.path = NoPath)
  BY IdleType DEF JobInv
<1>4. loader.worker \in ThreadType /\ loader.live \in Int
  BY DEF LoaderInv, LoaderType
<1> QED
  BY <1>1, <1>2, <1>3, <1>4, JobCalled

\* The calls about the id: nobody is left at work for the one before.
IdCall(job, thread, id_thread) ==
  loader' = [loader EXCEPT !.id_job = job, !.worker = thread, !.id_worker = id_thread]

LEMMA IdCalled ==
  ASSUME LoaderInv, NEW job \in IdType, JobInv(job), ~job.done, ~job.pending => job.path = NoPath,
         NEW thread \in ThreadType, thread.at # "identifying",
         NEW id_thread \in ThreadType, id_thread.at # "identifying",
         \/ thread = loader.worker
         \/ thread.at \in {"looking", "wasted"} /\ loader.worker.at # "decoding",
         IdCall(job, thread, id_thread)
  PROVE  Steps
<1>1. /\ loader'.id_job = job /\ loader'.worker = thread /\ loader'.id_worker = id_thread
      /\ loader'.jobs = loader.jobs /\ loader'.id_on_worker = loader.id_on_worker
  BY DEF IdCall, LoaderInv, LoaderType
<1>2. LoaderType'
  BY DEF IdCall, LoaderInv, LoaderType
<1>3. \A j \in Jobs : Decoding(j)' <=> Decoding(j)
  BY <1>1 DEF Decoding
<1>4. \A j \in Jobs : JobMoves(j)
  BY <1>1, <1>3, JobLeftAlone
<1>5. \A j \in Jobs : Decoding(j)' => AtWork(loader.worker, loader.jobs[j])'
  BY <1>1 DEF LoaderInv, Decoding, AtWork
<1>6. LoaderInv'
  BY <1>1, <1>2, <1>5 DEF LoaderInv, JobInv, AtWork
<1>7. IdQuestion' \in Files /\ IdAnswer' = NoPath
  BY <1>1 DEF IdQuestion, IdAnswer, JobInv, Files
<1> QED
  BY <1>4, <1>6, <1>7 DEF Steps, IdMoves

LEMMA WokenType ==
  ASSUME NEW thread \in ThreadType
  PROVE  /\ Woken(Outdated(thread)) \in ThreadType /\ Woken(Outdated(thread)).at # "identifying"
         /\ \/ Woken(Outdated(thread)) = thread
            \/ Woken(Outdated(thread)).at \in {"looking", "wasted"} /\ thread.at # "decoding"
<1>1. CASE thread.at = "identifying"
  <2>1. Woken(Outdated(thread)) = Wasted
    BY <1>1, LookingType DEF Outdated, Woken, Wasted, Looking
  <2> QED
    BY <1>1, <2>1, LookingType
<1>2. CASE thread.at = "asleep"
  BY <1>2 DEF Outdated, Woken, ThreadType
<1>3. CASE thread.at \notin {"identifying", "asleep"}
  BY <1>3 DEF Outdated, Woken, ThreadType
<1> QED
  BY <1>1, <1>2, <1>3

LEMMA IdRequests ==
  ASSUME LoaderInv, NEW path \in Paths, loader' = IdRequested(loader, path)
  PROVE  Steps
<1> DEFINE job == [IdIdle EXCEPT !.path = path, !.pending = TRUE]
           thread == IF loader.id_on_worker THEN Woken(Outdated(loader.worker)) ELSE loader.worker
           id_thread == IF loader.id_on_worker THEN loader.id_worker
                                               ELSE Woken(Outdated(loader.id_worker))
<1>1. job \in IdType /\ JobInv(job) /\ ~job.done /\ job.pending
  BY DEF IdIdle, IdType, JobInv, Files
<1>2. loader.worker \in ThreadType /\ loader.id_worker \in ThreadType
  BY DEF LoaderInv, LoaderType
<1>3. /\ thread \in ThreadType /\ thread.at # "identifying"
      /\ \/ thread = loader.worker
         \/ thread.at \in {"looking", "wasted"} /\ loader.worker.at # "decoding"
  <2>1. CASE loader.id_on_worker
    BY <1>2, <2>1, WokenType
  <2>2. CASE ~loader.id_on_worker
    BY <1>2, <2>2 DEF LoaderInv
  <2> QED
    BY <2>1, <2>2
<1>4. id_thread \in ThreadType /\ id_thread.at # "identifying"
  <2>1. CASE loader.id_on_worker
    BY <1>2, <2>1 DEF LoaderInv
  <2>2. CASE ~loader.id_on_worker
    BY <1>2, <2>2, WokenType
  <2> QED
    BY <2>1, <2>2
<1>5. IdCall(job, thread, id_thread)
  BY DEF IdCall, IdRequested, LoaderInv, LoaderType
<1> HIDE DEF job, thread, id_thread
<1> QED
  BY <1>1, <1>3, <1>4, <1>5, IdCalled

LEMMA IdTakes ==
  ASSUME LoaderInv, loader.id_job.done, loader' = IdTaken(loader)
  PROVE  Steps
<1>1. IdIdle \in IdType /\ JobInv(IdIdle) /\ ~IdIdle.done /\ (~IdIdle.pending => IdIdle.path = NoPath)
  BY DEF IdIdle, IdType, JobInv, Files
<1>2. /\ loader.worker \in ThreadType /\ loader.worker.at # "identifying"
      /\ loader.id_worker \in ThreadType /\ loader.id_worker.at # "identifying"
  BY DEF LoaderInv, LoaderType, AtWork
<1>3. IdCall(IdIdle, loader.worker, loader.id_worker)
  BY DEF IdCall, IdTaken, LoaderInv, LoaderType
<1> QED
  BY <1>1, <1>2, <1>3, IdCalled

LEMMA Prefetches ==
  ASSUME LoaderInv, loader' = Prefetched(loader)
  PROVE  Steps
<1>1. CASE loader.worker.at = "asleep"
  <2>1. loader' = [loader EXCEPT !.worker = [@ EXCEPT !.at = "looking"], !.prefetch_job = TRUE]
    BY <1>1 DEF Prefetched, Woken, LoaderInv, LoaderType, ThreadType
  <2> QED
    BY <1>1, <2>1, Elsewhere
<1>2. CASE loader.worker.at # "asleep"
  <2>1. /\ loader'.worker = loader.worker /\ loader'.id_worker = loader.id_worker
        /\ loader'.jobs = loader.jobs /\ loader'.id_job = loader.id_job
        /\ loader'.id_on_worker = loader.id_on_worker
    BY <1>2 DEF Prefetched, Woken, LoaderInv, LoaderType, ThreadType
  <2>2. LoaderType'
    BY <1>2 DEF Prefetched, Woken, LoaderInv, LoaderType, ThreadType
  <2>3. LoaderInv'
    BY <2>1, <2>2 DEF LoaderInv, JobInv, AtWork, Decoding
  <2>4. \A j \in Jobs : JobMoves(j)
    BY <2>1, JobLeftAlone DEF Decoding
  <2>5. IdMoves
    BY <2>1, IdLeftAlone DEF Identifying
  <2> QED
    BY <2>3, <2>4, <2>5 DEF Steps
<1> QED
  BY <1>1, <1>2

-----------------------------------------------------------------------------
LEMMA EachStep ==
  ASSUME LoaderInv, WorkerSteps \/ IdWorkerSteps \/ ClientCalls
  PROVE  LoaderInv' /\ Promise!Next
<1>1. ASSUME WorkerSteps PROVE Steps
  BY <1>1, WorkerSleeps, WorkerStarts, WorkerFinishes, WorkerPrefetches, WorkerAnswersId DEF WorkerSteps
<1>2. ASSUME IdWorkerSteps PROVE Steps
  BY <1>2, IdWorkerSleeps, IdWorkerAnswers DEF IdWorkerSteps
<1>3. ASSUME ClientCalls PROVE Steps
  BY <1>3, Discards, Requests, Takes, IdRequests, IdTakes, Prefetches DEF ClientCalls
<1>4. Steps
  BY <1>1, <1>2, <1>3
<1> QED
  BY <1>4, MovesMakeAStep DEF Steps

\* The invariant: whoever is at work for a job works for what it was asked
\* last, and an answer that waits is to that.
THEOREM LoaderInvariant == LoaderSpec => []LoaderInv
<1>1. LoaderInit => LoaderInv
  BY InitHolds
<1>2. LoaderInv /\ [WorkerSteps \/ IdWorkerSteps \/ ClientCalls]_loader => LoaderInv'
  <2> SUFFICES ASSUME LoaderInv, [WorkerSteps \/ IdWorkerSteps \/ ClientCalls]_loader
               PROVE  LoaderInv'
    OBVIOUS
  <2>1. CASE UNCHANGED loader
    BY <2>1 DEF LoaderInv, LoaderType, JobInv, AtWork, Decoding
  <2> QED
    BY <2>1, EachStep
<1> QED
  BY <1>1, <1>2, PTL DEF LoaderSpec

\* coverloader.c, at the generations: a cover, or what is said of one, is of
\* the file that was asked for last, and is given once.
THEOREM LoaderKeepsItsPromise == LoaderSpec => AnswersAreLatest
<1>1. LoaderInit => Promise!Init
  BY InitHolds
<1>2. LoaderInv /\ [WorkerSteps \/ IdWorkerSteps \/ ClientCalls]_loader => [Promise!Next]_Promise!vars
  <2> SUFFICES ASSUME LoaderInv, [WorkerSteps \/ IdWorkerSteps \/ ClientCalls]_loader
               PROVE  [Promise!Next]_Promise!vars
    OBVIOUS
  <2>1. CASE UNCHANGED loader
    <3>1. (\A j \in Jobs : JobKept(j)) /\ IdKept
      BY <2>1 DEF JobKept, IdKept, Question, Answer, IdQuestion, IdAnswer
    <3> QED
      BY <3>1 DEF JobKept, IdKept, Promise!vars
  <2> QED
    BY <2>1, EachStep
<1> QED
  BY <1>1, <1>2, LoaderInvariant, PTL DEF LoaderSpec, AnswersAreLatest, Promise!Spec

-----------------------------------------------------------------------------
(* The calls as values: what each leaves of a loader it is made of.        *)

LoaderRecord ==
  [jobs : [Jobs -> JobType], id_job : IdType, prefetch_job : BOOLEAN,
   worker : ThreadType, id_worker : ThreadType, id_on_worker : BOOLEAN, live : Int]

\* An answer is a picture or none, and there is a picture only as an answer.
Tidy(job) ==
  /\ JobInv(job)
  /\ job.done => job.picture \in {job.path, NoPath}
  /\ job.found <=> job.picture # NoPath
  /\ job.picture # NoPath => job.done

Sound(l) ==
  /\ l \in LoaderRecord
  /\ \A j \in Jobs : Tidy(l.jobs[j])
  /\ l.worker.at = "decoding" => AtWork(l.worker, l.jobs[l.worker.job])
  /\ JobInv(l.id_job)
  /\ l.id_job.done => l.id_job.id = SourceId[l.id_job.path]
  /\ l.worker.at = "identifying" => l.id_on_worker /\ AtWork(l.worker, l.id_job)
  /\ l.id_worker.at = "identifying" => ~l.id_on_worker /\ AtWork(l.id_worker, l.id_job)

\* The pictures that wait in jobs; and those allocated that are not among
\* them, which others have to hold.
Pictured(jobs) == Cardinality({j \in Jobs : jobs[j].picture # NoPath})
Owed(l) == l.live - Pictured(l.jobs)

\* m is what l becomes by a call about job j, which gives the caller n pictures.
Leaves(l, m, j, job, n) ==
  /\ Sound(m) /\ m.jobs = [l.jobs EXCEPT ![j] = job] /\ ~job.done
  /\ m.id_job = l.id_job /\ Owed(m) = Owed(l) + n

\* No call gives an answer: one that waits after it waited before.
Unanswered(l, m) ==
  /\ \A j \in Jobs : m.jobs[j].done => m.jobs[j] = l.jobs[j]
  /\ m.id_job.done => m.id_job = l.id_job

\* A set that changes by one member at most.
LEMMA CountMoves ==
  ASSUME NEW S, IsFiniteSet(S), NEW x, NEW A \in SUBSET S, NEW B \in SUBSET S, A \ {x} = B \ {x}
  PROVE  /\ Cardinality(A) \in Nat /\ Cardinality(B) \in Nat
         /\ Cardinality(B) = Cardinality(A) - (IF x \in A THEN 1 ELSE 0) + (IF x \in B THEN 1 ELSE 0)
<1>1. IsFiniteSet(A) /\ IsFiniteSet(B)
  BY FS_Subset
<1>2. Cardinality(A) \in Nat /\ Cardinality(B) \in Nat
  BY <1>1, FS_CardinalityType
<1>3. CASE x \in A /\ x \notin B
  <2>1. B = A \ {x}
    BY <1>3
  <2> QED
    BY <1>1, <1>2, <1>3, <2>1, FS_RemoveElement
<1>4. CASE x \in B /\ x \notin A
  <2>1. A = B \ {x}
    BY <1>4
  <2> QED
    BY <1>1, <1>2, <1>4, <2>1, FS_RemoveElement
<1>5. CASE x \in A <=> x \in B
  <2>1. A = B
    BY <1>5
  <2> QED
    BY <1>2, <1>5, <2>1
<1> QED
  BY <1>3, <1>4, <1>5

LEMMA JobsFinite == IsFiniteSet(Jobs)
<1>1. IsFiniteSet({PLAYER} \cup Slots)
  BY FS_Singleton, FS_AddElement, LoaderAssumption
<1>2. Jobs = ({PLAYER} \cup Slots) \cup {SAVER}
  BY DEF Jobs
<1> QED
  BY <1>1, <1>2, FS_AddElement

LEMMA PicturesMove ==
  ASSUME NEW jobs \in [Jobs -> JobType], NEW j \in Jobs, NEW job \in JobType
  PROVE  /\ Pictured(jobs) \in Nat
         /\ Pictured([jobs EXCEPT ![j] = job]) = Pictured(jobs) - Held(jobs[j].picture) + Held(job.picture)
<1> DEFINE A == {i \in Jobs : jobs[i].picture # NoPath}
           B == {i \in Jobs : [jobs EXCEPT ![j] = job][i].picture # NoPath}
<1>1. A \in SUBSET Jobs /\ B \in SUBSET Jobs /\ A \ {j} = B \ {j}
  OBVIOUS
<1>2. (j \in A <=> jobs[j].picture # NoPath) /\ (j \in B <=> job.picture # NoPath)
  OBVIOUS
<1> HIDE DEF A, B
<1>3. /\ Cardinality(A) \in Nat
      /\ Cardinality(B) = Cardinality(A) - (IF j \in A THEN 1 ELSE 0) + (IF j \in B THEN 1 ELSE 0)
  BY <1>1, JobsFinite, CountMoves
<1>4. Pictured(jobs) = Cardinality(A) /\ Pictured([jobs EXCEPT ![j] = job]) = Cardinality(B)
  BY DEF Pictured, A, B
<1> QED
  BY <1>2, <1>3, <1>4 DEF Held

\* No picture, or one.
LEMMA HeldIs == ASSUME NEW picture PROVE Held(picture) \in {0, 1} /\ (picture = NoPath <=> Held(picture) = 0)
BY DEF Held

LEMMA OwedType == ASSUME NEW l, Sound(l) PROVE Owed(l) \in Int /\ Pictured(l.jobs) \in Nat
<1>1. l.jobs \in [Jobs -> JobType] /\ l.live \in Int
  BY DEF Sound, LoaderRecord
<1>2. Pictured(l.jobs) \in Nat
  BY <1>1, FS_Subset, FS_CardinalityType, JobsFinite DEF Pictured
<1> QED
  BY <1>1, <1>2 DEF Owed

\* A call about a job leaves it without an answer, and the worker not at it.
LEMMA CallLeaves ==
  ASSUME NEW l, Sound(l), NEW j \in Jobs, NEW job \in JobType, Tidy(job), ~job.done,
         NEW thread \in ThreadType, thread.at = "decoding" => thread.job # j,
         thread.at \in {"asleep", "looking", "wasted", "prefetching"} \/ thread = l.worker,
         NEW live \in Int,
         NEW m, m = [l EXCEPT !.jobs = [l.jobs EXCEPT ![j] = job], !.worker = thread, !.live = live]
  PROVE  Leaves(l, m, j, job, live - l.live + Held(l.jobs[j].picture))
<1>1. l \in LoaderRecord /\ l.jobs \in [Jobs -> JobType] /\ l.live \in Int
  BY DEF Sound, LoaderRecord
<1>2. [l.jobs EXCEPT ![j] = job] \in [Jobs -> JobType]
  BY <1>1
<1>3. m \in LoaderRecord
  BY <1>1, <1>2 DEF LoaderRecord
<1>4. /\ m.jobs = [l.jobs EXCEPT ![j] = job] /\ m.worker = thread /\ m.live = live
      /\ m.id_job = l.id_job /\ m.id_worker = l.id_worker /\ m.id_on_worker = l.id_on_worker
  BY <1>1 DEF LoaderRecord
<1>5. m.jobs[j] = job /\ \A i \in Jobs : i # j => m.jobs[i] = l.jobs[i]
  BY <1>1, <1>4
<1>6. Sound(m)
  <2>1. \A i \in Jobs : Tidy(m.jobs[i])
    BY <1>5 DEF Sound
  <2>2. m.worker.at = "decoding" => AtWork(m.worker, m.jobs[m.worker.job])
    BY <1>4, <1>5 DEF Sound, ThreadType
  <2> QED
    BY <1>3, <1>4, <2>1, <2>2 DEF Sound
<1>7. job.picture = NoPath
  BY DEF Tidy
<1>8. /\ Pictured(l.jobs) \in Nat
      /\ Pictured(m.jobs) = Pictured(l.jobs) - Held(l.jobs[j].picture) + Held(NoPath)
  BY <1>1, <1>4, <1>7, PicturesMove
<1>9. Held(l.jobs[j].picture) \in Int /\ Held(NoPath) = 0
  BY HeldIs
<1>10. Owed(m) = Owed(l) + (live - l.live + Held(l.jobs[j].picture))
  BY <1>1, <1>4, <1>8, <1>9 DEF Owed
<1> QED
  BY <1>4, <1>6, <1>10 DEF Leaves

LEMMA IdleTidy == Idle \in JobType /\ Tidy(Idle) /\ ~Idle.done /\ Idle.picture = NoPath
BY DEF Idle, JobType, Files, Tidy, JobInv

\* The worker as discard() leaves it.
LetGo(l, j) == IF l.worker.at = "decoding" /\ l.worker.job = j THEN Wasted ELSE l.worker

LEMMA LetGoType ==
  ASSUME NEW l, Sound(l), NEW j \in Jobs
  PROVE  /\ LetGo(l, j) \in ThreadType /\ (LetGo(l, j).at = "decoding" => LetGo(l, j).job # j)
         /\ LetGo(l, j).at = "wasted" \/ LetGo(l, j) = l.worker
<1>1. l.worker \in ThreadType
  BY DEF Sound, LoaderRecord
<1> QED
  BY <1>1, LookingType DEF LetGo

LEMMA DiscardLeaves ==
  ASSUME NEW l, Sound(l), NEW j \in Jobs
  PROVE  Leaves(l, Discarded(l, j), j, Idle, 0)
<1> DEFINE live == l.live - Held(l.jobs[j].picture)
<1>1. l \in LoaderRecord /\ l.live \in Int /\ Held(l.jobs[j].picture) \in Int
  BY HeldIs DEF Sound, LoaderRecord
<1>2. Discarded(l, j) = [l EXCEPT !.jobs = [l.jobs EXCEPT ![j] = Idle], !.worker = LetGo(l, j), !.live = live]
  BY <1>1 DEF Discarded, LetGo, LoaderRecord
<1>3. live - l.live + Held(l.jobs[j].picture) = 0 /\ live \in Int
  BY <1>1
<1> HIDE DEF live
<1>4. Leaves(l, Discarded(l, j), j, Idle, live - l.live + Held(l.jobs[j].picture))
  BY <1>2, <1>3, IdleTidy, LetGoType, CallLeaves
<1> QED
  BY <1>3, <1>4

LEMMA RequestLeaves ==
  ASSUME NEW l, Sound(l), NEW j \in Jobs, NEW path \in Paths
  PROVE  Leaves(l, Requested(l, j, path), j, [Idle EXCEPT !.path = path, !.pending = TRUE], 0)
<1> DEFINE live == l.live - Held(l.jobs[j].picture)
           job == [Idle EXCEPT !.path = path, !.pending = TRUE]
           d == Discarded(l, j)
           thread == Woken(LetGo(l, j))
<1>1. l \in LoaderRecord /\ l.live \in Int /\ Held(l.jobs[j].picture) \in Int
  BY HeldIs DEF Sound, LoaderRecord
<1>2. d = [l EXCEPT !.jobs = [l.jobs EXCEPT ![j] = Idle], !.worker = LetGo(l, j), !.live = live]
  BY <1>1 DEF Discarded, LetGo, LoaderRecord
<1>3. Requested(l, j, path) = [l EXCEPT !.jobs = [l.jobs EXCEPT ![j] = job], !.worker = thread, !.live = live]
  <2>1. d.jobs = [l.jobs EXCEPT ![j] = Idle] /\ d.worker = LetGo(l, j)
    BY <1>1, <1>2 DEF LoaderRecord
  <2>2. [d.jobs EXCEPT ![j] = [@ EXCEPT !.path = path, !.pending = TRUE]] = [l.jobs EXCEPT ![j] = job]
    BY <1>1, <2>1 DEF LoaderRecord
  <2>3. Requested(l, j, path) = [d EXCEPT !.jobs = [l.jobs EXCEPT ![j] = job], !.worker = thread]
    BY <1>1, <1>2, <2>1, <2>2, ZenonT(40) DEF Requested, LoaderRecord
  <2> HIDE DEF job, thread, live, d
  <2> QED
    BY <1>1, <1>2, <2>3 DEF LoaderRecord
<1>4. live - l.live + Held(l.jobs[j].picture) = 0 /\ live \in Int
  BY <1>1
<1>5. job \in JobType /\ Tidy(job) /\ ~job.done
  BY LoaderAssumption DEF Idle, JobType, Files, Tidy, JobInv
<1>6. /\ thread \in ThreadType /\ (thread.at = "decoding" => thread.job # j)
      /\ thread.at \in {"asleep", "looking", "wasted", "prefetching"} \/ thread = l.worker
  BY LetGoType DEF Woken, ThreadType
<1> HIDE DEF live, job, thread
<1>7. Leaves(l, Requested(l, j, path), j, job, live - l.live + Held(l.jobs[j].picture))
  BY <1>3, <1>4, <1>5, <1>6, CallLeaves
<1> QED
  BY <1>4, <1>7 DEF job

LEMMA TakeLeaves ==
  ASSUME NEW l, Sound(l), NEW j \in Jobs, l.jobs[j].done
  PROVE  Leaves(l, Taken(l, j), j, Idle, Held(l.jobs[j].picture))
<1>1. l \in LoaderRecord /\ l.live \in Int /\ l.worker \in ThreadType /\ Held(l.jobs[j].picture) \in Int
  BY HeldIs DEF Sound, LoaderRecord
<1>2. Taken(l, j) = [l EXCEPT !.jobs = [l.jobs EXCEPT ![j] = Idle], !.worker = l.worker, !.live = l.live]
  BY <1>1 DEF Taken, LoaderRecord
<1>3. l.worker.at = "decoding" => l.worker.job # j
  BY DEF Sound, AtWork
<1>4. Leaves(l, Taken(l, j), j, Idle, l.live - l.live + Held(l.jobs[j].picture))
  BY <1>1, <1>2, <1>3, IdleTidy, CallLeaves
<1>5. l.live - l.live + Held(l.jobs[j].picture) = Held(l.jobs[j].picture)
  BY <1>1
<1> QED
  BY <1>4, <1>5

\* What the other calls leave of the jobs, and of the pictures.
Keeps(l, m) == Sound(m) /\ m.jobs = l.jobs /\ Owed(m) = Owed(l)

LEMMA KeepsWhen ==
  ASSUME NEW l, Sound(l), NEW m, Sound(m), m.jobs = l.jobs, m.live = l.live
  PROVE  Keeps(l, m)
BY DEF Keeps, Owed

LEMMA IdRequestKeeps ==
  ASSUME NEW l, Sound(l), NEW path \in Paths
  PROVE  /\ Keeps(l, IdRequested(l, path))
         /\ IdRequested(l, path).id_job.path = path /\ ~IdRequested(l, path).id_job.done
<1> DEFINE job == [IdIdle EXCEPT !.path = path, !.pending = TRUE]
           thread == IF l.id_on_worker THEN Woken(Outdated(l.worker)) ELSE l.worker
           id_thread == IF l.id_on_worker THEN l.id_worker ELSE Woken(Outdated(l.id_worker))
           m == IdRequested(l, path)
<1>1. /\ l \in LoaderRecord /\ l.worker \in ThreadType /\ l.id_worker \in ThreadType
      /\ l.jobs \in [Jobs -> JobType]
  BY DEF Sound, LoaderRecord
<1>2. job \in IdType /\ JobInv(job) /\ ~job.done /\ job.path = path
  BY DEF IdIdle, IdType, JobInv, Files
<1>3. thread \in ThreadType /\ thread.at # "identifying" /\ (thread.at = "decoding" => thread = l.worker)
  <2>1. CASE l.id_on_worker
    BY <1>1, <2>1, WokenType
  <2>2. CASE ~l.id_on_worker
    BY <1>1, <2>2 DEF Sound
  <2> QED
    BY <2>1, <2>2
<1>4. id_thread \in ThreadType /\ id_thread.at # "identifying"
  <2>1. CASE l.id_on_worker
    BY <1>1, <2>1 DEF Sound
  <2>2. CASE ~l.id_on_worker
    BY <1>1, <2>2, WokenType
  <2> QED
    BY <2>1, <2>2
<1>5. m = [l EXCEPT !.id_job = job, !.worker = thread, !.id_worker = id_thread]
  BY <1>1 DEF IdRequested, LoaderRecord
<1> HIDE DEF job, thread, id_thread, m
<1>6. /\ m \in LoaderRecord /\ m.jobs = l.jobs /\ m.live = l.live
      /\ m.id_job = job /\ m.worker = thread /\ m.id_worker = id_thread
  BY <1>1, <1>2, <1>3, <1>4, <1>5 DEF LoaderRecord
<1>7. Sound(m)
  BY <1>2, <1>3, <1>4, <1>6 DEF Sound
<1> QED
  BY <1>2, <1>6, <1>7, KeepsWhen DEF m

LEMMA IdTakeKeeps ==
  ASSUME NEW l, Sound(l), l.id_job.done
  PROVE  Keeps(l, IdTaken(l)) /\ ~IdTaken(l).id_job.done
<1> DEFINE m == IdTaken(l)
<1>1. l \in LoaderRecord
  BY DEF Sound
<1>2. IdIdle \in IdType /\ JobInv(IdIdle) /\ ~IdIdle.done
  BY DEF IdIdle, IdType, JobInv, Files
<1>3. /\ m \in LoaderRecord /\ m.jobs = l.jobs /\ m.live = l.live /\ m.id_job = IdIdle
      /\ m.worker = l.worker /\ m.id_worker = l.id_worker
  BY <1>1, <1>2 DEF IdTaken, LoaderRecord
<1>4. l.worker.at # "identifying" /\ l.id_worker.at # "identifying"
  BY DEF Sound, AtWork
<1> HIDE DEF m
<1>5. Sound(m)
  BY <1>2, <1>3, <1>4 DEF Sound
<1> QED
  BY <1>2, <1>3, <1>5, KeepsWhen DEF m

LEMMA PrefetchKeeps ==
  ASSUME NEW l, Sound(l)
  PROVE  Keeps(l, Prefetched(l)) /\ Prefetched(l).id_job = l.id_job
<1> DEFINE m == Prefetched(l)
<1>1. l \in LoaderRecord /\ l.worker \in ThreadType
  BY DEF Sound, LoaderRecord
<1>2. Woken(l.worker) \in ThreadType
  BY <1>1 DEF Woken, ThreadType
<1>3. /\ Woken(l.worker) = l.worker \/ Woken(l.worker).at = "looking"
  BY <1>1 DEF Woken, ThreadType
<1>4. m = [l EXCEPT !.prefetch_job = TRUE, !.worker = Woken(l.worker)]
  BY <1>1 DEF Prefetched, LoaderRecord
<1> HIDE DEF m
<1>5. /\ m \in LoaderRecord /\ m.jobs = l.jobs /\ m.live = l.live /\ m.id_job = l.id_job
      /\ m.worker = Woken(l.worker) /\ m.id_worker = l.id_worker /\ m.id_on_worker = l.id_on_worker
  BY <1>1, <1>2, <1>4 DEF LoaderRecord
<1>6. Sound(m)
  BY <1>3, <1>5 DEF Sound
<1> QED
  BY <1>5, <1>6, KeepsWhen DEF m

\* cover_free(), by whoever held it.
LEMMA FreeLeaves ==
  ASSUME NEW l, Sound(l), NEW n \in Int, NEW m, m = [l EXCEPT !.live = @ - n]
  PROVE  Sound(m) /\ m.jobs = l.jobs /\ m.id_job = l.id_job /\ Owed(m) = Owed(l) - n
<1>1. l \in LoaderRecord /\ l.live \in Int
  BY DEF Sound, LoaderRecord
<1>2. /\ m \in LoaderRecord /\ m.jobs = l.jobs /\ m.live = l.live - n /\ m.id_job = l.id_job
      /\ m.worker = l.worker /\ m.id_worker = l.id_worker /\ m.id_on_worker = l.id_on_worker
  BY <1>1 DEF LoaderRecord
<1>3. Sound(m)
  BY <1>2 DEF Sound
<1> QED
  BY <1>1, <1>2, <1>3, OwedType DEF Owed

-----------------------------------------------------------------------------
(* The steps of the threads. *)

\* What they do not change of what was asked, and of the pictures.
ThreadsKeep ==
  /\ Sound(loader') /\ Owed(loader') = Owed(loader)
  /\ loader'.id_job.path = loader.id_job.path
  /\ \A j \in Jobs : loader'.jobs[j].path = loader.jobs[j].path

LEMMA SoundIsTidy ==
  /\ Sound(loader) <=> LoaderInv /\ \A j \in Jobs : Tidy(loader.jobs[j])
  /\ Sound(loader') <=> LoaderInv' /\ \A j \in Jobs : Tidy(loader'.jobs[j])
<1>1. Sound(loader) => LoaderInv /\ \A j \in Jobs : Tidy(loader.jobs[j])
  BY DEF Sound, LoaderInv, LoaderType, LoaderRecord, Tidy, Decoding
<1>2. LoaderInv /\ (\A j \in Jobs : Tidy(loader.jobs[j])) => Sound(loader)
  BY DEF Sound, LoaderInv, LoaderType, LoaderRecord, Tidy, Decoding, ThreadType
<1>3. Sound(loader') => LoaderInv' /\ \A j \in Jobs : Tidy(loader'.jobs[j])
  BY DEF Sound, LoaderInv, LoaderType, LoaderRecord, Tidy, Decoding
<1>4. LoaderInv' /\ (\A j \in Jobs : Tidy(loader'.jobs[j])) => Sound(loader')
  BY DEF Sound, LoaderInv, LoaderType, LoaderRecord, Tidy, Decoding, ThreadType
<1> QED
  BY <1>1, <1>2, <1>3, <1>4

\* A step that leaves the jobs as they are.
LEMMA JobsLetBe ==
  ASSUME Sound(loader), LoaderInv', loader'.jobs = loader.jobs, loader'.live = loader.live,
         loader'.id_job.path = loader.id_job.path
  PROVE  ThreadsKeep
<1>1. Sound(loader')
  BY SoundIsTidy DEF Sound
<1> QED
  BY <1>1 DEF ThreadsKeep, Owed

\* A step that leaves one job as `job', which is of the same file, and n pictures more.
LEMMA JobMoved ==
  ASSUME Sound(loader), LoaderInv', NEW j \in Jobs, NEW job \in JobType,
         job.path = loader.jobs[j].path, Tidy(job),
         loader'.jobs = [loader.jobs EXCEPT ![j] = job],
         loader'.live = loader.live + Held(job.picture) - Held(loader.jobs[j].picture),
         loader'.id_job = loader.id_job
  PROVE  ThreadsKeep
<1>1. loader.jobs \in [Jobs -> JobType] /\ loader.live \in Int
  BY DEF Sound, LoaderRecord
<1>2. loader'.jobs[j] = job /\ \A i \in Jobs : i # j => loader'.jobs[i] = loader.jobs[i]
  BY <1>1
<1>3. Sound(loader')
  BY <1>2, SoundIsTidy DEF Sound
<1>4. /\ Pictured(loader.jobs) \in Nat
      /\ Pictured(loader'.jobs) = Pictured(loader.jobs) - Held(loader.jobs[j].picture) + Held(job.picture)
  BY <1>1, PicturesMove
<1>5. Held(loader.jobs[j].picture) \in Int /\ Held(job.picture) \in Int
  BY HeldIs
<1>6. Owed(loader') = Owed(loader)
  BY <1>1, <1>4, <1>5 DEF Owed
<1> QED
  BY <1>2, <1>3, <1>6 DEF ThreadsKeep

LEMMA ThreadsLeave ==
  ASSUME Sound(loader), WorkerSteps \/ IdWorkerSteps
  PROVE  ThreadsKeep
<1>1. LoaderInv /\ LoaderInv'
  BY SoundIsTidy, EachStep
<1>2. loader \in LoaderRecord
  BY DEF Sound
<1>3. CASE worker_sleeps \/ worker_prefetches
  <2>1. loader'.jobs = loader.jobs /\ loader'.live = loader.live /\ loader'.id_job = loader.id_job
    BY <1>2, <1>3 DEF worker_sleeps, worker_prefetches, LoaderRecord
  <2> QED
    BY <1>1, <2>1, JobsLetBe
<1>4. CASE worker_answers_id
  <2>1. loader.id_job \in IdType
    BY <1>2 DEF LoaderRecord
  <2>2. CASE loader' = [loader EXCEPT !.id_job.pending = FALSE, !.worker = Asks(@, loader.id_job.path)]
    <3>1. /\ loader'.jobs = loader.jobs /\ loader'.live = loader.live
          /\ loader'.id_job = [loader.id_job EXCEPT !.pending = FALSE]
      BY <1>2, <2>2 DEF LoaderRecord
    <3>2. loader'.id_job.path = loader.id_job.path
      BY <2>1, <3>1 DEF IdType
    <3> QED
      BY <1>1, <3>1, <3>2, JobsLetBe
  <2>3. CASE loader' = [IdAnswered(loader, loader.worker.path) EXCEPT !.worker = Looking]
    <3>1. /\ loader'.jobs = loader.jobs /\ loader'.live = loader.live
          /\ loader'.id_job = [loader.id_job EXCEPT !.done = TRUE, !.id = SourceId[loader.worker.path]]
      BY <1>2, <2>3, ZenonT(40) DEF LoaderRecord, IdAnswered
    <3>2. loader'.id_job.path = loader.id_job.path
      BY <2>1, <3>1 DEF IdType
    <3> QED
      BY <1>1, <3>1, <3>2, JobsLetBe
  <2> QED
    BY <1>4, <2>2, <2>3 DEF worker_answers_id
<1>5. CASE IdWorkerSteps
  <2>1. loader.id_job \in IdType
    BY <1>2 DEF LoaderRecord
  <2>2. CASE loader' = [loader EXCEPT !.id_job.pending = FALSE, !.id_worker = Asks(@, loader.id_job.path)]
    <3>1. /\ loader'.jobs = loader.jobs /\ loader'.live = loader.live
          /\ loader'.id_job = [loader.id_job EXCEPT !.pending = FALSE]
      BY <1>2, <2>2 DEF LoaderRecord
    <3>2. loader'.id_job.path = loader.id_job.path
      BY <2>1, <3>1 DEF IdType
    <3> QED
      BY <1>1, <3>1, <3>2, JobsLetBe
  <2>3. CASE loader' = [IdAnswered(loader, loader.id_worker.path) EXCEPT !.id_worker = Looking]
    <3>1. /\ loader'.jobs = loader.jobs /\ loader'.live = loader.live
          /\ loader'.id_job = [loader.id_job EXCEPT !.done = TRUE, !.id = SourceId[loader.id_worker.path]]
      BY <1>2, <2>3, ZenonT(40) DEF LoaderRecord, IdAnswered
    <3>2. loader'.id_job.path = loader.id_job.path
      BY <2>1, <3>1 DEF IdType
    <3> QED
      BY <1>1, <3>1, <3>2, JobsLetBe
  <2>4. CASE loader' = [loader EXCEPT !.id_worker = Looking] \/ loader' = [loader EXCEPT !.id_worker.at = "asleep"]
    <3>1. loader'.jobs = loader.jobs /\ loader'.live = loader.live /\ loader'.id_job = loader.id_job
      BY <1>2, <2>4 DEF LoaderRecord
    <3> QED
      BY <1>1, <3>1, JobsLetBe
  <2> QED
    BY <1>5, <2>2, <2>3, <2>4 DEF IdWorkerSteps, id_worker_sleeps, id_worker_answers
<1>6. CASE worker_starts
  <2>1. PICK j \in Jobs :
          loader' = [loader EXCEPT !.jobs[j].pending = FALSE,
                                   !.worker = [at |-> "decoding", job |-> j, path |-> loader.jobs[j].path]]
    BY <1>6 DEF worker_starts, Waiting
  <2>2. loader.jobs[j] \in JobType /\ loader.live \in Int
    BY <1>2 DEF LoaderRecord
  <2> DEFINE job == [loader.jobs[j] EXCEPT !.pending = FALSE]
  <2>3. /\ loader'.jobs = [loader.jobs EXCEPT ![j] = job] /\ loader'.live = loader.live
        /\ loader'.id_job = loader.id_job
    BY <1>2, <2>1 DEF LoaderRecord
  <2>4. /\ job \in JobType /\ job.path = loader.jobs[j].path /\ job.picture = loader.jobs[j].picture
        /\ job.found = loader.jobs[j].found /\ job.done = loader.jobs[j].done /\ ~job.pending
    BY <2>2 DEF JobType
  <2> HIDE DEF job
  <2>5. Tidy(job)
    BY <2>4 DEF Sound, Tidy, JobInv
  <2>6. loader.live + Held(job.picture) - Held(loader.jobs[j].picture) = loader.live
    BY <2>2, <2>4, HeldIs
  <2> QED
    BY <1>1, <2>3, <2>4, <2>5, <2>6, JobMoved
<1>7. CASE worker_finishes
  <2>1. CASE loader' = [loader EXCEPT !.worker = Looking]
    <3>1. loader'.jobs = loader.jobs /\ loader'.live = loader.live /\ loader'.id_job = loader.id_job
      BY <1>2, <2>1 DEF LoaderRecord
    <3> QED
      BY <1>1, <3>1, JobsLetBe
  <2>2. ASSUME loader.worker.at = "decoding",
               NEW result \in Decoded(loader.worker.path), loader' = Finished(loader, result)
        PROVE  ThreadsKeep
    <3> DEFINE j == loader.worker.job
               job == [loader.jobs[j] EXCEPT !.done = TRUE, !.found = result.found,
                                             !.picture = result.picture]
    <3>1. j \in Jobs /\ AtWork(loader.worker, loader.jobs[j]) /\ Tidy(loader.jobs[j])
      BY <1>2, <2>2 DEF Sound, LoaderRecord, ThreadType
    <3>2. loader.jobs[j] \in JobType /\ loader.live \in Int
      BY <1>2, <3>1 DEF LoaderRecord
    <3>3. \/ result.found = FALSE /\ result.picture = NoPath
          \/ result.found = TRUE /\ result.picture = loader.worker.path
      <4>1. result = [found |-> FALSE, picture |-> NoPath] \/ result = [found |-> TRUE, picture |-> loader.worker.path]
        BY <2>2 DEF Decoded
      <4>2. CASE result = [found |-> FALSE, picture |-> NoPath]
        BY <4>2
      <4>3. CASE result = [found |-> TRUE, picture |-> loader.worker.path]
        BY <4>3
      <4> QED
        BY <4>1, <4>2, <4>3
    <3>4. /\ loader'.jobs = [loader.jobs EXCEPT ![j] = job]
          /\ loader'.live = loader.live + Held(result.picture)
          /\ loader'.id_job = loader.id_job
      BY <1>2, <2>2, ZenonT(40) DEF Finished, LoaderRecord
    <3>5. loader.worker.path \in Paths /\ loader.jobs[j].path = loader.worker.path /\ loader.jobs[j].picture = NoPath
      BY <3>1 DEF AtWork, Tidy
    <3>6. /\ job.path = loader.jobs[j].path /\ job.picture = result.picture
          /\ job.found = result.found /\ job.done = TRUE /\ job.pending = loader.jobs[j].pending
      BY <3>2 DEF JobType
    <3>7. job \in JobType
      BY <3>2, <3>3, <3>5 DEF JobType, Files
    <3> HIDE DEF job, j
    <3>8. Tidy(job)
      BY <3>1, <3>3, <3>5, <3>6, LoaderAssumption DEF Tidy, JobInv, AtWork
    <3>9. Held(loader.jobs[j].picture) = 0 /\ Held(result.picture) \in Int
      BY <3>5, HeldIs
    <3>10. loader'.live = loader.live + Held(job.picture) - Held(loader.jobs[j].picture)
      BY <3>2, <3>4, <3>6, <3>9
    <3> QED
      BY <1>1, <3>1, <3>4, <3>6, <3>7, <3>8, <3>10, JobMoved
  <2> QED
    BY <1>7, <2>1, <2>2 DEF worker_finishes
<1> QED
  BY <1>3, <1>4, <1>5, <1>6, <1>7 DEF WorkerSteps

-----------------------------------------------------------------------------
(* The player's cover. *)

PlayerType ==
  [shown_path : Files, shown_id : Nat, incoming_id : Nat,
   id_state : {"idle", "new track", "measure"},
   outstanding : BOOLEAN, cover : Files, polling : BOOLEAN]

\* What is asked is asked for the track that is shown.
AsksForShown(l, p) ==
  /\ p.outstanding => /\ p.cover = NoPath /\ p.shown_path \in Paths
                      /\ l.jobs[PLAYER].path = p.shown_path
                      /\ p.incoming_id \in {0, SourceId[p.shown_path]}
  /\ ~p.outstanding => p.incoming_id = 0
  /\ p.id_state # "idle" => p.shown_path \in Paths /\ l.id_job.path = p.shown_path

CoverFits(p) ==
  /\ p.cover # NoPath =>
       \/ p.id_state = "new track"
       \/ p.shown_path # NoPath /\ SourceId[p.cover] = SourceId[p.shown_path]
  /\ p.cover # NoPath /\ p.shown_id # 0 => p.shown_id = SourceId[p.cover]

PlayerInv(w) ==
  /\ w = Both(w.loader, w.player) /\ Sound(w.loader) /\ w.player \in PlayerType
  /\ AsksForShown(w.loader, w.player) /\ CoverFits(w.player)

\* The pictures of the others.
PlayerOwes(w) == Owed(w.loader) - Held(w.player.cover)

\* What a function of the player's may do to w.
PlayerTurns(w, v) ==
  /\ PlayerInv(v) /\ PlayerOwes(v) = PlayerOwes(w) /\ Unanswered(w.loader, v.loader)
  /\ \A j \in Jobs : j # PLAYER => v.loader.jobs[j] = w.loader.jobs[j]

LEMMA TurnsInTurn ==
  ASSUME NEW u, NEW v, NEW w, PlayerTurns(u, v), PlayerTurns(v, w)
  PROVE  PlayerTurns(u, w)
BY DEF PlayerTurns, Unanswered

LEMMA BothIs == ASSUME NEW l, NEW p PROVE Both(l, p).loader = l /\ Both(l, p).player = p
BY DEF Both

LEMMA TurnsWhen ==
  ASSUME NEW w, NEW l, NEW p, Sound(l), p \in PlayerType, AsksForShown(l, p), CoverFits(p),
         Owed(l) - Held(p.cover) = PlayerOwes(w), Unanswered(w.loader, l),
         \A j \in Jobs : j # PLAYER => l.jobs[j] = w.loader.jobs[j]
  PROVE  PlayerTurns(w, Both(l, p))
<1> DEFINE v == Both(l, p)
<1>1. v.loader = l /\ v.player = p /\ v = Both(l, p)
  BY BothIs
<1> HIDE DEF v
<1>2. PlayerInv(v) /\ PlayerOwes(v) = PlayerOwes(w)
  BY <1>1 DEF PlayerInv, PlayerOwes
<1>3. /\ Unanswered(w.loader, v.loader)
      /\ \A j \in Jobs : j # PLAYER => v.loader.jobs[j] = w.loader.jobs[j]
  BY <1>1
<1>4. PlayerTurns(w, v)
  BY <1>2, <1>3 DEF PlayerTurns
<1> QED
  BY <1>4 DEF v

LEMMA Ids == \A path \in Paths : SourceId[path] \in Nat /\ path # NoPath /\ path \in Files
BY LoaderAssumption DEF Files

LEMMA Reloads ==
  ASSUME NEW w, w = Both(w.loader, w.player), Sound(w.loader), w.player \in PlayerType,
         NEW path \in Files, w.player.shown_path = path,
         w.player.incoming_id # 0 => path \in Paths /\ w.player.incoming_id = SourceId[path],
         w.player.id_state # "idle" => path \in Paths /\ w.loader.id_job.path = path
  PROVE  PlayerTurns(w, reload_cover(w, path))
<1> DEFINE p == [w.player EXCEPT !.cover = NoPath]
           n == Held(w.player.cover)
           l == [w.loader EXCEPT !.live = @ - n]
           v == reload_cover(w, path)
<1>1. n \in Int /\ Held(NoPath) = 0 /\ Owed(w.loader) \in Int
  BY HeldIs, OwedType
<1>2. p \in PlayerType /\ p.cover = NoPath /\ p.shown_path = path
      /\ p.incoming_id = w.player.incoming_id /\ p.id_state = w.player.id_state
  BY DEF PlayerType, Files
<1>3. Sound(l) /\ l.jobs = w.loader.jobs /\ l.id_job = w.loader.id_job /\ Owed(l) = Owed(w.loader) - n
  <2> HIDE DEF n
  <2> QED
    BY <1>1, FreeLeaves
<1>4. v = IF path = NoPath THEN Both(l, [p EXCEPT !.outstanding = FALSE])
          ELSE Both(Requested(l, PLAYER, path), [p EXCEPT !.outstanding = TRUE, !.polling = TRUE])
  BY DEF reload_cover
<1> HIDE DEF v, p, l, n
<1>5. CASE path = NoPath
  <2> DEFINE q == [p EXCEPT !.outstanding = FALSE]
  <2>1. /\ q \in PlayerType /\ q.cover = NoPath /\ q.outstanding = FALSE /\ q.shown_path = path
        /\ q.incoming_id = w.player.incoming_id /\ q.id_state = w.player.id_state
    BY <1>2 DEF PlayerType
  <2>2. v = Both(l, q)
    BY <1>4, <1>5
  <2> HIDE DEF q
  <2>3. AsksForShown(l, q) /\ CoverFits(q)
    BY <1>5, <2>1, LoaderAssumption DEF AsksForShown, CoverFits
  <2>4. Owed(l) - Held(q.cover) = PlayerOwes(w)
    BY <1>1, <1>3, <2>1 DEF PlayerOwes, n
  <2>5. PlayerTurns(w, Both(l, q))
    BY <1>3, <2>1, <2>3, <2>4, TurnsWhen DEF Unanswered
  <2> QED
    BY <2>2, <2>5 DEF v
<1>6. CASE path # NoPath
  <2> DEFINE q == [p EXCEPT !.outstanding = TRUE, !.polling = TRUE]
             job == [Idle EXCEPT !.path = path, !.pending = TRUE]
             r == Requested(l, PLAYER, path)
  <2>0. path \in Paths
    BY <1>6 DEF Files
  <2>1. /\ q \in PlayerType /\ q.cover = NoPath /\ q.outstanding = TRUE /\ q.shown_path = path
        /\ q.incoming_id = w.player.incoming_id /\ q.id_state = w.player.id_state
    BY <1>2 DEF PlayerType
  <2>2. Leaves(l, r, PLAYER, job, 0)
    BY <1>3, <2>0, Numbers, RequestLeaves
  <2>3. l.jobs \in [Jobs -> JobType] /\ Owed(l) \in Int
    BY <1>3, OwedType DEF Sound, LoaderRecord
  <2>4. job.path = path
    BY DEF Idle
  <2>5. v = Both(r, q)
    BY <1>4, <1>6
  <2> HIDE DEF q, job, r
  <2>6. /\ Sound(r) /\ r.jobs[PLAYER] = job /\ (\A j \in Jobs : j # PLAYER => r.jobs[j] = w.loader.jobs[j])
        /\ r.id_job = w.loader.id_job /\ Owed(r) = Owed(w.loader) - n /\ ~job.done
    BY <1>1, <1>3, <2>2, <2>3, Numbers DEF Leaves
  <2>7. AsksForShown(r, q) /\ CoverFits(q)
    BY <2>0, <2>1, <2>4, <2>6, Ids DEF AsksForShown, CoverFits
  <2>8. Owed(r) - Held(q.cover) = PlayerOwes(w)
    BY <1>1, <2>1, <2>6 DEF PlayerOwes, n
  <2>9. PlayerTurns(w, Both(r, q))
    BY <2>1, <2>6, <2>7, <2>8, TurnsWhen DEF Unanswered
  <2> QED
    BY <2>5, <2>9 DEF v
<1> QED
  BY <1>5, <1>6

\* The question is asked about the track that is shown, when the cover is on.
LEMMA AsksId ==
  ASSUME NEW w, w = Both(w.loader, w.player), Sound(w.loader), w.player \in PlayerType,
         w.player.shown_path \in Paths, ~w.player.outstanding, w.player.incoming_id = 0,
         NEW why \in {"new track", "measure"},
         w.player.cover # NoPath /\ w.player.shown_id # 0 => w.player.shown_id = SourceId[w.player.cover],
         why = "measure" => SourceId[w.player.cover] = SourceId[w.player.shown_path]
  PROVE  PlayerTurns(w, asks_id(w, why))
<1> DEFINE l == IdRequested(w.loader, w.player.shown_path)
           p == [w.player EXCEPT !.id_state = why, !.polling = TRUE]
           v == asks_id(w, why)
<1>1. Keeps(w.loader, l) /\ l.id_job.path = w.player.shown_path /\ ~l.id_job.done
  BY IdRequestKeeps
<1>2. /\ p \in PlayerType /\ p.id_state = why /\ p.shown_path = w.player.shown_path
      /\ p.outstanding = w.player.outstanding /\ p.incoming_id = 0
      /\ p.cover = w.player.cover /\ p.shown_id = w.player.shown_id
  BY DEF PlayerType
<1>3. v = Both(l, p)
  BY DEF asks_id
<1> HIDE DEF v, l, p
<1>4. AsksForShown(l, p)
  BY <1>1, <1>2 DEF AsksForShown
<1>5. CoverFits(p)
  BY <1>2, Ids DEF CoverFits
<1>6. Owed(l) - Held(p.cover) = PlayerOwes(w)
  BY <1>1, <1>2 DEF PlayerOwes, Keeps
<1>7. PlayerTurns(w, Both(l, p))
  BY <1>1, <1>2, <1>4, <1>5, <1>6, TurnsWhen DEF Keeps, Unanswered
<1> QED
  BY <1>3, <1>7 DEF v

LEMMA Refreshes ==
  ASSUME NEW w, PlayerInv(w), NEW path \in Files
  PROVE  PlayerTurns(w, refresh_cover(w, path))
<1> DEFINE p == [w.player EXCEPT !.shown_path = path]
<1>1. /\ p \in PlayerType /\ p.shown_path = path /\ p.cover = w.player.cover
      /\ p.shown_id = w.player.shown_id /\ p.outstanding = w.player.outstanding
      /\ p.incoming_id = w.player.incoming_id
  BY DEF PlayerInv, PlayerType
<1>2. CASE p.shown_id # 0 /\ p.cover # NoPath /\ path # NoPath
  <2> DEFINE u == Both(w.loader, p)
  <2>1. refresh_cover(w, path) = asks_id(u, "new track")
    BY <1>2 DEF refresh_cover
  <2>2. u.loader = w.loader /\ u.player = p /\ u = Both(u.loader, u.player)
    BY BothIs
  <2> HIDE DEF u, p
  <2>3. path \in Paths /\ ~w.player.outstanding /\ w.player.incoming_id = 0
    BY <1>1, <1>2 DEF PlayerInv, AsksForShown, Files
  <2>4. p.shown_id = SourceId[p.cover]
    BY <1>1, <1>2 DEF PlayerInv, CoverFits
  <2>5. PlayerTurns(u, asks_id(u, "new track"))
    BY <1>1, <2>2, <2>3, <2>4, AsksId DEF PlayerInv
  <2> QED
    BY <1>1, <2>1, <2>2, <2>5 DEF PlayerTurns, PlayerOwes
<1>3. CASE ~(p.shown_id # 0 /\ p.cover # NoPath /\ path # NoPath)
  <2> DEFINE q == [p EXCEPT !.id_state = "idle", !.incoming_id = 0]
             u == Both(w.loader, q)
  <2>1. refresh_cover(w, path) = reload_cover(u, path)
    BY <1>3 DEF refresh_cover
  <2>2. q \in PlayerType /\ q.shown_path = path /\ q.cover = w.player.cover /\ q.id_state = "idle" /\ q.incoming_id = 0
    BY <1>1 DEF PlayerType
  <2>3. u.loader = w.loader /\ u.player = q /\ u = Both(u.loader, u.player)
    BY BothIs
  <2> HIDE DEF u, q, p
  <2>4. PlayerTurns(u, reload_cover(u, path))
    BY <2>2, <2>3, Reloads DEF PlayerInv
  <2> QED
    BY <2>1, <2>2, <2>3, <2>4 DEF PlayerTurns, PlayerOwes
<1> QED
  BY <1>2, <1>3

LEMMA AppliesId ==
  ASSUME NEW w, PlayerInv(w)
  PROVE  PlayerTurns(w, apply_cover_id_result(w))
<1> DEFINE p == w.player
           id == w.loader.id_job.id
           q == [p EXCEPT !.id_state = "idle"]
           l == IdTaken(w.loader)
           asked == Both(l, q)
<1>1. CASE p.id_state = "idle" \/ ~w.loader.id_job.done
  <2>1. apply_cover_id_result(w) = w
    BY <1>1 DEF apply_cover_id_result
  <2> QED
    BY <2>1 DEF PlayerTurns, Unanswered
<1>2. CASE p.id_state # "idle" /\ w.loader.id_job.done
  <2>1. p \in PlayerType /\ Sound(w.loader) /\ AsksForShown(w.loader, p) /\ CoverFits(p)
    BY DEF PlayerInv
  <2>2. p.shown_path \in Paths /\ id = SourceId[p.shown_path] /\ id \in Nat
    BY <1>2, <2>1, Ids DEF AsksForShown, Sound
  <2>3. Keeps(w.loader, l) /\ ~l.id_job.done
    BY <1>2, <2>1, IdTakeKeeps
  <2>4. /\ q \in PlayerType /\ q.id_state = "idle" /\ q.shown_path = p.shown_path /\ q.cover = p.cover
        /\ q.shown_id = p.shown_id /\ q.outstanding = p.outstanding /\ q.incoming_id = p.incoming_id
    BY <2>1 DEF PlayerType
  <2>5. asked.loader = l /\ asked.player = q /\ asked = Both(l, q)
    <3> HIDE DEF l, q
    <3> QED
      BY BothIs
  <2>6. CASE p.id_state = "measure"
    <3> DEFINE r == [q EXCEPT !.shown_id = id]
    <3>1. apply_cover_id_result(w) = [asked EXCEPT !.player.shown_id = id]
      BY <1>2, <2>6 DEF apply_cover_id_result
    <3>2. [asked EXCEPT !.player.shown_id = id] = Both(l, r)
      <4> HIDE DEF l, q, id
      <4> QED
        BY DEF Both
    <3>3. /\ r \in PlayerType /\ r.id_state = "idle" /\ r.shown_path = p.shown_path /\ r.cover = p.cover
          /\ r.shown_id = id /\ r.outstanding = p.outstanding /\ r.incoming_id = p.incoming_id
      BY <2>2, <2>4 DEF PlayerType
    <3> HIDE DEF r, q, l, asked
    <3>4. AsksForShown(l, r) /\ CoverFits(r)
      BY <2>1, <2>2, <2>3, <2>6, <3>3, Ids DEF AsksForShown, CoverFits, Keeps
    <3>5. Owed(l) - Held(r.cover) = PlayerOwes(w)
      BY <2>3, <3>3 DEF PlayerOwes, Keeps
    <3>6. PlayerTurns(w, Both(l, r))
      BY <2>3, <3>3, <3>4, <3>5, TurnsWhen DEF Keeps, Unanswered
    <3> QED
      BY <3>1, <3>2, <3>6
  <2>7. CASE p.id_state # "measure" /\ id # 0 /\ id = p.shown_id
    <3>1. apply_cover_id_result(w) = asked
      BY <1>2, <2>7 DEF apply_cover_id_result
    <3> HIDE DEF q, l, asked
    <3>2. AsksForShown(l, q) /\ CoverFits(q)
      BY <2>1, <2>2, <2>3, <2>4, <2>7, Ids DEF AsksForShown, CoverFits, Keeps
    <3>3. Owed(l) - Held(q.cover) = PlayerOwes(w)
      BY <2>3, <2>4 DEF PlayerOwes, Keeps
    <3>4. PlayerTurns(w, Both(l, q))
      BY <2>3, <2>4, <3>2, <3>3, TurnsWhen DEF Keeps, Unanswered
    <3> QED
      BY <2>5, <3>1, <3>4
  <2>8. CASE p.id_state # "measure" /\ ~(id # 0 /\ id = p.shown_id)
    <3> DEFINE r == [q EXCEPT !.incoming_id = id]
               u == [asked EXCEPT !.player.incoming_id = id]
    <3>1. apply_cover_id_result(w) = reload_cover(u, p.shown_path)
      BY <1>2, <2>8 DEF apply_cover_id_result
    <3>2. u = Both(l, r)
      <4> HIDE DEF l, q, id
      <4> QED
        BY DEF Both
    <3>3. /\ r \in PlayerType /\ r.id_state = "idle" /\ r.shown_path = p.shown_path /\ r.cover = p.cover
          /\ r.incoming_id = id
      BY <2>2, <2>4 DEF PlayerType
    <3> HIDE DEF r, q, l, asked, u
    <3>4. u.loader = l /\ u.player = r /\ u = Both(u.loader, u.player)
      BY <3>2, BothIs
    <3>5. PlayerTurns(u, reload_cover(u, p.shown_path))
      BY <2>2, <2>3, <3>3, <3>4, Ids, Reloads DEF Keeps
    <3>6. PlayerOwes(u) = PlayerOwes(w) /\ u.loader.jobs = w.loader.jobs /\ ~u.loader.id_job.done
      BY <2>3, <3>3, <3>4 DEF PlayerOwes, Keeps
    <3> QED
      BY <3>1, <3>5, <3>6 DEF PlayerTurns, Unanswered
  <2> QED
    BY <2>6, <2>7, <2>8
<1> QED
  BY <1>1, <1>2

LEMMA PrefetchesNext ==
  ASSUME NEW w, PlayerInv(w), NEW ahead
  PROVE  PlayerTurns(w, prefetch_next_cover(w, ahead))
<1>1. CASE ~ahead
  BY <1>1 DEF prefetch_next_cover, PlayerTurns, Unanswered
<1>2. CASE ahead
  <2> DEFINE l == Prefetched(w.loader)
  <2>1. Keeps(w.loader, l) /\ l.id_job = w.loader.id_job
    BY PrefetchKeeps DEF PlayerInv
  <2>2. prefetch_next_cover(w, ahead) = [w EXCEPT !.loader = l]
    BY <1>2 DEF prefetch_next_cover
  <2>3. [w EXCEPT !.loader = l] = Both(l, w.player)
    <3>1. w = [loader |-> w.loader, player |-> w.player]
      BY Zenon DEF PlayerInv, Both
    <3> HIDE DEF l
    <3> QED
      BY <3>1 DEF Both
  <2> HIDE DEF l
  <2>4. AsksForShown(l, w.player) /\ Owed(l) - Held(w.player.cover) = PlayerOwes(w)
    BY <2>1 DEF PlayerInv, AsksForShown, Keeps, PlayerOwes
  <2>5. PlayerTurns(w, Both(l, w.player))
    BY <2>1, <2>4, TurnsWhen DEF PlayerInv, Keeps, Unanswered
  <2> QED
    BY <2>2, <2>3, <2>5
<1> QED
  BY <1>1, <1>2

LEMMA AppliesCover ==
  ASSUME NEW w, PlayerInv(w), NEW ahead
  PROVE  PlayerTurns(w, apply_cover_result(w, ahead))
<1> DEFINE p == w.player
           job == w.loader.jobs[PLAYER]
           l == Taken(w.loader, PLAYER)
           q == [p EXCEPT !.outstanding = FALSE, !.incoming_id = 0]
           taken == Both(l, q)
           n == Held(job.picture)
<1>0. /\ p \in PlayerType /\ Sound(w.loader) /\ AsksForShown(w.loader, p) /\ CoverFits(p)
      /\ job \in JobType /\ Tidy(job)
  BY Numbers DEF PlayerInv, Sound, LoaderRecord
<1>1. CASE ~p.outstanding \/ ~job.done
  <2>1. apply_cover_result(w, ahead) = w
    BY <1>1 DEF apply_cover_result
  <2> QED
    BY <2>1 DEF PlayerTurns, Unanswered
<1>2. CASE p.outstanding /\ job.done
  <2>1. /\ Sound(l) /\ l.id_job = w.loader.id_job /\ Owed(l) = Owed(w.loader) + n
        /\ \A j \in Jobs : j # PLAYER => l.jobs[j] = w.loader.jobs[j]
        /\ Unanswered(w.loader, l)
    <3>1. Leaves(w.loader, l, PLAYER, Idle, n)
      BY <1>0, <1>2, Numbers, TakeLeaves
    <3>2. w.loader.jobs \in [Jobs -> JobType]
      BY <1>0 DEF Sound, LoaderRecord
    <3> HIDE DEF l, n
    <3> QED
      BY <3>1, <3>2 DEF Leaves, Unanswered
  <2>2. /\ p.cover = NoPath /\ p.shown_path \in Paths /\ job.path = p.shown_path
        /\ p.incoming_id \in {0, SourceId[p.shown_path]}
        /\ job.picture \in {job.path, NoPath} /\ (job.found <=> job.picture # NoPath)
    BY <1>0, <1>2 DEF AsksForShown, Tidy
  <2>3. /\ q \in PlayerType /\ q.outstanding = FALSE /\ q.incoming_id = 0 /\ q.cover = NoPath
        /\ q.shown_path = p.shown_path /\ q.id_state = p.id_state
    BY <1>0, <2>2 DEF PlayerType
  <2>4. n \in Int /\ Held(NoPath) = 0 /\ Owed(w.loader) \in Int
    BY <1>0, HeldIs, OwedType
  <2>5. CASE ~job.found
    <3> DEFINE r == [q EXCEPT !.shown_id = 0]
    <3>1. apply_cover_result(w, ahead) = prefetch_next_cover([taken EXCEPT !.player.shown_id = 0], ahead)
      BY <1>2, <2>5 DEF apply_cover_result
    <3>2. [taken EXCEPT !.player.shown_id = 0] = Both(l, r)
      <4> HIDE DEF l, q
      <4> QED
        BY DEF Both
    <3>3. /\ r \in PlayerType /\ r.outstanding = FALSE /\ r.incoming_id = 0 /\ r.cover = NoPath
          /\ r.shown_path = p.shown_path /\ r.id_state = p.id_state
      BY <2>3 DEF PlayerType
    <3> HIDE DEF r, q, l, taken, n
    <3>4. AsksForShown(l, r) /\ CoverFits(r)
      BY <1>0, <2>1, <3>3 DEF AsksForShown, CoverFits
    <3>5. n = 0
      BY <2>2, <2>5, <2>4 DEF n
    <3>6. Owed(l) - Held(r.cover) = PlayerOwes(w)
      BY <2>1, <2>2, <2>4, <3>3, <3>5 DEF PlayerOwes
    <3>7. PlayerTurns(w, Both(l, r))
      BY <2>1, <3>3, <3>4, <3>6, TurnsWhen
    <3>8. PlayerTurns(Both(l, r), prefetch_next_cover(Both(l, r), ahead))
      BY <3>7, PrefetchesNext DEF PlayerTurns
    <3> QED
      BY <3>1, <3>2, <3>7, <3>8, TurnsInTurn
  <2>6. CASE job.found
    <3> DEFINE r == [q EXCEPT !.cover = job.picture, !.shown_id = p.incoming_id]
               put == [taken EXCEPT !.player.cover = job.picture, !.player.shown_id = p.incoming_id]
    <3>1. apply_cover_result(w, ahead) =
            prefetch_next_cover(IF p.incoming_id = 0 THEN asks_id(put, "measure") ELSE put, ahead)
      BY <1>2, <2>6 DEF apply_cover_result
    <3>2. put = Both(l, r)
      <4> DEFINE q2 == [q EXCEPT !.cover = job.picture]
      <4>1. [taken EXCEPT !.player.cover = job.picture] = Both(l, q2)
        <5> HIDE DEF l, q, job
        <5> QED
          BY DEF Both
      <4>2. [Both(l, q2) EXCEPT !.player.shown_id = p.incoming_id] = Both(l, [q2 EXCEPT !.shown_id = p.incoming_id])
        <5> HIDE DEF l, q2, p
        <5> QED
          BY DEF Both
      <4>3. put = [[taken EXCEPT !.player.cover = job.picture] EXCEPT !.player.shown_id = p.incoming_id]
        OBVIOUS
      <4>4. r = [q2 EXCEPT !.shown_id = p.incoming_id]
        OBVIOUS
      <4> HIDE DEF put, taken, r, q2, l
      <4> QED
        BY <4>1, <4>2, <4>3, <4>4
    <3>3. job.picture = p.shown_path /\ p.incoming_id \in Nat /\ p.shown_path \in Files
      BY <2>2, <2>6, Ids
    <3>4. /\ r \in PlayerType /\ r.outstanding = FALSE /\ r.incoming_id = 0 /\ r.cover = p.shown_path
          /\ r.shown_path = p.shown_path /\ r.id_state = p.id_state /\ r.shown_id = p.incoming_id
      BY <2>3, <3>3 DEF PlayerType
    <3> HIDE DEF r, q, l, taken, n, put
    <3>5. put.loader = l /\ put.player = r /\ put = Both(put.loader, put.player)
      BY <3>2, BothIs
    <3>6. AsksForShown(l, r) /\ CoverFits(r)
      BY <1>0, <2>1, <2>2, <3>4, Ids DEF AsksForShown, CoverFits
    <3>7. Owed(l) - Held(r.cover) = PlayerOwes(w)
      BY <2>1, <2>2, <2>4, <3>3, <3>4 DEF PlayerOwes, n
    <3>8. PlayerTurns(w, put)
      BY <2>1, <3>2, <3>4, <3>6, <3>7, TurnsWhen
    <3>9. CASE p.incoming_id = 0
      <4>1. PlayerTurns(put, asks_id(put, "measure"))
        BY <2>1, <2>2, <3>4, <3>5, <3>9, AsksId
      <4>2. PlayerTurns(w, asks_id(put, "measure"))
        BY <3>8, <4>1, TurnsInTurn
      <4>3. PlayerTurns(asks_id(put, "measure"), prefetch_next_cover(asks_id(put, "measure"), ahead))
        BY <4>1, PrefetchesNext DEF PlayerTurns
      <4> QED
        BY <3>1, <3>9, <4>2, <4>3, TurnsInTurn
    <3>10. CASE p.incoming_id # 0
      <4>1. PlayerTurns(put, prefetch_next_cover(put, ahead))
        BY <3>8, PrefetchesNext DEF PlayerTurns
      <4> QED
        BY <3>1, <3>8, <3>10, <4>1, TurnsInTurn
    <3> QED
      BY <3>9, <3>10
  <2> QED
    BY <2>5, <2>6
<1> QED
  BY <1>1, <1>2

\* What each of the player's actions makes of the loader and the player.
PlayerSteps == track_changes \/ layout_changes \/ cover_poll_cb \/ progress_slider_timer_cb

LEMMA PlayerMoves ==
  ASSUME PlayerInv(Now), PlayerSteps
  PROVE  PlayerTurns(Now, Now') /\ UNCHANGED <<rows, listing, saver>>
<1>0. Now.loader = loader /\ Now.player = player /\ Now' = Both(loader', player')
  BY BothIs DEF Now, Both
<1>1. ASSUME NEW w, PlayerTurns(Now, w), OfPlayer(w)
      PROVE  PlayerTurns(Now, Now') /\ UNCHANGED <<rows, listing, saver>>
  <2>1. w = Both(loader', player') /\ UNCHANGED <<rows, listing, saver>>
    BY <1>1 DEF OfPlayer, PlayerTurns, PlayerInv
  <2> QED
    BY <1>0, <1>1, <2>1
<1>2. CASE track_changes
  <2>1. PICK path \in Played \cup {NoPath} : OfPlayer(refresh_cover(Now, path))
    BY <1>2 DEF track_changes
  <2>2. path \in Files
    BY CoversAssumption DEF Files
  <2> QED
    BY <1>1, <2>1, <2>2, Refreshes
<1>3. CASE layout_changes
  <2>1. OfPlayer(reload_cover(Now, player.shown_path)) /\ player.shown_path # NoPath
    BY <1>3 DEF layout_changes
  <2>2. /\ player \in PlayerType /\ Sound(loader) /\ Now = Both(Now.loader, Now.player)
        /\ AsksForShown(loader, player)
    BY <1>0 DEF PlayerInv
  <2>3. player.shown_path \in Files /\ player.shown_path \in Paths
    BY <2>1, <2>2 DEF PlayerType, Files
  <2>4. player.incoming_id # 0 => player.incoming_id = SourceId[player.shown_path]
    BY <2>2 DEF AsksForShown, PlayerType
  <2>5. player.id_state # "idle" => loader.id_job.path = player.shown_path
    BY <2>2 DEF AsksForShown
  <2>6. PlayerTurns(Now, reload_cover(Now, player.shown_path))
    BY <1>0, <2>2, <2>3, <2>4, <2>5, Reloads
  <2> QED
    BY <1>1, <2>1, <2>6
<1>4. ASSUME NEW ahead PROVE PlayerTurns(Now, Collected(ahead))
  <2>1. PlayerTurns(Now, apply_cover_id_result(Now))
    BY AppliesId
  <2>2. PlayerTurns(apply_cover_id_result(Now), Collected(ahead))
    BY <2>1, AppliesCover DEF PlayerTurns, Collected
  <2> QED
    BY <2>1, <2>2, TurnsInTurn
<1>5. CASE progress_slider_timer_cb
  BY <1>1, <1>4, <1>5 DEF progress_slider_timer_cb
<1>6. CASE cover_poll_cb
  <2>1. PICK ahead \in BOOLEAN :
          LET w == Collected(ahead) IN
            OfPlayer([w EXCEPT !.player.polling = w.player.outstanding \/ w.player.id_state # "idle"])
    BY <1>6 DEF cover_poll_cb
  <2> DEFINE w == Collected(ahead)
             more == w.player.outstanding \/ w.player.id_state # "idle"
             p == [w.player EXCEPT !.polling = more]
  <2>2. PlayerTurns(Now, w)
    BY <1>4
  <2>3. OfPlayer([w EXCEPT !.player = p])
    BY <2>1
  <2> HIDE DEF w
  <2>4. w = [loader |-> w.loader, player |-> w.player]
    BY <2>2, Zenon DEF PlayerTurns, PlayerInv, Both
  <2>5. [w EXCEPT !.player = p] = Both(w.loader, p)
    <3> HIDE DEF p
    <3> QED
      BY <2>4 DEF Both
  <2>6. w.player \in PlayerType /\ more \in BOOLEAN
    BY <2>2 DEF PlayerTurns, PlayerInv, PlayerType
  <2> HIDE DEF more
  <2>7. /\ p \in PlayerType /\ p.id_state = w.player.id_state /\ p.shown_path = w.player.shown_path
        /\ p.cover = w.player.cover /\ p.shown_id = w.player.shown_id
        /\ p.outstanding = w.player.outstanding /\ p.incoming_id = w.player.incoming_id
    BY <2>6 DEF PlayerType
  <2> HIDE DEF p
  <2>8. /\ AsksForShown(w.loader, p) /\ CoverFits(p) /\ Sound(w.loader)
        /\ Owed(w.loader) - Held(p.cover) = PlayerOwes(Now)
        /\ \A j \in Jobs : j # PLAYER => w.loader.jobs[j] = Now.loader.jobs[j]
        /\ Unanswered(Now.loader, w.loader)
    BY <2>2, <2>7 DEF PlayerTurns, PlayerInv, PlayerOwes, AsksForShown, CoverFits
  <2>9. PlayerTurns(Now, Both(w.loader, p))
    BY <2>7, <2>8, TurnsWhen
  <2> QED
    BY <1>1, <2>3, <2>5, <2>9
<1> QED
  BY <1>2, <1>3, <1>5, <1>6 DEF PlayerSteps

-----------------------------------------------------------------------------
(* The rows. *)

\* A set of naturals has a least one.
LEMMA Smallest == ASSUME NEW S \in SUBSET Nat, S /= {} PROVE \E n \in S : \A k \in S : n <= k
  <1> DEFINE Below == {ss \in Nat \X Nat : ss[1] < ss[2]}
  <1>1. IsWellFoundedOn(Below, Nat)
    BY NatLessThanWellFounded, Zenon DEF OpToRel
  <1>2. \A k, n \in Nat : k < n => <<k, n>> \in Below
    OBVIOUS
  <1> HIDE DEF Below
  <1>3. PICK n \in S : \A k \in S : <<k, n>> \notin Below
    BY <1>1, WFMin, Zenon
  <1>4. \A k \in S : ~(k < n)
    BY <1>2, <1>3, Zenon
  <1> QED
    BY <1>4

\* A set with zero in it, and with each number the next, has every natural in it.
LEMMA Induction == ASSUME NEW S, 0 \in S, \A n \in Nat : n \in S => n + 1 \in S PROVE Nat \subseteq S
  <1> SUFFICES ASSUME Nat \ S /= {} PROVE FALSE
    OBVIOUS
  <1>1. PICK n \in Nat \ S : \A k \in Nat \ S : n <= k
    BY Smallest
  <1>2. n - 1 \in Nat /\ n - 1 \notin S
    BY <1>1
  <1> QED
    BY <1>1, <1>2

\* The function that AllRowsCall is the end of exists.
LEMMA AllRowsCallIsDefined ==
  ASSUME NEW calls
  PROVE  \E after : /\ \A n \in 0..SAVER :
                         after[n] = IF n = 0 THEN loader ELSE row_calls(n - 1, calls[n - 1], after[n - 1])
                    /\ AllRowsCall(calls) = after[SAVER]
<1> DEFINE Step(n, before) == row_calls(n - 1, calls[n - 1], before)
           Upto(m, after) == after = [n \in 0..m |-> IF n = 0 THEN loader ELSE Step(n, after[n - 1])]
           Good == {m \in Nat : \E after : Upto(m, after)}
           after[n \in 0..SAVER] ==
             IF n = 0 THEN loader ELSE row_calls(n - 1, calls[n - 1], after[n - 1])
<1>1. 0 \in Good
  <2>1. Upto(0, [n \in 0..0 |-> loader])
    OBVIOUS
  <2> QED
    BY <2>1
<1>2. ASSUME NEW m \in Nat, m \in Good PROVE m + 1 \in Good
  <2>1. PICK f : Upto(m, f)
    BY <1>2
  <2> HIDE DEF Step
  <2> DEFINE g == [n \in 0..(m + 1) |-> IF n = m + 1 THEN Step(n, f[m]) ELSE f[n]]
  <2>2. \A n \in 0..m : f[n] = IF n = 0 THEN loader ELSE Step(n, f[n - 1])
    BY <2>1
  <2>3. \A n \in 0..(m + 1) : g[n] = IF n = 0 THEN loader ELSE Step(n, g[n - 1])
    BY <2>2
  <2>4. \E h : Upto(m + 1, h)
    BY <2>3
  <2> HIDE DEF Upto
  <2> QED
    BY <2>4
<1>3. \E f : Upto(SAVER, f)
  BY <1>1, <1>2, Numbers, Induction
<1>4. Upto(SAVER, after)
  BY <1>3
<1>5. AllRowsCall(calls) = after[SAVER]
  BY DEF AllRowsCall
<1> HIDE DEF after
<1>6. \A n \in 0..SAVER : after[n] = IF n = 0 THEN loader ELSE row_calls(n - 1, calls[n - 1], after[n - 1])
  BY <1>4
<1> QED
  BY <1>5, <1>6

RowType == [of : Files, requested : BOOLEAN, settled : BOOLEAN, thumb : Files]

\* A row's thumbnail is its own; while it waits it has none, and what is
\* asked is asked for the entry it is bound to.
RowsInv ==
  /\ rows \in [Slots -> RowType] /\ listing \in BOOLEAN
  /\ \A s \in Slots :
       /\ rows[s].thumb \in {NoPath, rows[s].of}
       /\ Unsettled(s) => rows[s].thumb = NoPath
       /\ Unsettled(s) /\ rows[s].requested => loader.jobs[s].path = rows[s].of

\* The job of a row after its call.
RowJob(s, call) ==
  CASE call = "none" -> loader.jobs[s]
    [] call = "ask"  -> [Idle EXCEPT !.path = rows[s].of, !.pending = TRUE]
    [] OTHER         -> Idle

\* A row with this call comes to have this thumbnail.
CallFits(s, call, thumb) ==
  \/ call = "drop" /\ thumb = NoPath
  \/ call = "take" /\ loader.jobs[s].done /\ rows[s].thumb = NoPath /\ thumb = loader.jobs[s].picture
  \/ call = "ask" /\ rows[s].of \in Paths /\ thumb = rows[s].thumb
  \/ call = "none" /\ thumb = rows[s].thumb

LEMMA SlotsAreJobs ==
  /\ Slots \subseteq Jobs /\ PLAYER \notin Slots /\ SAVER \notin Slots
  /\ Slots \subseteq Nat /\ \A s \in Slots : s < SAVER
  /\ \A n \in Nat : n < SAVER => n \in Slots
<1>1. SAVER \in Nat /\ Slots = 0..(SAVER - 1)
  BY Numbers, LoaderAssumption DEF SAVER
<1> QED
  BY <1>1 DEF Jobs, PLAYER

LEMMA OneRowCalls ==
  ASSUME NEW l, Sound(l), NEW s \in Slots, l.jobs[s] = loader.jobs[s],
         NEW call, NEW thumb, CallFits(s, call, thumb), NEW m, m = row_calls(s, call, l)
  PROVE  /\ Sound(m) /\ m.id_job = l.id_job /\ m.jobs = [l.jobs EXCEPT ![s] = RowJob(s, call)]
         /\ Owed(m) - Held(thumb) = Owed(l) - Held(rows[s].thumb)
<1>1. /\ s \in Jobs /\ l.jobs \in [Jobs -> JobType] /\ Owed(l) \in Int
      /\ Held(rows[s].thumb) \in Int /\ Held(NoPath) = 0 /\ Held(loader.jobs[s].picture) \in Int
  BY SlotsAreJobs, OwedType, HeldIs DEF Sound, LoaderRecord
<1>2. CASE call = "drop"
  <2> DEFINE d == Discarded(l, s)
             n == Held(rows[s].thumb)
  <2>1. Leaves(l, d, s, Idle, 0)
    BY <1>1, DiscardLeaves
  <2>2. m = [d EXCEPT !.live = @ - n] /\ thumb = NoPath
    BY <1>2 DEF row_calls, row_drop_thumb, CallFits
  <2>3. RowJob(s, call) = Idle
    BY <1>2 DEF RowJob
  <2>4. n \in Int /\ Held(thumb) = 0
    BY <1>1, <2>2
  <2> HIDE DEF d, n
  <2>5. Sound(m) /\ m.jobs = d.jobs /\ m.id_job = d.id_job /\ Owed(m) = Owed(d) - n
    BY <2>1, <2>2, <2>4, FreeLeaves DEF Leaves
  <2> QED
    BY <1>1, <2>1, <2>3, <2>4, <2>5 DEF Leaves, n
<1>3. CASE call = "take"
  <2>1. m = Taken(l, s) /\ thumb = loader.jobs[s].picture /\ rows[s].thumb = NoPath /\ l.jobs[s].done
    BY <1>3 DEF row_calls, CallFits
  <2>2. Leaves(l, m, s, Idle, Held(thumb))
    BY <1>1, <2>1, TakeLeaves
  <2>3. RowJob(s, call) = Idle
    BY <1>3 DEF RowJob
  <2> QED
    BY <1>1, <2>1, <2>2, <2>3 DEF Leaves
<1>4. CASE call = "ask"
  <2>1. m = Requested(l, s, rows[s].of) /\ rows[s].of \in Paths /\ thumb = rows[s].thumb
    BY <1>4 DEF row_calls, CallFits
  <2>2. Leaves(l, m, s, RowJob(s, call), 0)
    BY <1>1, <1>4, <2>1, RequestLeaves DEF RowJob
  <2> QED
    BY <1>1, <2>1, <2>2 DEF Leaves
<1>5. CASE call = "none"
  <2>1. m = l /\ thumb = rows[s].thumb /\ RowJob(s, call) = l.jobs[s]
    BY <1>5 DEF row_calls, CallFits, RowJob
  <2> QED
    BY <1>1, <2>1
<1> QED
  BY <1>2, <1>3, <1>4, <1>5 DEF CallFits

\* The thumbnails there are.
Shown(thumbs) == Cardinality({s \in Slots : thumbs[s] # NoPath})

LEMMA ShownMoves ==
  ASSUME NEW f, NEW g, NEW x \in Slots, \A s \in Slots : s # x => f[s] = g[s]
  PROVE  /\ Shown(f) \in Nat /\ Shown(g) \in Nat
         /\ Shown(g) = Shown(f) - Held(f[x]) + Held(g[x])
<1> DEFINE A == {s \in Slots : f[s] # NoPath}
           B == {s \in Slots : g[s] # NoPath}
<1>1. A \in SUBSET Slots /\ B \in SUBSET Slots /\ A \ {x} = B \ {x} /\ IsFiniteSet(Slots)
  BY LoaderAssumption
<1>2. (x \in A <=> f[x] # NoPath) /\ (x \in B <=> g[x] # NoPath)
  OBVIOUS
<1>3. Shown(f) = Cardinality(A) /\ Shown(g) = Cardinality(B)
  BY DEF Shown
<1> HIDE DEF A, B
<1>4. /\ Cardinality(A) \in Nat /\ Cardinality(B) \in Nat
      /\ Cardinality(B) = Cardinality(A) - (IF x \in A THEN 1 ELSE 0) + (IF x \in B THEN 1 ELSE 0)
  BY <1>1, CountMoves
<1> QED
  BY <1>2, <1>3, <1>4 DEF Held

\* The rows' thumbnails as they are.
Thumbs == [s \in Slots |-> rows[s].thumb]

\* What the loop over the rows leaves: each row's job after its call, the
\* others' as they were, and no picture lost or held twice.
LEMMA RowsCalled ==
  ASSUME Sound(loader), NEW calls, NEW thumbs, \A s \in Slots : CallFits(s, calls[s], thumbs[s]),
         NEW l, l = AllRowsCall(calls)
  PROVE  /\ Sound(l) /\ l.id_job = loader.id_job
         /\ \A j \in Jobs : l.jobs[j] = IF j \in Slots THEN RowJob(j, calls[j]) ELSE loader.jobs[j]
         /\ Owed(l) - Shown(thumbs) = Owed(loader) - Shown(Thumbs)
         /\ Unanswered(loader, l)
<1>1. PICK after : /\ \A n \in 0..SAVER :
                        after[n] = IF n = 0 THEN loader ELSE row_calls(n - 1, calls[n - 1], after[n - 1])
                   /\ l = after[SAVER]
  BY AllRowsCallIsDefined
<1> DEFINE Mix(n) == [s \in Slots |-> IF s < n THEN thumbs[s] ELSE rows[s].thumb]
           Fine(m, n) ==
             /\ Sound(m) /\ m.id_job = loader.id_job
             /\ \A j \in Jobs : m.jobs[j] = IF j \in Slots /\ j < n THEN RowJob(j, calls[j]) ELSE loader.jobs[j]
             /\ Owed(m) - Shown(Mix(n)) = Owed(loader) - Shown(Thumbs)
           Good == {n \in Nat : n <= SAVER => Fine(after[n], n)}
<1>2. 0 \in Good
  <2>1. \A s \in Slots : ~(s < 0)
    BY SlotsAreJobs
  <2>2. Mix(0) = Thumbs
    BY <2>1 DEF Thumbs
  <2>3. after[0] = loader
    BY <1>1, Numbers
  <2> HIDE DEF Mix
  <2>4. Fine(loader, 0)
    BY <2>1, <2>2
  <2> HIDE DEF Fine
  <2> QED
    BY <2>3, <2>4
<1>3. ASSUME NEW n \in Nat, n \in Good PROVE n + 1 \in Good
  <2> SUFFICES ASSUME n + 1 <= SAVER PROVE Fine(after[n + 1], n + 1)
    OBVIOUS
  <2> DEFINE b == after[n]
             m == after[n + 1]
  <2>1. n \in Slots /\ n \in Jobs
    BY Numbers, SlotsAreJobs
  <2>2. Fine(b, n)
    <3>1. n <= SAVER
      BY Numbers
    <3> HIDE DEF Fine
    <3> QED
      BY <1>3, <3>1
  <2>3. m = row_calls(n, calls[n], b)
    <3>1. n + 1 \in 0..SAVER /\ n + 1 # 0 /\ (n + 1) - 1 = n
      BY Numbers
    <3> QED
      BY <1>1, <3>1
  <2> HIDE DEF b, m
  <2>4. b.jobs[n] = loader.jobs[n] /\ Sound(b)
    BY <2>1, <2>2
  <2>5. /\ Sound(m) /\ m.id_job = b.id_job /\ m.jobs = [b.jobs EXCEPT ![n] = RowJob(n, calls[n])]
        /\ Owed(m) - Held(thumbs[n]) = Owed(b) - Held(rows[n].thumb)
    BY <2>1, <2>3, <2>4, OneRowCalls
  <2>6. b.jobs \in [Jobs -> JobType]
    BY <2>4 DEF Sound, LoaderRecord
  <2>7. \A j \in Jobs : m.jobs[j] = IF j \in Slots /\ j < n + 1 THEN RowJob(j, calls[j]) ELSE loader.jobs[j]
    <3>1. SUFFICES ASSUME NEW j \in Jobs
                   PROVE  m.jobs[j] = IF j \in Slots /\ j < n + 1 THEN RowJob(j, calls[j]) ELSE loader.jobs[j]
      OBVIOUS
    <3>2. CASE j = n
      BY <2>1, <2>5, <2>6, <3>2
    <3>3. CASE j # n
      <4>1. m.jobs[j] = b.jobs[j]
        BY <2>5, <2>6, <3>3
      <4>2. j \in Slots => (j < n + 1 <=> j < n)
        BY <3>3, SlotsAreJobs
      <4> QED
        BY <2>2, <4>1, <4>2
    <3> QED
      BY <3>2, <3>3
  <2>8. /\ Shown(Mix(n)) \in Nat /\ Shown(Mix(n + 1)) \in Nat
        /\ Shown(Mix(n + 1)) = Shown(Mix(n)) - Held(rows[n].thumb) + Held(thumbs[n])
    <3>1. \A s \in Slots : s # n => Mix(n)[s] = Mix(n + 1)[s]
      BY SlotsAreJobs
    <3>2. Mix(n)[n] = rows[n].thumb /\ Mix(n + 1)[n] = thumbs[n]
      BY <2>1
    <3> HIDE DEF Mix
    <3>3. /\ Shown(Mix(n)) \in Nat /\ Shown(Mix(n + 1)) \in Nat
          /\ Shown(Mix(n + 1)) = Shown(Mix(n)) - Held(Mix(n)[n]) + Held(Mix(n + 1)[n])
      BY <2>1, <3>1, ShownMoves
    <3> QED
      BY <3>2, <3>3
  <2> HIDE DEF Mix
  <2>9. Owed(m) - Shown(Mix(n + 1)) = Owed(loader) - Shown(Thumbs)
    <3>1. Owed(m) \in Int /\ Owed(b) \in Int /\ Held(thumbs[n]) \in Int /\ Held(rows[n].thumb) \in Int
      BY <2>4, <2>5, OwedType, HeldIs
    <3> QED
      BY <2>2, <2>5, <2>8, <3>1
  <2> QED
    BY <2>2, <2>5, <2>7, <2>9 DEF m
<1>4. Fine(l, SAVER)
  <2> HIDE DEF Fine
  <2>1. Nat \subseteq Good
    <3> HIDE DEF Good
    <3> QED
      BY <1>2, <1>3, Induction
  <2> QED
    BY <1>1, <2>1, Numbers
<1>5. Shown(Mix(SAVER)) = Shown(thumbs)
  <2>1. \A s \in Slots : Mix(SAVER)[s] = thumbs[s]
    BY SlotsAreJobs
  <2> HIDE DEF Mix
  <2>2. {s \in Slots : Mix(SAVER)[s] # NoPath} = {s \in Slots : thumbs[s] # NoPath}
    BY <2>1
  <2> QED
    BY <2>2 DEF Shown
<1>6. \A s \in Slots : RowJob(s, calls[s]).done => RowJob(s, calls[s]) = loader.jobs[s]
  BY DEF CallFits, RowJob, Idle
<1> HIDE DEF Mix
<1> QED
  BY <1>4, <1>5, <1>6, SlotsAreJobs DEF Unanswered

\* What the actions of the rows do.
RowsTurn ==
  /\ RowsInv' /\ Sound(loader') /\ loader'.id_job = loader.id_job
  /\ \A j \in Jobs : j \notin Slots => loader'.jobs[j] = loader.jobs[j]
  /\ Owed(loader') - Shown(Thumbs') = Owed(loader) - Shown(Thumbs)
  /\ Unanswered(loader, loader')
  /\ UNCHANGED <<player, saver>>

LEMMA RowsScroll ==
  ASSUME Sound(loader), RowsInv, list_scrolls
  PROVE  RowsTurn
<1>1. PICK entries \in [Slots -> Listed \cup {NoPath}] :
        LET rebound == {s \in Slots : entries[s] # rows[s].of} IN
          /\ loader' = AllRowsCall([s \in Slots |-> IF s \in rebound THEN "drop" ELSE "none"])
          /\ rows' = [s \in Slots |->
                        IF s \in rebound
                        THEN [of |-> entries[s], requested |-> FALSE, settled |-> FALSE, thumb |-> NoPath]
                        ELSE rows[s]]
          /\ listing' = TRUE
          /\ UNCHANGED <<player, saver>>
  BY DEF list_scrolls
<1> DEFINE rebound == {s \in Slots : entries[s] # rows[s].of}
           calls == [s \in Slots |-> IF s \in rebound THEN "drop" ELSE "none"]
<1>2. \A s \in Slots : IF s \in rebound
                       THEN /\ rows'[s].of = entries[s] /\ ~rows'[s].requested /\ ~rows'[s].settled
                            /\ rows'[s].thumb = NoPath /\ rows'[s] \in RowType
                       ELSE rows'[s] = rows[s]
  <2>1. \A s \in Slots : entries[s] \in Files
    BY CoversAssumption DEF Files
  <2> QED
    BY <1>1, <2>1 DEF RowType, Files
<1>3. loader' = AllRowsCall(calls) /\ listing' = TRUE /\ UNCHANGED <<player, saver>>
  BY <1>1
<1>4. \A s \in Slots : CallFits(s, calls[s], Thumbs'[s]) /\ calls[s] = IF s \in rebound THEN "drop" ELSE "none"
  BY <1>2 DEF CallFits, Thumbs
<1>5. rows' \in [Slots -> RowType]
  <2>1. \A s \in Slots : rows'[s] \in RowType
    BY <1>2 DEF RowsInv
  <2>2. rows' = [s \in Slots |-> rows'[s]]
    BY <1>1
  <2> QED
    BY <2>1, <2>2
<1> HIDE DEF calls, rebound
<1>6. /\ Sound(loader') /\ loader'.id_job = loader.id_job
      /\ \A j \in Jobs : loader'.jobs[j] = IF j \in Slots THEN RowJob(j, calls[j]) ELSE loader.jobs[j]
      /\ Owed(loader') - Shown(Thumbs') = Owed(loader) - Shown(Thumbs)
      /\ Unanswered(loader, loader')
  BY <1>3, <1>4, RowsCalled
<1>7. RowsInv'
  <2>1. ASSUME NEW s \in Slots
        PROVE  /\ rows'[s].thumb \in {NoPath, rows'[s].of}
               /\ Unsettled(s)' => rows'[s].thumb = NoPath
               /\ Unsettled(s)' /\ rows'[s].requested => loader'.jobs[s].path = rows'[s].of
    <3>1. CASE s \in rebound
      BY <1>2, <3>1
    <3>2. CASE s \notin rebound
      <4>1. rows'[s] = rows[s] /\ loader'.jobs[s] = loader.jobs[s]
        BY <1>2, <1>4, <1>6, <3>2, SlotsAreJobs DEF RowJob
      <4> QED
        BY <4>1 DEF RowsInv, Unsettled
    <3> QED
      BY <3>1, <3>2
  <2> QED
    BY <1>3, <1>5, <2>1 DEF RowsInv
<1> QED
  BY <1>3, <1>6, <1>7 DEF RowsTurn

LEMMA RowsUpdate ==
  ASSUME Sound(loader), RowsInv, thumbs_update
  PROVE  RowsTurn
<1> DEFINE calls == [s \in Slots |-> row_updates(s)]
<1>1. /\ loader' = AllRowsCall(calls) /\ listing' \in BOOLEAN /\ UNCHANGED <<player, saver>>
      /\ rows' = [s \in Slots |->
                    IF Collects(s) THEN [rows[s] EXCEPT !.settled = TRUE, !.thumb = loader.jobs[s].picture]
                    ELSE IF Unsettled(s) THEN [rows[s] EXCEPT !.requested = TRUE]
                    ELSE rows[s]]
  BY DEF thumbs_update
<1>2. ASSUME NEW s \in Slots
      PROVE  /\ rows[s] \in RowType /\ loader.jobs[s] \in JobType /\ Tidy(loader.jobs[s])
             /\ rows'[s] \in RowType /\ rows'[s].of = rows[s].of
             /\ CallFits(s, calls[s], rows'[s].thumb)
             /\ rows'[s].thumb \in {NoPath, rows'[s].of}
             /\ (rows'[s].of # NoPath /\ ~rows'[s].settled) => rows'[s].thumb = NoPath
             /\ (rows'[s].of # NoPath /\ ~rows'[s].settled) /\ rows'[s].requested
                  => RowJob(s, calls[s]).path = rows'[s].of
  <2>1. rows[s] \in RowType /\ loader.jobs[s] \in JobType /\ Tidy(loader.jobs[s])
    BY SlotsAreJobs DEF RowsInv, Sound, LoaderRecord
  <2>2. CASE Collects(s)
    <3>1. rows'[s] = [rows[s] EXCEPT !.settled = TRUE, !.thumb = loader.jobs[s].picture] /\ calls[s] = "take"
      BY <1>1, <2>2 DEF row_updates
    <3>2. /\ rows'[s] \in RowType /\ rows'[s].of = rows[s].of /\ rows'[s].settled
          /\ rows'[s].thumb = loader.jobs[s].picture
      BY <2>1, <3>1 DEF RowType, JobType
    <3>3. loader.jobs[s].done /\ rows[s].thumb = NoPath /\ loader.jobs[s].path = rows[s].of
      BY <2>2 DEF RowsInv, Collects
    <3>4. CallFits(s, calls[s], rows'[s].thumb)
      BY <3>1, <3>2, <3>3 DEF CallFits
    <3> HIDE DEF calls
    <3> QED
      BY <2>1, <3>2, <3>3, <3>4 DEF Tidy
  <2>3. CASE ~Collects(s) /\ Unsettled(s)
    <3>1. rows'[s] = [rows[s] EXCEPT !.requested = TRUE]
      BY <1>1, <2>3
    <3>2. /\ rows'[s] \in RowType /\ rows'[s].of = rows[s].of /\ rows'[s].settled = rows[s].settled
          /\ rows'[s].thumb = rows[s].thumb
      BY <2>1, <3>1 DEF RowType
    <3>3. rows[s].of \in Paths /\ rows[s].thumb = NoPath
      BY <2>1, <2>3 DEF RowsInv, Unsettled, RowType, Files
    <3>4. CASE rows[s].requested
      <4>1. calls[s] = "none" /\ loader.jobs[s].path = rows[s].of
        BY <2>3, <3>4 DEF row_updates, RowsInv
      <4>2. CallFits(s, calls[s], rows'[s].thumb) /\ RowJob(s, calls[s]) = loader.jobs[s]
        BY <3>2, <4>1 DEF CallFits, RowJob
      <4> HIDE DEF calls
      <4> QED
        BY <2>1, <3>2, <3>3, <4>1, <4>2
    <3>5. CASE ~rows[s].requested
      <4>1. calls[s] = "ask"
        BY <2>3, <3>5 DEF row_updates
      <4>2. CallFits(s, calls[s], rows'[s].thumb) /\ RowJob(s, calls[s]).path = rows[s].of
        BY <3>2, <3>3, <4>1 DEF CallFits, RowJob, Idle
      <4> HIDE DEF calls
      <4> QED
        BY <2>1, <3>2, <3>3, <4>1, <4>2
    <3> QED
      BY <3>4, <3>5
  <2>4. CASE ~Collects(s) /\ ~Unsettled(s)
    <3>1. rows'[s] = rows[s] /\ calls[s] = "none"
      BY <1>1, <2>4 DEF row_updates
    <3>2. CallFits(s, calls[s], rows'[s].thumb)
      BY <3>1 DEF CallFits
    <3> HIDE DEF calls
    <3> QED
      BY <2>1, <2>4, <3>1, <3>2 DEF RowsInv, Unsettled
  <2> QED
    BY <2>2, <2>3, <2>4
<1> HIDE DEF calls
<1>3. \A s \in Slots : CallFits(s, calls[s], Thumbs'[s])
  BY <1>2 DEF Thumbs
<1>4. /\ Sound(loader') /\ loader'.id_job = loader.id_job
      /\ \A j \in Jobs : loader'.jobs[j] = IF j \in Slots THEN RowJob(j, calls[j]) ELSE loader.jobs[j]
      /\ Owed(loader') - Shown(Thumbs') = Owed(loader) - Shown(Thumbs)
      /\ Unanswered(loader, loader')
  BY <1>1, <1>3, RowsCalled
<1>5. rows' \in [Slots -> RowType]
  <2>1. rows' = [s \in Slots |-> rows'[s]]
    BY <1>1
  <2> QED
    BY <1>2, <2>1
<1>6. RowsInv'
  <2>1. ASSUME NEW s \in Slots
        PROVE  /\ rows'[s].thumb \in {NoPath, rows'[s].of}
               /\ Unsettled(s)' => rows'[s].thumb = NoPath
               /\ Unsettled(s)' /\ rows'[s].requested => loader'.jobs[s].path = rows'[s].of
    <3>1. loader'.jobs[s] = RowJob(s, calls[s])
      BY <1>4, SlotsAreJobs
    <3> QED
      BY <1>2, <3>1 DEF Unsettled
  <2>2. listing' \in BOOLEAN
    BY <1>1
  <2> QED
    BY <1>5, <2>1, <2>2 DEF RowsInv
<1> QED
  BY <1>1, <1>4, <1>6 DEF RowsTurn

-----------------------------------------------------------------------------
(* The screensaver. *)

SaverType == [images : BOOLEAN, pending : BOOLEAN, next : Files, image : Files, visible : BOOLEAN]

SaverInv(w) == w = Kept(w.loader, w.saver) /\ Sound(w.loader) /\ w.saver \in SaverType

SaverOwes(w) == Owed(w.loader) - Held(w.saver.next) - Held(w.saver.image)

SaverTurns(w, v) ==
  /\ SaverInv(v) /\ SaverOwes(v) = SaverOwes(w)
  /\ v.loader.id_job = w.loader.id_job /\ Unanswered(w.loader, v.loader)
  /\ \A j \in Jobs : j # SAVER => v.loader.jobs[j] = w.loader.jobs[j]

LEMMA KeptIs == ASSUME NEW l, NEW v PROVE Kept(l, v).loader = l /\ Kept(l, v).saver = v
BY DEF Kept

LEMMA SaverTurnsInTurn ==
  ASSUME NEW u, NEW v, NEW w, SaverTurns(u, v), SaverTurns(v, w)
  PROVE  SaverTurns(u, w)
BY DEF SaverTurns, Unanswered

LEMMA SaverTurnsWhen ==
  ASSUME NEW w, NEW l, NEW v, Sound(l), v \in SaverType, l.id_job = w.loader.id_job,
         Owed(l) - Held(v.next) - Held(v.image) = SaverOwes(w), Unanswered(w.loader, l),
         \A j \in Jobs : j # SAVER => l.jobs[j] = w.loader.jobs[j]
  PROVE  SaverTurns(w, Kept(l, v))
<1> DEFINE u == Kept(l, v)
<1>1. u.loader = l /\ u.saver = v /\ u = Kept(l, v)
  BY KeptIs
<1> HIDE DEF u
<1>2. SaverInv(u) /\ SaverOwes(u) = SaverOwes(w)
  BY <1>1 DEF SaverInv, SaverOwes
<1>3. /\ u.loader.id_job = w.loader.id_job /\ Unanswered(w.loader, u.loader)
      /\ \A j \in Jobs : j # SAVER => u.loader.jobs[j] = w.loader.jobs[j]
  BY <1>1
<1>4. SaverTurns(w, u)
  BY <1>2, <1>3 DEF SaverTurns
<1> QED
  BY <1>4 DEF u

\* A field of the screensaver that is none of its pictures.
LEMMA SaverFlags ==
  ASSUME NEW w, SaverInv(w), NEW b \in BOOLEAN
  PROVE  /\ SaverTurns(w, [w EXCEPT !.saver.visible = b])
         /\ SaverTurns(w, [w EXCEPT !.saver.images = b])
<1>1. w = [loader |-> w.loader, saver |-> w.saver]
  BY Zenon DEF SaverInv, Kept
<1>2. w.saver \in SaverType /\ Sound(w.loader)
  BY DEF SaverInv
<1> DEFINE v == [w.saver EXCEPT !.visible = b]
           i == [w.saver EXCEPT !.images = b]
<1>3. [w EXCEPT !.saver.visible = b] = Kept(w.loader, v) /\ [w EXCEPT !.saver.images = b] = Kept(w.loader, i)
  <2>1. [w EXCEPT !.saver.visible = b] = [w EXCEPT !.saver = v] /\ [w EXCEPT !.saver.images = b] = [w EXCEPT !.saver = i]
    OBVIOUS
  <2> HIDE DEF v, i
  <2>2. [w EXCEPT !.saver = v] = Kept(w.loader, v) /\ [w EXCEPT !.saver = i] = Kept(w.loader, i)
    BY <1>1 DEF Kept
  <2> QED
    BY <2>1, <2>2
<1>4. /\ v \in SaverType /\ v.next = w.saver.next /\ v.image = w.saver.image
      /\ i \in SaverType /\ i.next = w.saver.next /\ i.image = w.saver.image
  BY <1>2 DEF SaverType
<1> HIDE DEF v, i
<1>5. SaverTurns(w, Kept(w.loader, v)) /\ SaverTurns(w, Kept(w.loader, i))
  BY <1>2, <1>4, SaverTurnsWhen DEF SaverOwes, Unanswered
<1> QED
  BY <1>3, <1>5

LEMMA SaverRequests ==
  ASSUME NEW w, SaverInv(w), NEW path \in Photographs \cup {NoPath}
  PROVE  SaverTurns(w, request_next(w, path))
<1>1. CASE ~w.saver.images \/ w.saver.next # NoPath \/ w.saver.pending \/ path = NoPath
  BY <1>1 DEF request_next, SaverTurns, Unanswered
<1>2. CASE ~(~w.saver.images \/ w.saver.next # NoPath \/ w.saver.pending \/ path = NoPath)
  <2> DEFINE l == Requested(w.loader, SAVER, path)
             v == [w.saver EXCEPT !.pending = TRUE]
             job == [Idle EXCEPT !.path = path, !.pending = TRUE]
  <2>1. request_next(w, path) = Kept(l, v)
    BY <1>2 DEF request_next
  <2>2. w.saver \in SaverType /\ Sound(w.loader) /\ path \in Paths
    BY <1>2, CoversAssumption DEF SaverInv
  <2>3. Leaves(w.loader, l, SAVER, job, 0)
    BY <2>2, Numbers, RequestLeaves
  <2>4. v \in SaverType /\ v.next = w.saver.next /\ v.image = w.saver.image
    BY <2>2 DEF SaverType
  <2>5. w.loader.jobs \in [Jobs -> JobType] /\ Owed(w.loader) \in Int
    BY <2>2, OwedType DEF Sound, LoaderRecord
  <2> HIDE DEF l, v, job
  <2>6. /\ Sound(l) /\ l.id_job = w.loader.id_job /\ Owed(l) = Owed(w.loader)
        /\ \A j \in Jobs : j # SAVER => l.jobs[j] = w.loader.jobs[j]
        /\ Unanswered(w.loader, l)
    BY <2>3, <2>5 DEF Leaves, Unanswered
  <2>7. SaverTurns(w, Kept(l, v))
    BY <2>4, <2>6, SaverTurnsWhen DEF SaverOwes, Unanswered
  <2> QED
    BY <2>1, <2>7
<1> QED
  BY <1>1, <1>2

LEMMA SaverCollects ==
  ASSUME NEW w, SaverInv(w)
  PROVE  SaverTurns(w, collect_next(w))
<1> DEFINE job == w.loader.jobs[SAVER]
           l == Taken(w.loader, SAVER)
           n == Held(w.saver.next)
           m == [l EXCEPT !.live = @ - n]
<1>1. /\ w.saver \in SaverType /\ Sound(w.loader) /\ job \in JobType /\ Tidy(job)
      /\ w.loader.jobs \in [Jobs -> JobType] /\ Owed(w.loader) \in Int
      /\ n \in Int /\ Held(job.picture) \in Int /\ Held(NoPath) = 0 /\ Held(w.saver.image) \in Int
  BY Numbers, OwedType, HeldIs DEF SaverInv, Sound, LoaderRecord
<1>2. CASE ~w.saver.pending \/ ~job.done
  BY <1>2 DEF collect_next, SaverTurns, Unanswered
<1>3. CASE w.saver.pending /\ job.done
  <2>1. Leaves(w.loader, l, SAVER, Idle, Held(job.picture))
    BY <1>1, <1>3, Numbers, TakeLeaves
  <2> HIDE DEF l
  <2>2. /\ Sound(l) /\ l.id_job = w.loader.id_job /\ Owed(l) = Owed(w.loader) + Held(job.picture)
        /\ \A j \in Jobs : j # SAVER => l.jobs[j] = w.loader.jobs[j]
        /\ Unanswered(w.loader, l)
    BY <1>1, <2>1 DEF Leaves, Unanswered
  <2>3. CASE ~job.found
    <3> DEFINE v == [w.saver EXCEPT !.pending = FALSE]
    <3>1. collect_next(w) = Kept(l, v)
      BY <1>3, <2>3 DEF collect_next, l
    <3>2. v \in SaverType /\ v.next = w.saver.next /\ v.image = w.saver.image
      BY <1>1 DEF SaverType
    <3>3. Held(job.picture) = 0
      BY <1>1, <2>3 DEF Tidy
    <3> HIDE DEF v, job
    <3>4. SaverTurns(w, Kept(l, v))
      BY <1>1, <2>2, <3>2, <3>3, SaverTurnsWhen DEF SaverOwes, Unanswered
    <3> QED
      BY <3>1, <3>4
  <2>4. CASE job.found
    <3> DEFINE v == [w.saver EXCEPT !.pending = FALSE, !.next = job.picture]
    <3>1. collect_next(w) = Kept(m, v)
      BY <1>3, <2>4 DEF collect_next, l
    <3>2. v \in SaverType /\ v.next = job.picture /\ v.image = w.saver.image
      BY <1>1 DEF SaverType, JobType
    <3>3. Sound(m) /\ m.jobs = l.jobs /\ m.id_job = l.id_job /\ Owed(m) = Owed(l) - n
      <4> HIDE DEF n
      <4> QED
        BY <1>1, <2>2, FreeLeaves
    <3> HIDE DEF v, job, m
    <3>4. Owed(m) - Held(v.next) - Held(v.image) = SaverOwes(w)
      BY <1>1, <2>2, <3>2, <3>3 DEF SaverOwes
    <3>5. SaverTurns(w, Kept(m, v))
      BY <2>2, <3>2, <3>3, <3>4, SaverTurnsWhen DEF Unanswered
    <3> QED
      BY <3>1, <3>5
  <2> QED
    BY <2>3, <2>4
<1> QED
  BY <1>2, <1>3

LEMMA SaverPromotes ==
  ASSUME NEW w, SaverInv(w)
  PROVE  SaverTurns(w, promote_next(w))
<1>1. CASE w.saver.next = NoPath
  BY <1>1 DEF promote_next, SaverTurns, Unanswered
<1>2. CASE w.saver.next # NoPath
  <2> DEFINE n == Held(w.saver.image)
             m == [w.loader EXCEPT !.live = @ - n]
             v == [w.saver EXCEPT !.image = w.saver.next, !.next = NoPath]
  <2>1. promote_next(w) = Kept(m, v)
    BY <1>2 DEF promote_next
  <2>2. /\ w.saver \in SaverType /\ Sound(w.loader) /\ Owed(w.loader) \in Int
        /\ n \in Int /\ Held(w.saver.next) \in Int /\ Held(NoPath) = 0
    BY OwedType, HeldIs DEF SaverInv
  <2>3. v \in SaverType /\ v.next = NoPath /\ v.image = w.saver.next
    BY <2>2 DEF SaverType, Files
  <2>4. Sound(m) /\ m.jobs = w.loader.jobs /\ m.id_job = w.loader.id_job /\ Owed(m) = Owed(w.loader) - n
    <3> HIDE DEF n
    <3> QED
      BY <2>2, FreeLeaves
  <2> HIDE DEF m, v
  <2>5. Owed(m) - Held(v.next) - Held(v.image) = SaverOwes(w)
    BY <2>2, <2>3, <2>4 DEF SaverOwes
  <2>6. SaverTurns(w, Kept(m, v))
    BY <2>3, <2>4, <2>5, SaverTurnsWhen DEF Unanswered
  <2> QED
    BY <2>1, <2>6
<1> QED
  BY <1>1, <1>2

LEMMA SaverDropsNext ==
  ASSUME NEW w, SaverInv(w)
  PROVE  SaverTurns(w, drop_next(w))
<1> DEFINE l == IF w.saver.pending THEN Discarded(w.loader, SAVER) ELSE w.loader
           n == Held(w.saver.next)
           m == [l EXCEPT !.live = @ - n]
           v == [w.saver EXCEPT !.pending = FALSE, !.next = NoPath]
<1>1. drop_next(w) = Kept(m, v)
  BY DEF drop_next
<1>2. /\ w.saver \in SaverType /\ Sound(w.loader) /\ w.loader.jobs \in [Jobs -> JobType]
      /\ Owed(w.loader) \in Int
      /\ n \in Int /\ Held(w.saver.image) \in Int /\ Held(NoPath) = 0
  BY OwedType, HeldIs DEF SaverInv, Sound, LoaderRecord
<1>3. /\ Sound(l) /\ l.id_job = w.loader.id_job /\ Owed(l) = Owed(w.loader)
      /\ \A j \in Jobs : j # SAVER => l.jobs[j] = w.loader.jobs[j]
      /\ Unanswered(w.loader, l)
  <2>1. CASE w.saver.pending
    <3>1. Leaves(w.loader, l, SAVER, Idle, 0)
      BY <1>2, <2>1, Numbers, DiscardLeaves
    <3> HIDE DEF l
    <3> QED
      BY <1>2, <3>1 DEF Leaves, Unanswered
  <2>2. CASE ~w.saver.pending
    BY <1>2, <2>2 DEF Unanswered
  <2> QED
    BY <2>1, <2>2
<1>4. v \in SaverType /\ v.next = NoPath /\ v.image = w.saver.image
  BY <1>2 DEF SaverType, Files
<1>5. Sound(m) /\ m.jobs = l.jobs /\ m.id_job = l.id_job /\ Owed(m) = Owed(l) - n
  <2> HIDE DEF n, l
  <2> QED
    BY <1>2, <1>3, FreeLeaves
<1> HIDE DEF l, m, v
<1>6. Owed(m) - Held(v.next) - Held(v.image) = SaverOwes(w)
  BY <1>2, <1>3, <1>4, <1>5 DEF SaverOwes
<1>7. SaverTurns(w, Kept(m, v))
  BY <1>3, <1>4, <1>5, <1>6, SaverTurnsWhen DEF Unanswered
<1> QED
  BY <1>1, <1>7

LEMMA SaverDropsImage ==
  ASSUME NEW w, SaverInv(w)
  PROVE  SaverTurns(w, drop_image(w))
<1> DEFINE n == Held(w.saver.image)
           m == [w.loader EXCEPT !.live = @ - n]
           v == [w.saver EXCEPT !.image = NoPath]
<1>1. drop_image(w) = Kept(m, v)
  BY DEF drop_image
<1>2. /\ w.saver \in SaverType /\ Sound(w.loader) /\ Owed(w.loader) \in Int
      /\ n \in Int /\ Held(w.saver.next) \in Int /\ Held(NoPath) = 0
  BY OwedType, HeldIs DEF SaverInv
<1>3. v \in SaverType /\ v.next = w.saver.next /\ v.image = NoPath
  BY <1>2 DEF SaverType, Files
<1>4. Sound(m) /\ m.jobs = w.loader.jobs /\ m.id_job = w.loader.id_job /\ Owed(m) = Owed(w.loader) - n
  <2> HIDE DEF n
  <2> QED
    BY <1>2, FreeLeaves
<1> HIDE DEF m, v
<1>5. Owed(m) - Held(v.next) - Held(v.image) = SaverOwes(w)
  BY <1>2, <1>3, <1>4 DEF SaverOwes
<1>6. SaverTurns(w, Kept(m, v))
  BY <1>3, <1>4, <1>5, SaverTurnsWhen DEF Unanswered
<1> QED
  BY <1>1, <1>6

\* Sleeping is a state function: what it is after a step.
LEMMA SaverMoves ==
  ASSUME SaverInv(Sleeping), SaverSteps
  PROVE  SaverTurns(Sleeping, Sleeping') /\ UNCHANGED <<player, rows, listing>>
<1>0. Sleeping.loader = loader /\ Sleeping.saver = saver /\ Sleeping' = Kept(loader', saver')
  BY KeptIs DEF Sleeping, Kept
<1>1. ASSUME NEW w, SaverTurns(Sleeping, w), OfSaver(w)
      PROVE  SaverTurns(Sleeping, Sleeping') /\ UNCHANGED <<player, rows, listing>>
  <2>1. w = Kept(loader', saver') /\ UNCHANGED <<player, rows, listing>>
    BY <1>1 DEF OfSaver, SaverTurns, SaverInv
  <2> QED
    BY <1>0, <1>1, <2>1
<1>2. SaverTurns(Sleeping, collect_next(Sleeping))
  BY SaverCollects
<1>3. CASE screensaver_prepare
  <2>1. PICK waking \in BOOLEAN, path \in Photographs \cup {NoPath} :
          LET w == collect_next(Sleeping)
              up == [(IF waking \/ ~saver.visible THEN promote_next(w) ELSE w) EXCEPT !.saver.visible = TRUE]
          IN  OfSaver(IF waking THEN up ELSE request_next(up, path))
    BY <1>3 DEF screensaver_prepare
  <2> DEFINE w == collect_next(Sleeping)
             u == IF waking \/ ~saver.visible THEN promote_next(w) ELSE w
             up == [u EXCEPT !.saver.visible = TRUE]
             r == IF waking THEN up ELSE request_next(up, path)
  <2>2. OfSaver(r)
    BY <2>1
  <2>3. SaverTurns(Sleeping, u)
    <3>1. SaverInv(w)
      BY <1>2 DEF SaverTurns
    <3>2. SaverTurns(w, promote_next(w))
      BY <3>1, SaverPromotes
    <3> HIDE DEF w
    <3>3. SaverTurns(Sleeping, promote_next(w))
      BY <1>2, <3>2, SaverTurnsInTurn DEF w
    <3> QED
      BY <1>2, <3>3 DEF w
  <2> HIDE DEF u
  <2>4. SaverTurns(Sleeping, up) /\ SaverInv(up)
    <3>1. SaverTurns(u, up)
      BY <2>3, SaverFlags DEF SaverTurns
    <3> HIDE DEF up
    <3> QED
      BY <2>3, <3>1, SaverTurnsInTurn DEF SaverTurns
  <2> HIDE DEF up
  <2>5. SaverTurns(Sleeping, r)
    <3>1. SaverTurns(up, request_next(up, path))
      BY <2>4, SaverRequests
    <3>2. SaverTurns(Sleeping, request_next(up, path))
      BY <2>4, <3>1, SaverTurnsInTurn
    <3> QED
      BY <2>4, <3>2
  <2> HIDE DEF r
  <2> QED
    BY <1>1, <2>2, <2>5
<1>4. CASE clock_timer_cb
  BY <1>1, <1>2, <1>4 DEF clock_timer_cb
<1>5. CASE finish_hide
  <2> DEFINE w == drop_next(drop_image(Sleeping))
             v == [w EXCEPT !.saver.visible = FALSE]
  <2>1. SaverTurns(Sleeping, drop_image(Sleeping))
    BY SaverDropsImage
  <2>2. SaverTurns(drop_image(Sleeping), w)
    BY <2>1, SaverDropsNext DEF SaverTurns
  <2> HIDE DEF w
  <2>3. SaverTurns(w, v)
    BY <2>2, SaverFlags DEF SaverTurns
  <2>4. OfSaver(v)
    BY <1>5 DEF finish_hide, w
  <2> HIDE DEF v
  <2>5. SaverTurns(Sleeping, v)
    BY <2>1, <2>2, <2>3, SaverTurnsInTurn
  <2> QED
    BY <1>1, <2>4, <2>5
<1>6. CASE source_changes
  <2>1. ASSUME NEW path \in Photographs \cup {NoPath},
               OfSaver(request_next([Sleeping EXCEPT !.saver.images = TRUE], path))
        PROVE  SaverTurns(Sleeping, Sleeping') /\ UNCHANGED <<player, rows, listing>>
    <3> DEFINE w == [Sleeping EXCEPT !.saver.images = TRUE]
    <3>1. SaverTurns(Sleeping, w)
      BY SaverFlags
    <3>2. OfSaver(request_next(w, path))
      BY <2>1
    <3> HIDE DEF w
    <3>3. SaverTurns(w, request_next(w, path))
      BY <3>1, SaverRequests DEF SaverTurns
    <3>4. SaverTurns(Sleeping, request_next(w, path))
      BY <3>1, <3>3, SaverTurnsInTurn
    <3> QED
      BY <1>1, <3>2, <3>4
  <2>2. SaverTurns(Sleeping, drop_next(Sleeping))
    BY SaverDropsNext
  <2>3. ASSUME OfSaver([drop_next(Sleeping) EXCEPT !.saver.images = FALSE])
        PROVE  SaverTurns(Sleeping, Sleeping') /\ UNCHANGED <<player, rows, listing>>
    <3> DEFINE w == drop_next(Sleeping)
               v == [w EXCEPT !.saver.images = FALSE]
    <3>1. SaverTurns(Sleeping, w) /\ OfSaver(v)
      BY <2>2, <2>3
    <3> HIDE DEF w
    <3>2. SaverTurns(w, v)
      BY <3>1, SaverFlags DEF SaverTurns
    <3> HIDE DEF v
    <3>3. SaverTurns(Sleeping, v)
      BY <3>1, <3>2, SaverTurnsInTurn
    <3> QED
      BY <1>1, <3>1, <3>3
  <2> QED
    BY <1>1, <1>6, <2>1, <2>2, <2>3 DEF source_changes
<1> QED
  BY <1>3, <1>4, <1>5, <1>6 DEF SaverSteps

-----------------------------------------------------------------------------
(* All of them. *)

\* The inductive invariant: what each keeps, and whose the pictures are.
CoversInv ==
  /\ PlayerInv(Now) /\ RowsInv /\ saver \in SaverType
  /\ Owed(loader) = Shown(Thumbs) + Held(player.cover) + Held(saver.next) + Held(saver.image)

LEMMA NowIs ==
  /\ Now.loader = loader /\ Now.player = player
  /\ Now'.loader = loader' /\ Now'.player = player'
BY DEF Now, Both

LEMMA SleepingIs ==
  /\ Sleeping.loader = loader /\ Sleeping.saver = saver
  /\ Sleeping'.loader = loader' /\ Sleeping'.saver = saver'
BY DEF Sleeping, Kept

LEMMA ShownType == Shown(Thumbs) \in Nat /\ Shown(Thumbs)' \in Nat
<1>1. IsFiniteSet(Slots)
  BY LoaderAssumption
<1> QED
  BY <1>1, FS_Subset, FS_CardinalityType DEF Shown

LEMMA CoversBegin == Init => CoversInv
<1> SUFFICES ASSUME Init PROVE CoversInv
  OBVIOUS
<1>1. LoaderInv /\ \A j \in Jobs : Tidy(loader.jobs[j])
  <2>1. \A j \in Jobs : loader.jobs[j] = Idle
    BY DEF Init, LoaderInit
  <2> QED
    BY <2>1, IdleTidy, InitHolds DEF Init
<1>2. Sound(loader)
  BY <1>1, SoundIsTidy
<1>3. player \in PlayerType /\ saver \in SaverType
  BY DEF Init, PlayerType, SaverType, Files
<1>4. AsksForShown(loader, player) /\ CoverFits(player)
  BY DEF Init, AsksForShown, CoverFits
<1>5. PlayerInv(Now)
  BY <1>2, <1>3, <1>4, NowIs DEF PlayerInv, Now
<1>6. RowsInv
  BY DEF Init, RowsInv, RowType, Files, Unsettled
<1>7. Pictured(loader.jobs) = 0 /\ Shown(Thumbs) = 0
  <2>1. {j \in Jobs : loader.jobs[j].picture # NoPath} = {}
    BY DEF Init, LoaderInit, Idle
  <2>2. {s \in Slots : Thumbs[s] # NoPath} = {}
    BY DEF Init, Thumbs
  <2> QED
    BY <2>1, <2>2, FS_EmptySet DEF Pictured, Shown
<1>8. /\ loader.live = 0 /\ Held(player.cover) = 0 /\ Held(saver.next) = 0 /\ Held(saver.image) = 0
  BY DEF Init, LoaderInit, Held
<1>9. Owed(loader) = 0
  BY <1>7, <1>8 DEF Owed
<1> QED
  BY <1>3, <1>5, <1>6, <1>7, <1>8, <1>9 DEF CoversInv

\* RowsInv is about the rows' jobs, and about nothing else of the loader.
LEMMA RowsStay ==
  ASSUME RowsInv, UNCHANGED <<rows, listing>>, \A s \in Slots : loader'.jobs[s].path = loader.jobs[s].path
  PROVE  RowsInv' /\ Shown(Thumbs)' = Shown(Thumbs)
<1>1. rows' = rows /\ listing' = listing
  OBVIOUS
<1>2. RowsInv'
  BY <1>1 DEF RowsInv, Unsettled
<1>3. Thumbs' = Thumbs
  BY <1>1 DEF Thumbs
<1> QED
  BY <1>2, <1>3 DEF Shown

LEMMA CoversStep ==
  ASSUME CoversInv, [Next]_vars
  PROVE  CoversInv'
<1>0. /\ Sound(loader) /\ player \in PlayerType /\ AsksForShown(loader, player) /\ CoverFits(player)
      /\ PlayerInv(Now) /\ RowsInv /\ saver \in SaverType /\ Owed(loader) \in Int
      /\ Owed(loader) = Shown(Thumbs) + Held(player.cover) + Held(saver.next) + Held(saver.image)
      /\ \A s \in Slots : s \in Jobs /\ s # PLAYER /\ s # SAVER
  BY NowIs, OwedType, SlotsAreJobs DEF CoversInv, PlayerInv
<1>1. CASE PlayerSteps
  <2>1. PlayerTurns(Now, Now') /\ UNCHANGED <<rows, listing, saver>>
    BY <1>0, <1>1, PlayerMoves
  <2>2. PlayerInv(Now)' /\ PlayerOwes(Now') = PlayerOwes(Now)
    BY <2>1 DEF PlayerTurns
  <2>3. RowsInv' /\ Shown(Thumbs)' = Shown(Thumbs)
    BY <1>0, <2>1, NowIs, RowsStay DEF PlayerTurns
  <2>4. Owed(loader') - Held(player'.cover) = Owed(loader) - Held(player.cover)
    BY <2>2, NowIs DEF PlayerOwes
  <2>5. Owed(loader') \in Int
    BY <2>1, NowIs, OwedType DEF PlayerTurns, PlayerInv
  <2>6. /\ Held(player.cover) \in Int /\ Held(player'.cover) \in Int
        /\ Held(saver.next) \in Int /\ Held(saver.image) \in Int
    BY HeldIs
  <2>7. Owed(loader') = Shown(Thumbs)' + Held(player'.cover) + Held(saver'.next) + Held(saver'.image)
    <3>1. Held(saver'.next) = Held(saver.next) /\ Held(saver'.image) = Held(saver.image)
      BY <2>1, Zenon
    <3>2. /\ Owed(loader) \in Int
          /\ Owed(loader) = Shown(Thumbs) + Held(player.cover) + Held(saver.next) + Held(saver.image)
      BY <1>0
    <3>3. Shown(Thumbs)' = Shown(Thumbs)
      BY <2>3
    <3> QED
      BY <2>4, <2>5, <2>6, <3>1, <3>2, <3>3, ShownType
  <2> QED
    BY <1>0, <2>1, <2>2, <2>3, <2>7 DEF CoversInv
<1>2. ASSUME Sound(loader'), UNCHANGED player, loader'.id_job.path = loader.id_job.path,
             loader'.jobs[PLAYER].path = loader.jobs[PLAYER].path
      PROVE  PlayerInv(Now)'
  <2>1. AsksForShown(loader', player') /\ CoverFits(player') /\ player' \in PlayerType
    BY <1>0, <1>2 DEF AsksForShown, CoverFits
  <2>2. Now' = Both(Now'.loader, Now'.player)
    BY NowIs DEF Now
  <2>3. PlayerInv(Now')
    BY <1>2, <2>1, <2>2, NowIs DEF PlayerInv
  <2> QED
    BY <2>3
<1>3. CASE list_scrolls \/ thumbs_update
  <2>1. RowsTurn
    BY <1>0, <1>3, RowsScroll, RowsUpdate
  <2>2. PlayerInv(Now)'
    BY <1>2, <2>1, SlotsAreJobs, Numbers DEF RowsTurn
  <2>3. Owed(loader') \in Int /\ Shown(Thumbs') \in Nat
    BY <2>1, OwedType, ShownType DEF RowsTurn
  <2>4. Held(player.cover) \in Int /\ Held(saver.next) \in Int /\ Held(saver.image) \in Int
    BY HeldIs
  <2>5. Owed(loader') = Shown(Thumbs') + Held(player'.cover) + Held(saver'.next) + Held(saver'.image)
    <3>1. /\ Owed(loader) \in Int
          /\ Owed(loader) = Shown(Thumbs) + Held(player.cover) + Held(saver.next) + Held(saver.image)
      BY <1>0
    <3>2. /\ Owed(loader') - Shown(Thumbs') = Owed(loader) - Shown(Thumbs)
          /\ player' = player /\ saver' = saver
      BY <2>1 DEF RowsTurn
    <3> QED
      BY <2>3, <2>4, <3>1, <3>2, ShownType
  <2> QED
    BY <1>0, <2>1, <2>2, <2>5 DEF RowsTurn, CoversInv
<1>4. CASE SaverSteps
  <2>1. SaverInv(Sleeping)
    BY <1>0, SleepingIs DEF SaverInv, Sleeping
  <2>2. SaverTurns(Sleeping, Sleeping') /\ UNCHANGED <<player, rows, listing>>
    BY <1>4, <2>1, SaverMoves
  <2>3. /\ Sound(loader') /\ saver' \in SaverType /\ loader'.id_job = loader.id_job
        /\ \A j \in Jobs : j # SAVER => loader'.jobs[j] = loader.jobs[j]
        /\ Owed(loader') - Held(saver'.next) - Held(saver'.image)
             = Owed(loader) - Held(saver.next) - Held(saver.image)
    BY <2>2, SleepingIs DEF SaverTurns, SaverInv, SaverOwes
  <2>4. PlayerInv(Now)'
    <3>1. PLAYER # SAVER
      BY Numbers DEF PLAYER
    <3> QED
      BY <1>2, <2>2, <2>3, <3>1, Numbers
  <2>5. RowsInv' /\ Shown(Thumbs)' = Shown(Thumbs)
    BY <1>0, <2>2, <2>3, RowsStay
  <2>6. /\ Owed(loader') \in Int /\ Held(player.cover) \in Int
        /\ Held(saver.next) \in Int /\ Held(saver.image) \in Int
        /\ Held(saver'.next) \in Int /\ Held(saver'.image) \in Int
    BY <2>3, HeldIs, OwedType
  <2>7. Owed(loader') = Shown(Thumbs)' + Held(player'.cover) + Held(saver'.next) + Held(saver'.image)
    <3>1. /\ Owed(loader) \in Int
          /\ Owed(loader) = Shown(Thumbs) + Held(player.cover) + Held(saver.next) + Held(saver.image)
      BY <1>0
    <3>2. Shown(Thumbs)' = Shown(Thumbs) /\ player' = player
      BY <2>2, <2>5
    <3>3. Owed(loader') - Held(saver'.next) - Held(saver'.image)
            = Owed(loader) - Held(saver.next) - Held(saver.image)
      BY <2>3
    <3> QED
      BY <2>6, <3>1, <3>2, <3>3, ShownType
  <2> QED
    BY <2>3, <2>4, <2>5, <2>7 DEF CoversInv
<1>5. CASE ThreadSteps
  <2>1. ThreadsKeep /\ UNCHANGED <<player, rows, listing, saver>>
    BY <1>0, <1>5, ThreadsLeave DEF ThreadSteps, clients
  <2>2. PlayerInv(Now)'
    BY <1>2, <2>1, Numbers DEF ThreadsKeep
  <2>3. RowsInv' /\ Shown(Thumbs)' = Shown(Thumbs)
    BY <1>0, <2>1, RowsStay DEF ThreadsKeep
  <2> QED
    BY <1>0, <2>1, <2>2, <2>3 DEF ThreadsKeep, CoversInv
<1>6. CASE UNCHANGED vars
  <2>1. loader' = loader /\ UNCHANGED <<player, rows, listing, saver>>
    BY <1>6 DEF vars
  <2>2. PlayerInv(Now)'
    BY <1>0, <1>2, <2>1
  <2>3. RowsInv' /\ Shown(Thumbs)' = Shown(Thumbs)
    BY <1>0, <2>1, RowsStay
  <2> QED
    BY <2>1, <2>2, <2>3 DEF CoversInv
<1> QED
  BY <1>1, <1>3, <1>4, <1>5, <1>6 DEF Next, Changes, PlayerSteps

\* The inductive invariant of the loader with those who ask it.
THEOREM CoversInvariant == Spec => []CoversInv
BY CoversBegin, CoversStep, PTL DEF Spec

LEMMA InvariantImplies == CoversInv => TypeOK /\ NothingLeaks /\ CoverIsOfTheTrack
<1> SUFFICES ASSUME CoversInv PROVE TypeOK /\ NothingLeaks /\ CoverIsOfTheTrack
  OBVIOUS
<1>1. /\ Sound(loader) /\ player \in PlayerType /\ CoverFits(player)
      /\ RowsInv /\ loader.jobs \in [Jobs -> JobType] /\ loader.worker \in ThreadType /\ loader.live \in Int
      /\ Pictured(loader.jobs) \in Nat /\ Shown(Thumbs) \in Nat
  BY NowIs, OwedType, ShownType DEF CoversInv, PlayerInv, Sound, LoaderRecord
<1>2. Shown(Thumbs) = Cardinality({s \in Slots : rows[s].thumb # NoPath})
  <2>1. {s \in Slots : Thumbs[s] # NoPath} = {s \in Slots : rows[s].thumb # NoPath}
    BY DEF Thumbs
  <2> QED
    BY <2>1 DEF Shown
<1>3. Held(player.cover) \in {0, 1} /\ Held(saver.next) \in {0, 1} /\ Held(saver.image) \in {0, 1}
  BY HeldIs
<1>4. loader.live = Pictured(loader.jobs) + Shown(Thumbs) + Held(player.cover) + Held(saver.next) + Held(saver.image)
  BY <1>1, <1>3 DEF CoversInv, Owed
<1>5. NothingLeaks
  BY <1>2, <1>4 DEF NothingLeaks, Pictured
<1>6. loader.live \in Nat
  BY <1>1, <1>3, <1>4
<1>7. TypeOK
  BY <1>1, <1>6 DEF TypeOK, PlayerType, JobType, ThreadType, Files
<1>8. CoverIsOfTheTrack
  BY <1>1 DEF CoverIsOfTheTrack, CoverFits, RowsInv
<1> QED
  BY <1>5, <1>7, <1>8

\* coverloader.c: what the loader and the player are made of, and no picture
\* is freed that was not there.
THEOREM CoversTypeCorrect == Spec => []TypeOK
BY CoversInvariant, InvariantImplies, PTL

\* discard(), dual_take() and row_drop_thumb(): every picture that was decoded
\* and not freed is held by one holder, however many rows there are.
THEOREM NothingIsLeaked == Spec => []NothingLeaks
BY CoversInvariant, InvariantImplies, PTL

\* refresh_cover() and apply_cover_id_result(): the cover on screen is of the
\* track that is shown, and each row's picture of its entry.
THEOREM CoverStaysOfTheTrack == Spec => []CoverIsOfTheTrack
BY CoversInvariant, InvariantImplies, PTL

\* What the interface does takes answers and asks questions; it gives none.
LEMMA CallsMove ==
  ASSUME Sound(loader), Sound(loader'), Unanswered(loader, loader')
  PROVE  Promise!Next
<1>1. /\ \A j \in Jobs : loader'.jobs[j] \in JobType /\ loader.jobs[j] \in JobType
      /\ loader'.id_job \in IdType
  BY DEF Sound, LoaderRecord
<1>2. ASSUME NEW j \in Jobs PROVE JobMoves(j)
  <2>1. CASE loader'.jobs[j].done
    <3>1. loader'.jobs[j] = loader.jobs[j]
      BY <2>1 DEF Unanswered
    <3> QED
      BY <2>1, <3>1 DEF JobMoves, JobKept, Question, Answer
  <2>2. CASE ~loader'.jobs[j].done
    <3>1. Question(j)' \in Files /\ Answer(j)' = NoPath
      BY <1>1, <2>2 DEF Question, Answer, JobType, Files
    <3> QED
      BY <3>1 DEF JobMoves
  <2> QED
    BY <2>1, <2>2
<1>3. IdMoves
  <2>1. CASE loader'.id_job.done
    <3>1. loader'.id_job = loader.id_job
      BY <2>1 DEF Unanswered
    <3> QED
      BY <2>1, <3>1 DEF IdMoves, IdKept, IdQuestion, IdAnswer
  <2>2. CASE ~loader'.id_job.done
    <3>1. IdQuestion' \in Files /\ IdAnswer' = NoPath
      BY <1>1, <2>2 DEF IdQuestion, IdAnswer, IdType, Files
    <3> QED
      BY <3>1 DEF IdMoves
  <2> QED
    BY <2>1, <2>2
<1> QED
  BY <1>2, <1>3, MovesMakeAStep

LEMMA CoversStepKeepsThePromise ==
  ASSUME CoversInv, [Next]_vars
  PROVE  [Promise!Next]_Promise!vars
<1>1. Sound(loader) /\ PlayerInv(Now) /\ RowsInv /\ saver \in SaverType
  BY NowIs DEF CoversInv, PlayerInv
<1>2. CASE PlayerSteps
  <2>1. PlayerTurns(Now, Now')
    BY <1>1, <1>2, PlayerMoves
  <2> QED
    BY <1>1, <2>1, NowIs, CallsMove DEF PlayerTurns, PlayerInv
<1>3. CASE list_scrolls \/ thumbs_update
  <2>1. RowsTurn
    BY <1>1, <1>3, RowsScroll, RowsUpdate
  <2> QED
    BY <1>1, <2>1, CallsMove DEF RowsTurn
<1>4. CASE SaverSteps
  <2>1. SaverInv(Sleeping)
    BY <1>1, SleepingIs DEF SaverInv, Sleeping
  <2>2. SaverTurns(Sleeping, Sleeping')
    BY <1>4, <2>1, SaverMoves
  <2> QED
    BY <1>1, <2>2, SleepingIs, CallsMove DEF SaverTurns, SaverInv
<1>5. CASE ThreadSteps
  <2>1. LoaderInv /\ (WorkerSteps \/ IdWorkerSteps)
    BY <1>1, <1>5, SoundIsTidy DEF ThreadSteps
  <2> QED
    BY <2>1, EachStep
<1>6. CASE UNCHANGED vars
  <2>1. loader' = loader
    BY <1>6 DEF vars
  <2>2. (\A j \in Jobs : JobKept(j)) /\ IdKept
    BY <2>1 DEF JobKept, IdKept, Question, Answer, IdQuestion, IdAnswer
  <2> QED
    BY <2>2 DEF JobKept, IdKept, Promise!vars
<1> QED
  BY <1>2, <1>3, <1>4, <1>5, <1>6 DEF Next, Changes, PlayerSteps

\* The same promise, with those who really ask: whatever the player, the rows
\* and the screensaver do, each answer is to the question asked last.
THEOREM CoversKeepThePromise == Spec => AnswersAreLatest
<1>1. Init => Promise!Init
  BY InitHolds DEF Init
<1> QED
  BY <1>1, CoversInvariant, CoversStepKeepsThePromise, PTL DEF Spec, AnswersAreLatest, Promise!Spec
=============================================================================
