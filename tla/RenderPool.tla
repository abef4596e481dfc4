------------------------------ MODULE RenderPool ------------------------------
(***************************************************************************)
(* The threaded rendering pool of src/render_pool.c.                       *)
(*                                                                         *)
(* Worker threads take RenderJob containers from a FIFO queue, render them *)
(* and publish the bitmap in the container.  Callers either block on a     *)
(* transient job (render_pool_render_sync) or submit a keyed job           *)
(* (render_pool_submit_async) and collect it later (render_pool_try_get).  *)
(* One thread, here "main", starts and stops the pool.                     *)
(*                                                                         *)
(* Atomicity: job_head, job_tail and all_jobs are only touched while       *)
(* job_mtx is held and no critical section blocks, so each section is one  *)
(* action.  Whatever the code does between two sections, or reads without  *)
(* a lock (pool_active, done in try_get), is a step of its own.            *)
(***************************************************************************)
EXTENDS Integers, Sequences, FiniteSets, Functions

CONSTANTS
  Workers,        \* the threads render_pool_init creates (nthreads of them)
  Clients,        \* threads that call sync / submit / try_get
  Jobs,           \* addresses calloc may return for a RenderJob, never reused
  Cues,           \* what is rendered: a (track_id, cue_index) key and its markup
  None,           \* NULL, and "no bitmap"
  MAX_QUEUE_DEPTH,\* 1024 in the code
  MaxInits,       \* bound: how often the pool is started
  CreateMayFail,  \* may pthread_create fail?
  Overlap         \* may callers run while main starts or stops the pool?

ASSUME PoolAssumption ==
  /\ Workers # {}
  /\ None \notin Jobs \cup Cues
  /\ MAX_QUEUE_DEPTH \in Nat \ {0}
  /\ MaxInits \in Nat
  /\ CreateMayFail \in BOOLEAN
  /\ Overlap \in BOOLEAN

VARIABLES
  pool_active,    \* atomic flag: submissions are accepted
  running,        \* workers keep waiting for work
  queue,          \* job_head .. job_tail
  all_jobs,       \* keyed list, newest first
  mem,            \* life of each container: unallocated, live, freed, corrupt
  cue,            \* the cue a container was created for
  done,           \* atomic flag of each container
  waiters,        \* atomic counter of each container
  freed,          \* marker set while shutdown clears the queue
  bitmap,         \* owner of the result: none, job, caller, released
  wpc, wjob,      \* program counter and job of each worker
  cpc, cjob,      \* program counter and job of each client
  want, got,      \* cue of a client's last request, bitmap it received
  mpc, inits      \* program counter of main, number of pool starts

poolVars   == <<pool_active, running, queue, all_jobs>>
jobVars    == <<mem, cue, done, waiters, freed, bitmap>>
workerVars == <<wpc, wjob>>
clientVars == <<cpc, cjob, want, got>>
mainVars   == <<mpc, inits>>
vars       == <<poolVars, jobVars, workerVars, clientVars, mainVars>>

WorkerPC == {"none", "loop", "wait", "render", "notify", "exit"}
ClientPC == {"idle", "sync_enqueue", "sync_lock", "sync_cwait", "sync_take",
             "submit_depth", "submit_enqueue", "get_take"}
MainPC   == {"down", "creating", "join_failed", "up", "stopping", "joining",
             "reaping"}

TypeOK ==
  /\ pool_active \in BOOLEAN
  /\ running \in BOOLEAN
  /\ queue \in Seq(Jobs)
  /\ all_jobs \in Seq(Jobs)
  /\ mem \in [Jobs -> {"unallocated", "live", "freed", "corrupt"}]
  /\ cue \in [Jobs -> Cues \cup {None}]
  /\ done \in [Jobs -> BOOLEAN]
  /\ waiters \in [Jobs -> Nat]
  /\ freed \in [Jobs -> BOOLEAN]
  /\ bitmap \in [Jobs -> {"none", "job", "caller", "released"}]
  /\ wpc \in [Workers -> WorkerPC]
  /\ wjob \in [Workers -> Jobs \cup {None}]
  /\ cpc \in [Clients -> ClientPC]
  /\ cjob \in [Clients -> Jobs \cup {None}]
  /\ want \in [Clients -> Cues \cup {None}]
  /\ got \in [Clients -> Cues \cup {None}]
  /\ mpc \in MainPC
  /\ inits \in 0..MaxInits

Init ==
  /\ pool_active = FALSE
  /\ running = FALSE
  /\ queue = <<>>
  /\ all_jobs = <<>>
  /\ mem = [j \in Jobs |-> "unallocated"]
  /\ cue = [j \in Jobs |-> None]
  /\ done = [j \in Jobs |-> FALSE]
  /\ waiters = [j \in Jobs |-> 0]
  /\ freed = [j \in Jobs |-> FALSE]
  /\ bitmap = [j \in Jobs |-> "none"]
  /\ wpc = [w \in Workers |-> "none"]
  /\ wjob = [w \in Workers |-> None]
  /\ cpc = [c \in Clients |-> "idle"]
  /\ cjob = [c \in Clients |-> None]
  /\ want = [c \in Clients |-> None]
  /\ got = [c \in Clients |-> None]
  /\ mpc = "down"
  /\ inits = 0

-----------------------------------------------------------------------------
(* Helpers on job containers.                                              *)

\* calloc returned a container; its strings and done_mtx/done_cond are set up.
NewJob(j, k) ==
  /\ mem[j] = "unallocated"
  /\ mem' = [mem EXCEPT ![j] = "live"]
  /\ cue' = [cue EXCEPT ![j] = k]

\* free() of a container that is not live is an error the model records.
Release(m) == IF m = "live" THEN "freed" ELSE "corrupt"

\* Mutant: the result is not moved out before the container is freed.
StealAndCleanup_NoSteal(j) ==
  /\ UNCHANGED bitmap
  /\ mem' = [mem EXCEPT ![j] = Release(@)]

\* steal_job_result then cleanup_job_container: the bitmap goes to the caller
\* and the container is freed.
StealAndCleanup(j) ==
  /\ bitmap' = [bitmap EXCEPT ![j] = "caller"]
  /\ mem' = [mem EXCEPT ![j] = Release(@)]

\* pthread_cond_signal(&job_cond): one waiting worker, if any, is woken.
Waiting == {w \in Workers : wpc[w] = "wait"}

\* Mutant: the signal is forgotten.
SignalWorker_None == wpc' = wpc

SignalWorker ==
  IF Waiting = {} THEN wpc' = wpc
                  ELSE \E w \in Waiting : wpc' = [wpc EXCEPT ![w] = "loop"]

\* Mutant: the key is not compared.
FindJob_AnyKey(i, k) == i = 1

\* The i-th entry is the first one of all_jobs, that is the newest, with the key.
FindJob(i, k) ==
  /\ cue[all_jobs[i]] = k
  /\ \A h \in 1..(i - 1) : cue[all_jobs[h]] # k

\* remove_from_all_jobs_locked: the list without its i-th entry.
Unlink(s, i) == SubSeq(s, 1, i - 1) \o SubSeq(s, i + 1, Len(s))

-----------------------------------------------------------------------------
(* worker_thread.                                                          *)

\* Mutant: the head is not unlinked from the queue.
WorkerTake_KeepsHead(w) ==
  /\ wpc[w] = "loop"
  /\ \/ /\ queue = <<>>
        /\ wpc' = [wpc EXCEPT ![w] = IF running THEN "wait" ELSE "exit"]
        /\ UNCHANGED wjob
     \/ /\ queue # <<>>
        /\ wpc' = [wpc EXCEPT ![w] = "render"]
        /\ wjob' = [wjob EXCEPT ![w] = Head(queue)]
  /\ UNCHANGED <<poolVars, jobVars, clientVars, mainVars>>

\* Mutant: a worker exits as soon as the pool stops, jobs left or not.
WorkerTake_NoDrain(w) ==
  /\ wpc[w] = "loop"
  /\ \/ /\ queue = <<>> \/ ~running
        /\ wpc' = [wpc EXCEPT ![w] = IF running THEN "wait" ELSE "exit"]
        /\ UNCHANGED <<queue, wjob>>
     \/ /\ queue # <<>>
        /\ running
        /\ wpc' = [wpc EXCEPT ![w] = "render"]
        /\ wjob' = [wjob EXCEPT ![w] = Head(queue)]
        /\ queue' = Tail(queue)
  /\ UNCHANGED <<pool_active, running, all_jobs, jobVars, clientVars, mainVars>>

\* Under job_mtx: with an empty queue wait on job_cond, or exit when the pool
\* stops; otherwise take the head of the queue and go render it.
WorkerTake(w) ==
  /\ wpc[w] = "loop"
  /\ \/ /\ queue = <<>>
        /\ wpc' = [wpc EXCEPT ![w] = IF running THEN "wait" ELSE "exit"]
        /\ UNCHANGED <<queue, wjob>>
     \/ /\ queue # <<>>
        /\ wpc' = [wpc EXCEPT ![w] = "render"]
        /\ wjob' = [wjob EXCEPT ![w] = Head(queue)]
        /\ queue' = Tail(queue)
  /\ UNCHANGED <<pool_active, running, all_jobs, jobVars, clientVars, mainVars>>

\* POSIX lets pthread_cond_wait return without a signal.
WorkerSpurious(w) ==
  /\ wpc[w] = "wait"
  /\ wpc' = [wpc EXCEPT ![w] = "loop"]
  /\ UNCHANGED <<poolVars, jobVars, wjob, clientVars, mainVars>>

\* The bitmap is rendered outside any lock; then done_mtx is taken, the result
\* stored and done set.  done_mtx stays held until WorkerNotify.
WorkerPublish(w) ==
  /\ wpc[w] = "render"
  /\ wpc' = [wpc EXCEPT ![w] = "notify"]
  /\ bitmap' = [bitmap EXCEPT ![wjob[w]] = "job"]
  /\ done' = [done EXCEPT ![wjob[w]] = TRUE]
  /\ UNCHANGED <<poolVars, mem, cue, waiters, freed, wjob, clientVars, mainVars>>

\* Mutant: done_cond is not signalled.
WorkerNotify_NoSignal(w) ==
  /\ wpc[w] = "notify"
  /\ wpc' = [wpc EXCEPT ![w] = "loop"]
  /\ wjob' = [wjob EXCEPT ![w] = None]
  /\ UNCHANGED <<poolVars, jobVars, clientVars, mainVars>>

\* Signal done_cond and release done_mtx.
WorkerNotify(w) ==
  /\ wpc[w] = "notify"
  /\ cpc' = [c \in Clients |->
               IF cpc[c] = "sync_cwait" /\ cjob[c] = wjob[w] THEN "sync_lock"
                                                            ELSE cpc[c]]
  /\ wpc' = [wpc EXCEPT ![w] = "loop"]
  /\ wjob' = [wjob EXCEPT ![w] = None]
  /\ UNCHANGED <<poolVars, jobVars, cjob, want, got, mainVars>>

Worker(w) == WorkerTake(w) \/ WorkerPublish(w) \/ WorkerNotify(w)

-----------------------------------------------------------------------------
(* The calls a client makes.  Without Overlap the clients and main are one *)
(* thread, as in srt2dvbsub.c: calls start only between main's operations. *)

MayCall(c) ==
  /\ cpc[c] = "idle"
  /\ \/ Overlap
     \/ mpc \in {"up", "down"} /\ \A d \in Clients : cpc[d] = "idle"

Return(c, bm) ==
  /\ cpc' = [cpc EXCEPT ![c] = "idle"]
  /\ cjob' = [cjob EXCEPT ![c] = None]
  /\ got' = [got EXCEPT ![c] = bm]

\* render_pool_render_sync up to the enqueue: without a pool the caller
\* renders itself; an allocation failure returns an empty bitmap.
SyncCall(c, k) ==
  /\ MayCall(c)
  /\ want' = [want EXCEPT ![c] = k]
  /\ \/ /\ ~pool_active
        /\ Return(c, k)
        /\ UNCHANGED jobVars
     \/ /\ pool_active
        /\ Return(c, None)
        /\ UNCHANGED jobVars
     \/ /\ pool_active
        /\ \E j \in Jobs :
             /\ NewJob(j, k)
             /\ cjob' = [cjob EXCEPT ![c] = j]
        /\ cpc' = [cpc EXCEPT ![c] = "sync_enqueue"]
        /\ got' = [got EXCEPT ![c] = None]
        /\ UNCHANGED <<done, waiters, freed, bitmap>>
  /\ UNCHANGED <<poolVars, workerVars, mainVars>>

\* Mutant: the waiter is not counted.
SyncEnqueue_NoWaiter(c) ==
  /\ cpc[c] = "sync_enqueue"
  /\ queue' = Append(queue, cjob[c])
  /\ SignalWorker
  /\ cpc' = [cpc EXCEPT ![c] = "sync_lock"]
  /\ UNCHANGED <<pool_active, running, all_jobs, jobVars, wjob, cjob, want, got,
                 mainVars>>

\* Under job_mtx: append the job, count the waiter, signal a worker.
SyncEnqueue(c) ==
  /\ cpc[c] = "sync_enqueue"
  /\ queue' = Append(queue, cjob[c])
  /\ waiters' = [waiters EXCEPT ![cjob[c]] = @ + 1]
  /\ SignalWorker
  /\ cpc' = [cpc EXCEPT ![c] = "sync_lock"]
  /\ UNCHANGED <<pool_active, running, all_jobs, mem, cue, done, freed, bitmap,
                 wjob, cjob, want, got, mainVars>>

\* With done_mtx held: leave the loop when done is set, else wait on done_cond.
SyncLock(c) ==
  /\ cpc[c] = "sync_lock"
  /\ ~ \E w \in Workers : wpc[w] = "notify" /\ wjob[w] = cjob[c]
  /\ cpc' = [cpc EXCEPT ![c] = IF done[cjob[c]] THEN "sync_take"
                                                ELSE "sync_cwait"]
  /\ UNCHANGED <<poolVars, jobVars, workerVars, cjob, want, got, mainVars>>

SyncSpurious(c) ==
  /\ cpc[c] = "sync_cwait"
  /\ cpc' = [cpc EXCEPT ![c] = "sync_lock"]
  /\ UNCHANGED <<poolVars, jobVars, workerVars, cjob, want, got, mainVars>>

\* Move the result out, drop the waiter count, free the container, return.
SyncTake(c) ==
  /\ cpc[c] = "sync_take"
  /\ StealAndCleanup(cjob[c])
  /\ waiters' = [waiters EXCEPT ![cjob[c]] = @ - 1]
  /\ Return(c, cue[cjob[c]])
  /\ UNCHANGED <<poolVars, cue, done, freed, workerVars, want, mainVars>>

\* render_pool_submit_async: fail fast without a pool.
SubmitCall(c, k) ==
  /\ MayCall(c)
  /\ want' = [want EXCEPT ![c] = k]
  /\ got' = [got EXCEPT ![c] = None]
  /\ cpc' = [cpc EXCEPT ![c] = IF pool_active THEN "submit_depth" ELSE "idle"]
  /\ UNCHANGED <<poolVars, jobVars, workerVars, cjob, mainVars>>

\* Mutant: no depth check.
SubmitDepth_Unchecked(c) ==
  /\ cpc[c] = "submit_depth"
  /\ cpc' = [cpc EXCEPT ![c] = "submit_enqueue"]
  /\ UNCHANGED <<poolVars, jobVars, workerVars, cjob, want, got, mainVars>>

\* First critical section: count the queue, refuse the job when it is full.
SubmitDepth(c) ==
  /\ cpc[c] = "submit_depth"
  /\ cpc' = [cpc EXCEPT ![c] = IF Len(queue) >= MAX_QUEUE_DEPTH
                                 THEN "idle" ELSE "submit_enqueue"]
  /\ UNCHANGED <<poolVars, jobVars, workerVars, cjob, want, got, mainVars>>

\* Allocate the container (or fail), then in a second critical section append
\* it to the queue, put it in front of all_jobs and signal a worker.
SubmitEnqueue(c) ==
  /\ cpc[c] = "submit_enqueue"
  /\ cpc' = [cpc EXCEPT ![c] = "idle"]
  /\ \/ UNCHANGED <<queue, all_jobs, mem, cue, wpc>>
     \/ \E j \in Jobs :
          /\ NewJob(j, want[c])
          /\ queue' = Append(queue, j)
          /\ all_jobs' = <<j>> \o all_jobs
          /\ SignalWorker
  /\ UNCHANGED <<pool_active, running, done, waiters, freed, bitmap, wjob, cjob,
                 want, got, mainVars>>

\* Mutant: done is not consulted.
TryGet_Early(c, k) ==
  /\ MayCall(c)
  /\ want' = [want EXCEPT ![c] = k]
  /\ got' = [got EXCEPT ![c] = None]
  /\ \/ /\ \A i \in DOMAIN all_jobs : ~FindJob(i, k)
        /\ UNCHANGED <<all_jobs, cpc, cjob>>
     \/ \E i \in DOMAIN all_jobs :
          /\ FindJob(i, k)
          /\ all_jobs' = Unlink(all_jobs, i)
          /\ cjob' = [cjob EXCEPT ![c] = all_jobs[i]]
          /\ cpc' = [cpc EXCEPT ![c] = "get_take"]
  /\ UNCHANGED <<pool_active, running, queue, jobVars, workerVars, mainVars>>

\* Mutant: the job is not unlinked.
TryGet_NoUnlink(c, k) ==
  /\ MayCall(c)
  /\ want' = [want EXCEPT ![c] = k]
  /\ got' = [got EXCEPT ![c] = None]
  /\ \E i \in DOMAIN all_jobs :
       /\ FindJob(i, k)
       /\ done[all_jobs[i]]
       /\ cjob' = [cjob EXCEPT ![c] = all_jobs[i]]
       /\ cpc' = [cpc EXCEPT ![c] = "get_take"]
  /\ UNCHANGED <<poolVars, jobVars, workerVars, mainVars>>

\* render_pool_try_get under job_mtx: no such job, job not done, or the job is
\* unlinked and belongs to the caller from here on.
TryGet(c, k) ==
  /\ MayCall(c)
  /\ want' = [want EXCEPT ![c] = k]
  /\ got' = [got EXCEPT ![c] = None]
  /\ \/ /\ \A i \in DOMAIN all_jobs : FindJob(i, k) => ~done[all_jobs[i]]
        /\ UNCHANGED <<all_jobs, cpc, cjob>>
     \/ \E i \in DOMAIN all_jobs :
          /\ FindJob(i, k)
          /\ done[all_jobs[i]]
          /\ all_jobs' = Unlink(all_jobs, i)
          /\ cjob' = [cjob EXCEPT ![c] = all_jobs[i]]
          /\ cpc' = [cpc EXCEPT ![c] = "get_take"]
  /\ UNCHANGED <<pool_active, running, queue, jobVars, workerVars, mainVars>>

\* Outside the lock: steal the result, clean up and free the container.
GetTake(c) ==
  /\ cpc[c] = "get_take"
  /\ StealAndCleanup(cjob[c])
  /\ Return(c, cue[cjob[c]])
  /\ UNCHANGED <<poolVars, cue, done, waiters, freed, workerVars, want, mainVars>>

Call(c) == \E k \in Cues : SyncCall(c, k) \/ SubmitCall(c, k) \/ TryGet(c, k)

Client(c) == \/ SyncEnqueue(c) \/ SyncLock(c) \/ SyncTake(c)
             \/ SubmitDepth(c) \/ SubmitEnqueue(c) \/ GetTake(c)

-----------------------------------------------------------------------------
(* render_pool_init and render_pool_shutdown, called by main.              *)

MainMayCall == Overlap \/ \A c \in Clients : cpc[c] = "idle"

\* The pool looks running to the workers before any of them exists.
InitCall ==
  /\ mpc = "down"
  /\ inits < MaxInits
  /\ MainMayCall
  /\ running' = TRUE
  /\ inits' = inits + 1
  /\ mpc' = "creating"
  /\ UNCHANGED <<pool_active, queue, all_jobs, jobVars, workerVars, clientVars>>

InitCreate ==
  /\ mpc = "creating"
  /\ \E w \in Workers :
       /\ wpc[w] = "none"
       /\ wpc' = [wpc EXCEPT ![w] = "loop"]
  /\ UNCHANGED <<poolVars, jobVars, wjob, clientVars, mainVars>>

\* pthread_create failed: running is cleared without job_mtx and without a
\* broadcast, then the threads created so far are joined.
InitCreateFails ==
  /\ CreateMayFail
  /\ mpc = "creating"
  /\ \E w \in Workers : wpc[w] = "none"
  /\ running' = FALSE
  /\ mpc' = "join_failed"
  /\ UNCHANGED <<pool_active, queue, all_jobs, jobVars, workerVars, clientVars,
                 inits>>

AllExited == \A w \in Workers : wpc[w] \in {"none", "exit"}

InitJoinFailed ==
  /\ mpc = "join_failed"
  /\ AllExited
  /\ wpc' = [w \in Workers |-> "none"]
  /\ mpc' = "down"
  /\ UNCHANGED <<poolVars, jobVars, wjob, clientVars, inits>>

InitPublish ==
  /\ mpc = "creating"
  /\ \A w \in Workers : wpc[w] # "none"
  /\ pool_active' = TRUE
  /\ mpc' = "up"
  /\ UNCHANGED <<running, queue, all_jobs, jobVars, workerVars, clientVars, inits>>

\* Shutdown of an inactive pool returns at once; an active one stops accepting.
ShutdownCall ==
  /\ mpc = "up"
  /\ MainMayCall
  /\ pool_active' = FALSE
  /\ mpc' = "stopping"
  /\ UNCHANGED <<running, queue, all_jobs, jobVars, workerVars, clientVars, inits>>

\* Mutant: no broadcast.
ShutdownStop_NoBroadcast ==
  /\ mpc = "stopping"
  /\ running' = FALSE
  /\ mpc' = "joining"
  /\ UNCHANGED <<pool_active, queue, all_jobs, jobVars, workerVars, clientVars,
                 inits>>

\* Under job_mtx: clear running and wake every waiting worker.
ShutdownStop ==
  /\ mpc = "stopping"
  /\ running' = FALSE
  /\ wpc' = [w \in Workers |-> IF wpc[w] = "wait" THEN "loop" ELSE wpc[w]]
  /\ mpc' = "joining"
  /\ UNCHANGED <<pool_active, queue, all_jobs, jobVars, wjob, clientVars, inits>>

ShutdownJoin ==
  /\ mpc = "joining"
  /\ AllExited
  /\ wpc' = [w \in Workers |-> "none"]
  /\ mpc' = "reaping"
  /\ UNCHANGED <<poolVars, jobVars, wjob, clientVars, inits>>

\* Mutant: waiters are ignored.
Reaped_IgnoresWaiters ==
  Range(queue) \cup {j \in Range(all_jobs) \ Range(queue) : ~freed[j]}

\* Mutant: the keyed list is cleared without freeing what it holds.
Reaped_QueueOnly == {j \in Range(queue) : waiters[j] <= 0}

\* The containers shutdown frees: queued ones nobody waits for, then the
\* listed ones that were not already dealt with in the queue.
Reaped ==
  LET queued == Range(queue)
      listed == Range(all_jobs) \ queued
  IN {j \in queued : waiters[j] <= 0} \cup {j \in listed : ~freed[j]}

\* Under job_mtx: clear the queue, then the keyed list.
ShutdownReap ==
  /\ mpc = "reaping"
  /\ mem' = [j \in Jobs |-> IF j \in Reaped THEN Release(mem[j]) ELSE mem[j]]
  /\ bitmap' = [j \in Jobs |-> IF j \in Reaped /\ bitmap[j] = "job"
                                 THEN "released" ELSE bitmap[j]]
  /\ freed' = [j \in Jobs |-> freed[j] \/ j \in Range(queue)]
  /\ queue' = <<>>
  /\ all_jobs' = <<>>
  /\ mpc' = "down"
  /\ UNCHANGED <<pool_active, running, cue, done, waiters, workerVars,
                 clientVars, inits>>

MainStep == \/ InitCreate \/ InitPublish \/ InitJoinFailed
            \/ ShutdownStop \/ ShutdownJoin \/ ShutdownReap

Next ==
  \/ \E w \in Workers : Worker(w) \/ WorkerSpurious(w)
  \/ \E c \in Clients : Call(c) \/ Client(c) \/ SyncSpurious(c)
  \/ MainStep \/ InitCall \/ InitCreateFails \/ ShutdownCall

\* Every thread keeps running once it is inside an operation.  Nothing obliges
\* a client to call, main to start or stop the pool, or a wait to end by itself.
Fairness ==
  /\ \A w \in Workers : WF_vars(Worker(w))
  /\ \A c \in Clients : WF_vars(Client(c))
  /\ WF_vars(MainStep)

Spec == Init /\ [][Next]_vars

FairSpec == Spec /\ Fairness

-----------------------------------------------------------------------------
(* Properties.                                                             *)

Holding(j) == {w \in Workers : wpc[w] \in {"render", "notify"} /\ wjob[w] = j}

\* The worker queue never holds a container that was freed, finished, queued
\* twice or already taken by a worker, whatever submit, sync, the workers and
\* shutdown do between them (job_head/job_tail in render_pool.c).
QueueSound ==
  /\ IsInjective(queue)
  /\ \A j \in Range(queue) : mem[j] = "live" /\ ~done[j] /\ Holding(j) = {}

\* The keyed list has no dangling or repeated entry, and no listed job is lost:
\* until it is done it is in the queue or in the hands of a worker rendering it,
\* so try_get answers "still running" only for a job that somebody will finish.
ListSound ==
  /\ IsInjective(all_jobs)
  /\ \A j \in Range(all_jobs) :
       /\ mem[j] = "live"
       /\ ~done[j] => \/ j \in Range(queue)
                      \/ \E w \in Workers : wpc[w] = "render" /\ wjob[w] = j

\* No container is freed twice, between try_get, the sync waiter's own cleanup
\* and the two passes of shutdown (cleanup_job_container).
NoDoubleFree == \A j \in Jobs : mem[j] # "corrupt"

\* A worker renders only a live container, alone: neither try_get nor shutdown
\* nor a sync waiter frees it before the result has been published.
RenderSafe ==
  \A w \in Workers : wpc[w] = "render" =>
    /\ mem[wjob[w]] = "live"
    /\ Holding(wjob[w]) = {w}

\* The container a caller is working on (its transient sync job, or the job
\* try_get has just unlinked) is live and private to that caller: shutdown leaves
\* a job with a waiter to its waiter, and nobody else can reach or free it.
CallerSafe ==
  \A c \in Clients : cjob[c] # None =>
    /\ mem[cjob[c]] = "live"
    /\ cjob[c] \notin Range(all_jobs)
    /\ \A d \in Clients \ {c} : cjob[d] # cjob[c]

\* A finished bitmap has one owner: it stays in a live container, or was moved
\* to exactly one caller, or was released; no container is freed around it.
BitmapOwned ==
  \A j \in Jobs :
    /\ bitmap[j] = "job" => mem[j] = "live" /\ done[j]
    /\ bitmap[j] \in {"caller", "released"} => mem[j] = "freed"
    /\ mem[j] = "freed" /\ done[j] => bitmap[j] \in {"caller", "released"}

\* No container is lost: a live one is in the keyed list or in the hands of
\* the caller that will free it, through every hand-over between submit, the
\* workers, try_get, a sync waiter and shutdown.
NoLeak ==
  \A j \in Jobs : mem[j] = "live" =>
    j \in Range(all_jobs) \/ \E c \in Clients : cjob[c] = j

\* A caller that receives a bitmap receives the one it asked for: its own
\* transient job (sync) or a job with the requested key (try_get).
ResultMatches == \A c \in Clients : got[c] # None => got[c] = want[c]

\* Once shutdown has returned, and no call is in progress, no container and no
\* bitmap is left inside the pool and no worker thread remains.
CleanAfterShutdown ==
  mpc = "down" /\ (\A c \in Clients : cpc[c] = "idle") =>
    /\ \A j \in Jobs : mem[j] # "live" /\ bitmap[j] # "job"
    /\ queue = <<>> /\ all_jobs = <<>>
    /\ \A w \in Workers : wpc[w] = "none"

\* The depth check of submit_async is not atomic with its enqueue and sync does
\* not check at all, so the queue can exceed MAX_QUEUE_DEPTH, but only by what
\* the callers have in flight: besides the jobs of callers blocked in sync, by no
\* more than the submission each other caller makes in the gap.
QueueBounded ==
  Len(queue) <= MAX_QUEUE_DEPTH - 1 + Cardinality(Clients)
                + Cardinality({c \in Clients : cjob[c] \in Range(queue)})

\* A worker that still has to signal done_cond and unlock done_mtx of a job
\* works on a live container ("Workers publish job results while holding
\* done_mtx, set the done flag (atomic), and signal done_cond").
NotifySafe == \A w \in Workers : wpc[w] = "notify" => mem[wjob[w]] = "live"

\* A blocked render_pool_render_sync returns.
SyncReturns ==
  \A c \in Clients : cpc[c] = "sync_lock" ~> cpc[c] = "idle"

\* A submitted job is eventually rendered, whether or not shutdown intervenes.
JobsComplete == \A j \in Jobs : j \in Range(queue) ~> done[j]

\* render_pool_shutdown returns: no worker misses the wake-up.
ShutdownReturns == mpc = "stopping" ~> mpc = "down"

\* render_pool_init returns, with the pool up or with a failure.
InitReturns == mpc = "creating" ~> mpc \in {"up", "down"}

-----------------------------------------------------------------------------
(* The inductive invariant behind the safety properties.                   *)

\* Workers hold distinct jobs, and only between dequeue and notification.
WorkersSound ==
  /\ \A w \in Workers : wjob[w] # None <=> wpc[w] \in {"render", "notify"}
  /\ \A w, v \in Workers : wjob[w] # None /\ wjob[w] = wjob[v] => w = v
  /\ \A w \in Workers :
       /\ wpc[w] = "render" => mem[wjob[w]] = "live" /\ ~done[wjob[w]]
       /\ wpc[w] = "notify" => done[wjob[w]]
  /\ mpc \in {"down", "reaping"} => \A w \in Workers : wpc[w] = "none"

\* A caller has a job exactly while a sync or a successful try_get is under way;
\* the job is for the cue it asked for, and is counted as waited for from the
\* enqueue on.
ClientsSound ==
  \A c \in Clients :
    /\ cjob[c] # None <=>
         cpc[c] \notin {"idle", "submit_depth", "submit_enqueue"}
    /\ cjob[c] # None => cue[cjob[c]] = want[c]
    /\ cpc[c] \in {"submit_depth", "submit_enqueue"} => want[c] \in Cues
    /\ cpc[c] = "sync_enqueue" =>
         /\ ~done[cjob[c]] /\ ~freed[cjob[c]]
         /\ cjob[c] \notin Range(queue)
         /\ Holding(cjob[c]) = {}
    /\ cpc[c] \in {"sync_lock", "sync_cwait", "sync_take"} => waiters[cjob[c]] = 1
    /\ cpc[c] \in {"sync_take", "get_take"} => done[cjob[c]]

\* An untouched container is blank; a waiter count belongs to a blocked caller;
\* a container marked freed is out of both lists; a bitmap exists once done.
JobsSound ==
  \A j \in Jobs :
    /\ mem[j] = "unallocated" => ~done[j]
    /\ waiters[j] # 0 =>
         \E c \in Clients :
           cjob[c] = j /\ cpc[c] \in {"sync_lock", "sync_cwait", "sync_take"}
    /\ freed[j] => j \notin Range(queue) \cup Range(all_jobs)
    /\ freed[j] => mem[j] # "unallocated"
    /\ ~done[j] <=> bitmap[j] = "none"

\* The conjunction that every step of the pool preserves.
PoolInv ==
  /\ TypeOK /\ QueueSound /\ ListSound /\ CallerSafe /\ BitmapOwned /\ NoLeak
  /\ NoDoubleFree /\ ResultMatches
  /\ WorkersSound /\ ClientsSound /\ JobsSound

-----------------------------------------------------------------------------
(* What callers see, in the terms of RenderService.                        *)

Status(j) ==
  CASE mem[j] = "unallocated" -> "none"
    [] mem[j] = "live" /\ ~done[j] -> "pending"
    [] mem[j] = "live" /\ done[j] -> "ready"
    [] mem[j] = "freed" /\ bitmap[j] = "caller" -> "delivered"
    [] mem[j] = "freed" /\ bitmap[j] = "released" -> "discarded"
    [] OTHER -> "lost"

Service == INSTANCE RenderService WITH
             open <- pool_active, status <- [j \in Jobs |-> Status(j)]

\* Used as srt2dvbsub.c uses it, with all calls made by one thread, the pool
\* implements RenderService: every accepted job is rendered, its bitmap is
\* delivered once or discarded, and shutdown drops no unrendered job.
RefinesService == Service!Spec
=============================================================================
