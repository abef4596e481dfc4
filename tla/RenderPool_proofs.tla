------------------------- MODULE RenderPool_proofs --------------------------
(***************************************************************************)
(* Theorems about RenderPool, for every number of workers, callers, jobs   *)
(* and cues, with and without overlapping callers and failing thread       *)
(* creation: one lemma per action, first the workers and                   *)
(* render_pool_render_sync up to its wait, then callers, init and          *)
(* shutdown.                                                               *)
(***************************************************************************)
EXTENDS RenderPool, TLAPS

-----------------------------------------------------------------------------
(* Workers, after what the list operations do to the jobs in a list.       *)

\* Linking a job behind job_tail adds it to the queue, and repeats nothing.
LEMMA AppendLemma ==
  ASSUME NEW s \in Seq(Jobs), NEW x \in Jobs
  PROVE  /\ Append(s, x) \in Seq(Jobs)
         /\ Range(Append(s, x)) = Range(s) \cup {x}
         /\ IsInjective(s) /\ x \notin Range(s) => IsInjective(Append(s, x))
<1> DEFINE t == Append(s, x)
<1>1. /\ t \in Seq(Jobs)
      /\ DOMAIN s = 1..Len(s) /\ Len(s) \in Nat
      /\ DOMAIN t = 1..(Len(s) + 1)
      /\ \A i \in 1..Len(s) : t[i] = s[i]
      /\ t[Len(s) + 1] = x
  OBVIOUS
<1> HIDE DEF t
<1>2. Range(t) = Range(s) \cup {x}
  BY <1>1 DEF Range
<1>3. ASSUME IsInjective(s), x \notin Range(s) PROVE IsInjective(t)
  BY <1>1, <1>3 DEF Range, IsInjective
<1> QED BY <1>1, <1>2, <1>3, Zenon DEF t

\* Unlinking job_head removes exactly the head from an injective queue.
LEMMA TailLemma ==
  ASSUME NEW s \in Seq(Jobs), s # <<>>
  PROVE  /\ Head(s) \in Jobs
         /\ Head(s) \in Range(s)
         /\ Tail(s) \in Seq(Jobs)
         /\ Range(Tail(s)) \subseteq Range(s)
         /\ Range(s) \subseteq Range(Tail(s)) \cup {Head(s)}
         /\ IsInjective(s) => IsInjective(Tail(s)) /\ Head(s) \notin Range(Tail(s))
<1> DEFINE t == Tail(s)
<1>1. /\ t \in Seq(Jobs)
      /\ Len(s) \in Nat \ {0} /\ DOMAIN s = 1..Len(s)
      /\ DOMAIN t = 1..(Len(s) - 1)
      /\ \A i \in 1..(Len(s) - 1) : t[i] = s[i + 1]
      /\ Head(s) = s[1] /\ s[1] \in Jobs
  OBVIOUS
<1> HIDE DEF t
<1>2. Head(s) \in Range(s)
  BY <1>1 DEF Range
<1>3. Range(t) \subseteq Range(s)
  BY <1>1, SMTT(60) DEF Range
<1>4. ASSUME NEW j \in Range(s), j # s[1] PROVE j \in Range(t)
  <2>1. PICK i \in 1..Len(s) : j = s[i]
    BY <1>1, Zenon DEF Range
  <2>2. i - 1 \in 1..(Len(s) - 1) /\ t[i - 1] = s[i]
    BY <2>1, <1>1, <1>4
  <2> QED BY <2>1, <2>2, <1>1, Zenon DEF Range
<1>5. ASSUME IsInjective(s) PROVE IsInjective(t) /\ s[1] \notin Range(t)
  <2>1. IsInjective(t)
    <3>1. ASSUME NEW a \in 1..(Len(s) - 1), NEW b \in 1..(Len(s) - 1), t[a] = t[b]
          PROVE  a = b
      <4>1. a + 1 \in DOMAIN s /\ b + 1 \in DOMAIN s /\ s[a + 1] = s[b + 1]
        BY <3>1, <1>1
      <4> QED BY <4>1, <1>5 DEF IsInjective
    <3> QED BY <3>1, <1>1, Zenon DEF IsInjective
  <2>2. ASSUME s[1] \in Range(t) PROVE FALSE
    <3>1. PICK a \in 1..(Len(s) - 1) : s[1] = t[a]
      BY <2>2, <1>1, Zenon DEF Range
    <3>2. s[1] = s[a + 1] /\ 1 \in DOMAIN s /\ a + 1 \in DOMAIN s
      BY <3>1, <1>1
    <3> QED BY <3>2, <1>5 DEF IsInjective
  <2> QED BY <2>1, <2>2, Zenon
<1> QED BY <1>1, <1>2, <1>3, <1>4, <1>5, Zenon DEF t

\* Linking a job in front of all_jobs.
LEMMA ConsLemma ==
  ASSUME NEW s \in Seq(Jobs), NEW x \in Jobs
  PROVE  /\ <<x>> \o s \in Seq(Jobs)
         /\ Range(<<x>> \o s) = Range(s) \cup {x}
         /\ IsInjective(s) /\ x \notin Range(s) => IsInjective(<<x>> \o s)
<1> DEFINE t == <<x>> \o s
<1>1. /\ t \in Seq(Jobs)
      /\ Len(s) \in Nat /\ DOMAIN s = 1..Len(s)
      /\ DOMAIN t = 1..(Len(s) + 1)
      /\ t[1] = x
      /\ \A i \in 1..Len(s) : t[i + 1] = s[i]
  OBVIOUS
<1>2. \A a \in DOMAIN t : a # 1 => a - 1 \in DOMAIN s /\ t[a] = s[a - 1]
  BY <1>1
<1> HIDE DEF t
<1>3. Range(t) = Range(s) \cup {x}
  <2>1. Range(t) \subseteq Range(s) \cup {x}
    BY <1>1, <1>2 DEF Range
  <2>2. x \in Range(t)
    BY <1>1 DEF Range
  <2>3. ASSUME NEW j \in Range(s) PROVE j \in Range(t)
    <3>1. PICK i \in 1..Len(s) : j = s[i]
      BY <1>1, Zenon DEF Range
    <3>2. i + 1 \in DOMAIN t /\ t[i + 1] = j
      BY <3>1, <1>1
    <3> QED BY <3>2, Zenon DEF Range
  <2> QED BY <2>1, <2>2, <2>3, Zenon
<1>4. ASSUME IsInjective(s), x \notin Range(s) PROVE IsInjective(t)
  <2>1. ASSUME NEW a \in DOMAIN t, NEW b \in DOMAIN t, t[a] = t[b] PROVE a = b
    <3>1. CASE a = 1 \/ b = 1
      BY <3>1, <2>1, <1>1, <1>2, <1>4 DEF Range
    <3>2. CASE a # 1 /\ b # 1
      <4>1. a - 1 = b - 1
        BY <3>2, <2>1, <1>2, <1>4, Zenon DEF IsInjective
      <4> QED BY <4>1, <1>1
    <3> QED BY <3>1, <3>2, Zenon
  <2> QED BY <2>1, Zenon DEF IsInjective
<1> QED BY <1>1, <1>3, <1>4, Zenon DEF t

\* Unlinking the i-th entry of all_jobs removes exactly that job.
LEMMA UnlinkLemma ==
  ASSUME NEW s \in Seq(Jobs), NEW i \in DOMAIN s
  PROVE  /\ s[i] \in Jobs
         /\ s[i] \in Range(s)
         /\ Unlink(s, i) \in Seq(Jobs)
         /\ Range(Unlink(s, i)) \subseteq Range(s)
         /\ Range(s) \subseteq Range(Unlink(s, i)) \cup {s[i]}
         /\ IsInjective(s) => /\ IsInjective(Unlink(s, i))
                              /\ s[i] \notin Range(Unlink(s, i))
<1> DEFINE f == SubSeq(s, 1, i - 1)
           g == SubSeq(s, i + 1, Len(s))
           t == f \o g
           src(a) == IF a < i THEN a ELSE a + 1
<1>0. Len(s) \in Nat /\ DOMAIN s = 1..Len(s) /\ i \in 1..Len(s) /\ s[i] \in Jobs
  OBVIOUS
<1>1. /\ f \in Seq(Jobs) /\ Len(f) = i - 1
      /\ \A a \in 1..(i - 1) : f[a] = s[a]
  BY <1>0
<1>2. /\ g \in Seq(Jobs) /\ Len(g) = Len(s) - i
      /\ \A a \in 1..(Len(s) - i) : g[a] = s[a + i]
  BY <1>0, SMTT(60)
<1> HIDE DEF f, g
<1>3. /\ t \in Seq(Jobs)
      /\ Len(t) = Len(f) + Len(g)
      /\ \A a \in 1..(Len(f) + Len(g)) :
           t[a] = IF a <= Len(f) THEN f[a] ELSE g[a - Len(f)]
  BY <1>1, <1>2, SMTT(60)
<1> HIDE DEF t
<1>4. DOMAIN t = 1..(Len(s) - 1)
  BY <1>0, <1>1, <1>2, <1>3, SMTT(60)
<1>5. ASSUME NEW a \in 1..(Len(s) - 1)
       PROVE  src(a) \in DOMAIN s /\ t[a] = s[src(a)]
  <2>1. CASE a < i
    <3>1. a \in 1..(i - 1) /\ a <= Len(f) /\ src(a) = a
      BY <2>1, <1>0, <1>1
    <3>2. a \in 1..(Len(f) + Len(g))
      BY <1>0, <1>1, <1>2, SMTT(60)
    <3>3. t[a] = f[a] /\ f[a] = s[a]
      BY <3>1, <3>2, <1>1, <1>3, Zenon
    <3> QED BY <3>1, <3>3, <1>0
  <2>2. CASE a >= i
    <3>1. /\ a - Len(f) \in 1..(Len(s) - i) /\ ~(a <= Len(f))
          /\ src(a) = a + 1 /\ a - Len(f) + i = a + 1
      BY <2>2, <1>0, <1>1
    <3>2. t[a] = g[a - Len(f)]
      <4>1. a \in 1..(Len(f) + Len(g))
        BY <1>0, <1>1, <1>2, SMTT(60)
      <4> QED BY <4>1, <3>1, <1>3, Zenon
    <3>3. g[a - Len(f)] = s[a + 1]
      BY <3>1, <1>2, Zenon
    <3> QED BY <3>1, <3>2, <3>3, <1>0
  <2> QED BY <2>1, <2>2, <1>0
<1>6. Range(t) \subseteq Range(s)
  BY <1>4, <1>5, Zenon DEF Range
<1>7. ASSUME NEW j \in Range(s), j # s[i] PROVE j \in Range(t)
  <2>1. PICK b \in DOMAIN s : j = s[b]
    BY Zenon DEF Range
  <2>2. PICK a \in 1..(Len(s) - 1) : src(a) = b
    <3>1. CASE b < i
      <4>1. b \in 1..(Len(s) - 1) /\ src(b) = b
        BY <3>1, <1>0
      <4> QED BY <4>1, Zenon
    <3>2. CASE b > i
      <4>1. b - 1 \in 1..(Len(s) - 1) /\ src(b - 1) = b
        BY <3>2, <1>0
      <4> QED BY <4>1, Zenon
    <3> QED BY <3>1, <3>2, <2>1, <1>7, <1>0
  <2> QED BY <2>1, <2>2, <1>4, <1>5, Zenon DEF Range
<1>8. ASSUME IsInjective(s) PROVE IsInjective(t) /\ s[i] \notin Range(t)
  <2>1. ASSUME NEW a \in 1..(Len(s) - 1), NEW b \in 1..(Len(s) - 1), t[a] = t[b]
        PROVE  a = b
    <3>1. src(a) = src(b)
      BY <2>1, <1>5, <1>8, Zenon DEF IsInjective
    <3> QED BY <3>1, <1>0
  <2>2. ASSUME NEW a \in 1..(Len(s) - 1), t[a] = s[i] PROVE FALSE
    <3>1. src(a) = i
      BY <2>2, <1>5, <1>8, Zenon DEF IsInjective
    <3> QED BY <3>1, <1>0
  <2> QED BY <2>1, <2>2, <1>4, Zenon DEF IsInjective, Range
<1>9. s[i] \in Range(s)
  BY Zenon DEF Range
<1>10. Unlink(s, i) = t
  BY Zenon DEF Unlink, t, f, g
<1> QED BY <1>0, <1>3, <1>6, <1>7, <1>8, <1>9, <1>10, Zenon

\* The empty list.
LEMMA EmptyLemma == <<>> \in Seq(Jobs) /\ Range(<<>>) = {} /\ IsInjective(<<>>)
<1>1. <<>> \in Seq(Jobs) /\ DOMAIN <<>> = {}
  OBVIOUS
<1> QED BY <1>1, Zenon DEF Range, IsInjective

\* pthread_cond_signal moves at most one waiting worker back to its loop.
LEMMA SignalLemma ==
  ASSUME wpc \in [Workers -> WorkerPC], SignalWorker
  PROVE  /\ wpc' \in [Workers -> WorkerPC]
         /\ \A w \in Workers :
              wpc'[w] # wpc[w] => wpc[w] = "wait" /\ wpc'[w] = "loop"
<1>1. CASE wpc' = wpc
  BY <1>1, Zenon
<1>2. CASE \E w \in Waiting : wpc' = [wpc EXCEPT ![w] = "loop"]
  BY <1>2, Zenon DEF Waiting, WorkerPC
<1> QED BY <1>1, <1>2, Zenon DEF SignalWorker
\* A part of PoolInv survives a step that leaves the variables it reads alone.
LEMMA Frame ==
  ASSUME PoolInv
  PROVE  /\ UNCHANGED <<queue, mem, done, wpc, wjob>> => QueueSound'
         /\ UNCHANGED <<queue, all_jobs, mem, done, wpc, wjob>> => ListSound'
         /\ UNCHANGED <<all_jobs, mem, cjob>> => CallerSafe' /\ NoLeak'
         /\ UNCHANGED <<mem, done, bitmap>> => BitmapOwned'
         /\ UNCHANGED mem => NoDoubleFree'
         /\ UNCHANGED <<want, got>> => ResultMatches'
         /\ UNCHANGED <<mem, done, wpc, wjob, mpc>> => WorkersSound'
         /\ UNCHANGED <<queue, cue, done, waiters, freed, wpc, wjob, cpc, cjob, want>>
              => ClientsSound'
         /\ UNCHANGED <<queue, all_jobs, jobVars, cpc, cjob>> => JobsSound'
<1>1. UNCHANGED <<queue, mem, done, wpc, wjob>> => QueueSound'
  BY DEF PoolInv, QueueSound, Holding
<1>2. UNCHANGED <<queue, all_jobs, mem, done, wpc, wjob>> => ListSound'
  BY DEF PoolInv, ListSound
<1>3. UNCHANGED <<all_jobs, mem, cjob>> => CallerSafe' /\ NoLeak'
  BY Zenon DEF PoolInv, CallerSafe, NoLeak
<1>4. UNCHANGED <<mem, done, bitmap>> => BitmapOwned'
  BY Zenon DEF PoolInv, BitmapOwned
<1>5. UNCHANGED mem => NoDoubleFree'
  BY Zenon DEF PoolInv, NoDoubleFree
<1>6. UNCHANGED <<want, got>> => ResultMatches'
  BY Zenon DEF PoolInv, ResultMatches
<1>7. UNCHANGED <<mem, done, wpc, wjob, mpc>> => WorkersSound'
  BY DEF PoolInv, WorkersSound
<1>8. UNCHANGED <<queue, cue, done, waiters, freed, wpc, wjob, cpc, cjob, want>>
        => ClientsSound'
  BY DEF PoolInv, ClientsSound, Holding
<1>9. UNCHANGED <<queue, all_jobs, jobVars, cpc, cjob>> => JobsSound'
  BY DEF PoolInv, JobsSound, jobVars
<1> QED BY <1>1, <1>2, <1>3, <1>4, <1>5, <1>6, <1>7, <1>8, <1>9, Zenon

\* Jobs stay sound when the lists only shrink and no blocked caller leaves.
LEMMA JobsFrame ==
  ASSUME JobsSound, UNCHANGED <<mem, done, waiters, freed, bitmap, cjob>>,
         Range(queue') \subseteq Range(queue), Range(all_jobs') \subseteq Range(all_jobs),
         \A d \in Clients : cpc[d] \in {"sync_lock", "sync_cwait", "sync_take"} =>
                             cpc'[d] \in {"sync_lock", "sync_cwait", "sync_take"}
  PROVE  JobsSound'
<1> SUFFICES ASSUME NEW i \in Jobs
             PROVE  /\ mem'[i] = "unallocated" => ~done'[i]
                    /\ waiters'[i] # 0 => \E d \in Clients :
                         /\ cjob'[d] = i
                         /\ cpc'[d] \in {"sync_lock", "sync_cwait", "sync_take"}
                    /\ freed'[i] => i \notin Range(queue') \cup Range(all_jobs')
                    /\ freed'[i] => mem'[i] # "unallocated"
                    /\ ~done'[i] <=> bitmap'[i] = "none"
  BY Zenon DEF JobsSound
<1>1. /\ mem[i] = "unallocated" => ~done[i]
      /\ freed[i] => i \notin Range(queue) \cup Range(all_jobs)
      /\ freed[i] => mem[i] # "unallocated"
      /\ ~done[i] <=> bitmap[i] = "none"
  BY Zenon DEF JobsSound
<1>2. waiters[i] # 0 => \E d \in Clients :
        cjob[d] = i /\ cpc[d] \in {"sync_lock", "sync_cwait", "sync_take"}
  BY Zenon DEF JobsSound
<1>3. waiters'[i] # 0 => \E d \in Clients :
        cjob'[d] = i /\ cpc'[d] \in {"sync_lock", "sync_cwait", "sync_take"}
  BY <1>2, Zenon
<1> QED BY <1>1, <1>3, Zenon

\* The keyed list stays sound when workers go on rendering and jobs that leave
\* the queue are rendered.
LEMMA ListFrame ==
  ASSUME ListSound, UNCHANGED <<all_jobs, mem, done>>,
         \A w \in Workers : wpc[w] = "render" => wpc'[w] = "render" /\ wjob'[w] = wjob[w],
         \A i \in Range(queue) : \/ i \in Range(queue')
                                 \/ \E w \in Workers : wpc'[w] = "render" /\ wjob'[w] = i
  PROVE  ListSound'
<1> SUFFICES ASSUME NEW i \in Range(all_jobs), ~done[i]
             PROVE  \/ i \in Range(queue')
                    \/ \E w \in Workers : wpc'[w] = "render" /\ wjob'[w] = i
  BY Zenon DEF ListSound
<1>1. \/ i \in Range(queue)
      \/ \E w \in Workers : wpc[w] = "render" /\ wjob[w] = i
  BY Zenon DEF ListSound
<1> QED BY <1>1, Zenon

-----------------------------------------------------------------------------
(* The steps.                                                              *)

USE PoolAssumption
USE DEF poolVars, jobVars, workerVars, clientVars, mainVars

\* Dequeuing hands the head of the queue to exactly one worker.
LEMMA WorkerTakeStep ==
  ASSUME PoolInv, NEW w \in Workers, WorkerTake(w)
  PROVE  PoolInv'
<1>1. CASE queue = <<>>
  <2>1. /\ wpc[w] = "loop"
        /\ wpc' = [wpc EXCEPT ![w] = IF running THEN "wait" ELSE "exit"]
        /\ UNCHANGED <<poolVars, jobVars, wjob, clientVars, mainVars>>
    BY <1>1, Zenon DEF WorkerTake
  <2>2. /\ wpc' \in [Workers -> WorkerPC]
        /\ \A v \in Workers \ {w} : wpc'[v] = wpc[v]
        /\ wpc'[w] \in {"wait", "exit"}
    BY <2>1, Zenon DEF PoolInv, TypeOK, WorkerPC
  <2>3. TypeOK'
    BY <2>1, <2>2, Zenon DEF PoolInv, TypeOK
  <2>4. QueueSound' /\ ListSound' /\ WorkersSound' /\ ClientsSound'
    BY <2>1, <2>2, SMTT(60) DEF PoolInv, QueueSound, ListSound, WorkersSound, ClientsSound,
                      Holding
  <2> QED BY <2>1, <2>3, <2>4 DEF PoolInv, CallerSafe, BitmapOwned, NoLeak,
                                  NoDoubleFree, ResultMatches, JobsSound
<1>2. CASE queue # <<>>
  <2> DEFINE h == Head(queue)
             rest == Range(queue')
  <2>1. /\ wpc[w] = "loop"
        /\ wpc' = [wpc EXCEPT ![w] = "render"]
        /\ wjob' = [wjob EXCEPT ![w] = h]
        /\ queue' = Tail(queue)
        /\ UNCHANGED <<pool_active, running, all_jobs, jobVars, clientVars, mainVars>>
    BY <1>2, Zenon DEF WorkerTake
  <2>2. /\ h \in Jobs /\ h \in Range(queue) /\ h \notin rest
        /\ queue' \in Seq(Jobs) /\ IsInjective(queue')
        /\ rest \subseteq Range(queue) /\ Range(queue) \subseteq rest \cup {h}
    <3>1. queue \in Seq(Jobs) /\ IsInjective(queue)
      BY Zenon DEF PoolInv, TypeOK, QueueSound
    <3> QED BY <1>2, <2>1, <3>1, TailLemma, Zenon
  <2>3. mem[h] = "live" /\ ~done[h] /\ Holding(h) = {}
    BY <2>2, Zenon DEF PoolInv, QueueSound
  <2> HIDE DEF h, rest
  <2>4. TypeOK'
    BY <2>1, <2>2, Zenon DEF PoolInv, TypeOK, WorkerPC
  <2>5. QueueSound'
    BY <2>1, <2>2, <2>3 DEF PoolInv, TypeOK, QueueSound, Holding, rest
  <2>6. ListSound'
    BY <2>1, <2>2, <2>3 DEF PoolInv, TypeOK, ListSound, rest
  <2>7. WorkersSound'
    BY <2>1, <2>2, <2>3 DEF PoolInv, TypeOK, WorkersSound, Holding
  <2>8. ClientsSound'
    BY <2>1, <2>2, <2>3, SMTT(60) DEF PoolInv, TypeOK, ClientsSound, Holding, rest
  <2>9. JobsSound'
    <3>1. JobsSound /\ UNCHANGED <<mem, done, waiters, freed, bitmap, cjob, all_jobs, cpc>>
      BY <2>1, Zenon DEF PoolInv, jobVars, clientVars
    <3>2. Range(queue') \subseteq Range(queue) /\ Range(all_jobs') \subseteq Range(all_jobs)
      BY <2>2, <3>1, Zenon DEF rest
    <3> QED BY <3>1, <3>2, JobsFrame, Zenon
  <2> QED BY <2>1, <2>4, <2>5, <2>6, <2>7, <2>8, <2>9, Frame, ZenonT(60) DEF PoolInv
<1> QED BY <1>1, <1>2, Zenon

\* A wake-up without a signal only sends the worker back to its loop.
LEMMA WorkerSpuriousStep ==
  ASSUME PoolInv, NEW w \in Workers, WorkerSpurious(w)
  PROVE  PoolInv'
<1>1. /\ wpc[w] = "wait"
      /\ wpc' = [wpc EXCEPT ![w] = "loop"]
      /\ UNCHANGED <<poolVars, jobVars, wjob, clientVars, mainVars>>
  BY Zenon DEF WorkerSpurious
<1>2. TypeOK'
  BY <1>1, Zenon DEF PoolInv, TypeOK, WorkerPC
<1>3. QueueSound' /\ ListSound' /\ WorkersSound' /\ ClientsSound'
  BY <1>1 DEF PoolInv, TypeOK, QueueSound, ListSound, WorkersSound, ClientsSound,
              Holding
<1>4. UNCHANGED <<queue, all_jobs, jobVars, clientVars>>
  BY <1>1, Zenon DEF poolVars
<1> QED BY <1>2, <1>3, <1>4, Frame, ZenonT(60) DEF PoolInv

\* Publishing finishes a live job that only this worker holds.
LEMMA WorkerPublishStep ==
  ASSUME PoolInv, NEW w \in Workers, WorkerPublish(w)
  PROVE  PoolInv'
<1> DEFINE j == wjob[w]
<1>1. /\ wpc[w] = "render"
      /\ wpc' = [wpc EXCEPT ![w] = "notify"]
      /\ bitmap' = [bitmap EXCEPT ![j] = "job"]
      /\ done' = [done EXCEPT ![j] = TRUE]
      /\ UNCHANGED <<poolVars, mem, cue, waiters, freed, wjob, clientVars, mainVars>>
  BY Zenon DEF WorkerPublish
<1>2. j \in Jobs /\ mem[j] = "live" /\ ~done[j]
  BY <1>1, SMTT(60) DEF PoolInv, TypeOK, WorkersSound
<1>3. j \notin Range(queue)
  BY <1>1, <1>2, Zenon DEF PoolInv, QueueSound, Holding
<1>4. \A v \in Workers \ {w} : wjob[v] # j
  BY <1>2, Zenon DEF PoolInv, WorkersSound
<1>5. \A c \in Clients : cpc[c] = "sync_enqueue" => cjob[c] # j
  BY <1>1, Zenon DEF PoolInv, ClientsSound, Holding
<1> HIDE DEF j
<1>6. TypeOK'
  BY <1>1, <1>2, Zenon DEF PoolInv, TypeOK, WorkerPC
<1>7. QueueSound'
  BY <1>1, <1>2, <1>3 DEF PoolInv, TypeOK, QueueSound, Holding, j
<1>8. ListSound'
  BY <1>1, <1>2, <1>4 DEF PoolInv, TypeOK, ListSound, j
<1>9. BitmapOwned'
  BY <1>1, <1>2 DEF PoolInv, TypeOK, BitmapOwned
<1>10. WorkersSound'
  BY <1>1, <1>2, <1>4, SMTT(60) DEF PoolInv, TypeOK, WorkersSound, j
<1>11. ClientsSound'
  BY <1>1, <1>2, <1>5, SMTT(60) DEF PoolInv, TypeOK, ClientsSound, Holding
<1>12. JobsSound'
  BY <1>1, <1>2 DEF PoolInv, TypeOK, JobsSound
<1> QED BY <1>1, <1>6, <1>7, <1>8, <1>9, <1>10, <1>11, <1>12, Frame, ZenonT(60) DEF PoolInv

\* A job is held by no more workers than before if none takes one up.
LEMMA HoldingShrinks ==
  ASSUME UNCHANGED wjob,
         \A w \in Workers : wpc'[w] \in {"render", "notify"} => wpc'[w] = wpc[w]
  PROVE  \A j : Holding(j)' \subseteq Holding(j)
  BY Zenon DEF Holding

\* Notification releases the worker's job and wakes its waiter.
LEMMA WorkerNotifyStep ==
  ASSUME PoolInv, NEW w \in Workers, WorkerNotify(w)
  PROVE  PoolInv'
<1>1. /\ wpc[w] = "notify"
      /\ wpc' = [wpc EXCEPT ![w] = "loop"]
      /\ wjob' = [wjob EXCEPT ![w] = None]
      /\ UNCHANGED <<poolVars, jobVars, cjob, want, got, mainVars>>
  BY Zenon DEF WorkerNotify
<1>2. /\ cpc' \in [Clients -> ClientPC]
      /\ \A c \in Clients :
           cpc'[c] # cpc[c] => cpc[c] = "sync_cwait" /\ cpc'[c] = "sync_lock"
  BY Zenon DEF WorkerNotify, PoolInv, TypeOK, ClientPC
<1>3. TypeOK'
  BY <1>1, <1>2, Zenon DEF PoolInv, TypeOK, WorkerPC
<1>4. QueueSound' /\ ListSound' /\ WorkersSound'
  BY <1>1, SMTT(60) DEF PoolInv, TypeOK, QueueSound, ListSound, WorkersSound, Holding
<1>5. ClientsSound'
  BY <1>1, <1>2, SMTT(60) DEF PoolInv, TypeOK, ClientsSound, Holding
<1>6. JobsSound'
  <2>1. JobsSound /\ UNCHANGED <<mem, done, waiters, freed, bitmap, cjob, queue, all_jobs>>
    BY <1>1, Zenon DEF PoolInv, jobVars, poolVars
  <2>2. ASSUME NEW c \in Clients, cpc[c] \in {"sync_lock", "sync_cwait", "sync_take"}
        PROVE  cpc'[c] \in {"sync_lock", "sync_cwait", "sync_take"}
    BY <1>2, <2>2, Zenon
  <2> QED BY <2>1, <2>2, JobsFrame, Zenon
<1> QED BY <1>1, <1>3, <1>4, <1>5, <1>6, Frame, ZenonT(60) DEF PoolInv

\* A sync call that starts, fails or renders without the pool.
LEMMA SyncCallStep ==
  ASSUME PoolInv, NEW c \in Clients, NEW k \in Cues, SyncCall(c, k)
  PROVE  PoolInv'
<1>0. /\ cpc[c] = "idle" /\ cjob[c] = None
      /\ want' = [want EXCEPT ![c] = k]
      /\ UNCHANGED <<poolVars, workerVars, mainVars>>
  BY Zenon DEF SyncCall, MayCall, PoolInv, ClientsSound
<1>1. ASSUME NEW bm \in {k, None}, Return(c, bm), UNCHANGED jobVars
      PROVE  PoolInv'
  <2>1. TypeOK'
    BY <1>0, <1>1, Zenon DEF PoolInv, TypeOK, Return, ClientPC
  <2>2. CallerSafe' /\ ResultMatches'
    BY <1>0, <1>1, SMTT(60) DEF PoolInv, TypeOK, CallerSafe, ResultMatches, Return
  <2>3. ClientsSound'
    BY <1>0, <1>1, SMTT(60) DEF PoolInv, TypeOK, ClientsSound, Holding, Return
  <2>4. NoLeak' /\ JobsSound'
    BY <1>0, <1>1 DEF PoolInv, TypeOK, NoLeak, JobsSound, Return
  <2> QED BY <1>0, <1>1, <2>1, <2>2, <2>3, <2>4, Frame, ZenonT(60) DEF PoolInv
<1>2. ASSUME NEW j \in Jobs, NewJob(j, k), cjob' = [cjob EXCEPT ![c] = j],
             cpc' = [cpc EXCEPT ![c] = "sync_enqueue"],
             got' = [got EXCEPT ![c] = None],
             UNCHANGED <<done, waiters, freed, bitmap>>
      PROVE  PoolInv'
  <2>1. /\ mem[j] = "unallocated"
        /\ mem' = [mem EXCEPT ![j] = "live"]
        /\ cue' = [cue EXCEPT ![j] = k]
    BY <1>2, Zenon DEF NewJob
  <2>2. /\ j \notin Range(queue) /\ j \notin Range(all_jobs)
        /\ \A d \in Clients : cjob[d] # j
        /\ Holding(j) = {}
        /\ ~done[j] /\ ~freed[j]
    <3>1. ~done[j] /\ ~freed[j]
      BY <2>1, Zenon DEF PoolInv, JobsSound
    <3>2. Holding(j) = {}
      BY <2>1, <3>1, Zenon DEF PoolInv, WorkersSound, Holding
    <3> QED BY <2>1, <3>1, <3>2, SMTT(60) DEF PoolInv, QueueSound, ListSound, CallerSafe
  <2>3. TypeOK'
    BY <1>0, <1>2, <2>1, Zenon DEF PoolInv, TypeOK, ClientPC
  <2>4. QueueSound' /\ ListSound' /\ WorkersSound'
    BY <1>0, <1>2, <2>1, <2>2, SMTT(60)
       DEF PoolInv, TypeOK, QueueSound, ListSound, WorkersSound, Holding
  <2>5. CallerSafe' /\ NoLeak' /\ NoDoubleFree' /\ ResultMatches'
    BY <1>0, <1>2, <2>1, <2>2, SMTT(60)
       DEF PoolInv, TypeOK, CallerSafe, NoLeak, NoDoubleFree, ResultMatches
  <2>6. BitmapOwned'
    BY <1>0, <1>2, <2>1, <2>2, SMTT(60) DEF PoolInv, TypeOK, BitmapOwned
  <2>7. ClientsSound'
    BY <1>0, <1>2, <2>1, <2>2, SMTT(60) DEF PoolInv, TypeOK, ClientsSound, Holding
  <2>8. JobsSound'
    BY <1>0, <1>2, <2>1, <2>2, SMTT(60) DEF PoolInv, TypeOK, JobsSound
  <2> QED BY <2>3, <2>4, <2>5, <2>6, <2>7, <2>8, Zenon DEF PoolInv
<1> QED BY <1>1, <1>2, Zenon DEF SyncCall

\* The caller's transient job enters the queue with its waiter counted.
LEMMA SyncEnqueueStep ==
  ASSUME PoolInv, NEW c \in Clients, SyncEnqueue(c)
  PROVE  PoolInv'
<1> DEFINE j == cjob[c]
<1>1. /\ cpc[c] = "sync_enqueue"
      /\ queue' = Append(queue, j)
      /\ waiters' = [waiters EXCEPT ![j] = @ + 1]
      /\ cpc' = [cpc EXCEPT ![c] = "sync_lock"]
      /\ UNCHANGED <<pool_active, running, all_jobs, mem, cue, done, freed, bitmap,
                     wjob, cjob, want, got, mainVars>>
  BY Zenon DEF SyncEnqueue
<1>2. /\ j \in Jobs /\ mem[j] = "live" /\ ~done[j] /\ ~freed[j]
      /\ j \notin Range(queue) /\ j \notin Range(all_jobs) /\ Holding(j) = {}
      /\ \A d \in Clients \ {c} : cjob[d] # j
  <2>1. j \in Jobs \cup {None}
    BY Zenon DEF PoolInv, TypeOK
  <2>2. j # None
    BY <1>1, Zenon DEF PoolInv, ClientsSound
  <2> QED BY <1>1, <2>1, <2>2, ZenonT(60) DEF PoolInv, ClientsSound, CallerSafe
<1>3. waiters[j] = 0
  BY <1>1, <1>2, SMTT(60) DEF PoolInv, JobsSound
<1>4. /\ queue' \in Seq(Jobs) /\ IsInjective(queue')
      /\ Range(queue') = Range(queue) \cup {j}
  <2>1. queue \in Seq(Jobs) /\ IsInjective(queue)
    BY Zenon DEF PoolInv, TypeOK, QueueSound
  <2> QED BY <1>1, <1>2, <2>1, AppendLemma, Zenon
<1>5. /\ wpc' \in [Workers -> WorkerPC]
      /\ \A w \in Workers :
           wpc'[w] # wpc[w] => wpc[w] = "wait" /\ wpc'[w] = "loop"
  BY SignalLemma, Zenon DEF SyncEnqueue, PoolInv, TypeOK
<1>6. \A w \in Workers : wpc'[w] \in {"render", "notify"} =>
                           wpc'[w] = wpc[w] /\ wjob[w] # j
  BY <1>2, <1>5, ZenonT(60) DEF Holding
<1> HIDE DEF j
<1>7. TypeOK'
  BY <1>1, <1>2, <1>3, <1>4, <1>5, SMTT(60) DEF PoolInv, TypeOK, ClientPC
<1>8. QueueSound'
  <2>1. \A i : Holding(i)' \subseteq Holding(i)
    BY <1>1, <1>6, HoldingShrinks, ZenonT(60)
  <2>2. QueueSound /\ UNCHANGED <<mem, done>>
    BY <1>1, Zenon DEF PoolInv
  <2> QED BY <1>2, <1>4, <2>1, <2>2, ZenonT(60) DEF QueueSound
<1>9. ListSound'
  <2>1. ListSound /\ UNCHANGED <<all_jobs, mem, done, wjob>>
    BY <1>1, Zenon DEF PoolInv
  <2>2. \A w \in Workers : wpc[w] = "render" => wpc'[w] = "render"
    BY <1>5, Zenon
  <2> QED BY <1>4, <2>1, <2>2, ListFrame, ZenonT(60)
<1>10. WorkersSound'
  <2>1. WorkersSound /\ UNCHANGED <<wjob, mem, done, mpc>>
    BY <1>1, Zenon DEF PoolInv
  <2>2. \A w \in Workers : /\ wpc'[w] = wpc[w] \/ (wpc[w] = "wait" /\ wpc'[w] = "loop")
                           /\ wpc[w] = "none" => wpc'[w] = "none"
    BY <1>5, Zenon
  <2>3. \A w \in Workers : wpc[w] = "wait" => wpc[w] \notin {"render", "notify"}
    BY Zenon
  <2>4. \A w \in Workers : wpc'[w] = "loop" => wpc'[w] \notin {"render", "notify"}
    BY Zenon
  <2> QED BY <2>1, <2>2, <2>3, <2>4, ZenonT(60) DEF WorkersSound
<1>11. ClientsSound'
  BY <1>1, <1>2, <1>3, <1>4, <1>5, <1>6, SMTT(60)
     DEF PoolInv, TypeOK, ClientsSound, Holding, j
<1>12. JobsSound'
  <2>1. ASSUME NEW i \in Jobs, waiters'[i] # 0
        PROVE  \E d \in Clients :
                 cjob'[d] = i /\ cpc'[d] \in {"sync_lock", "sync_cwait", "sync_take"}
    <3>1. CASE i = j
      BY <3>1, <1>1, Zenon DEF PoolInv, TypeOK, j
    <3>2. CASE i # j
      <4>1. waiters[i] # 0
        <5>1. waiters \in [Jobs -> Int]
          BY DEF PoolInv, TypeOK
        <5> QED BY <3>2, <2>1, <1>1, <5>1, Zenon
      <4>2. PICK d \in Clients : /\ cjob[d] = i
                                 /\ cpc[d] \in {"sync_lock", "sync_cwait", "sync_take"}
        BY <4>1, Zenon DEF PoolInv, JobsSound
      <4> QED BY <4>2, <1>1, Zenon DEF PoolInv, TypeOK
    <3> QED BY <3>1, <3>2, ZenonT(60)
  <2>2. ASSUME NEW i \in Jobs
        PROVE  /\ mem'[i] = "unallocated" => ~done'[i]
               /\ freed'[i] => mem'[i] # "unallocated"
               /\ ~done'[i] <=> bitmap'[i] = "none"
    BY <1>1, Zenon DEF PoolInv, JobsSound
  <2>3. ASSUME NEW i \in Jobs, freed'[i]
        PROVE  i \notin Range(queue') \cup Range(all_jobs')
    <3>1. freed[i] /\ i # j /\ all_jobs' = all_jobs
      BY <2>3, <1>1, <1>2, Zenon
    <3>2. i \notin Range(queue) \cup Range(all_jobs)
      BY <3>1, Zenon DEF PoolInv, JobsSound
    <3> QED BY <3>1, <3>2, <1>4, Zenon
  <2> QED BY <2>1, <2>2, <2>3, Zenon DEF JobsSound
<1> QED BY <1>1, <1>7, <1>8, <1>9, <1>10, <1>11, <1>12, Frame, ZenonT(60)
        DEF PoolInv

\* Testing done under done_mtx: the caller leaves the loop only when it is set.
LEMMA SyncLockStep ==
  ASSUME PoolInv, NEW c \in Clients, SyncLock(c) \/ SyncSpurious(c)
  PROVE  PoolInv'
<1>1. UNCHANGED <<poolVars, jobVars, workerVars, cjob, want, got, mainVars>>
  BY Zenon DEF SyncLock, SyncSpurious
<1>2. cpc[c] \in {"sync_lock", "sync_cwait"}
  BY Zenon DEF SyncLock, SyncSpurious
<1> DEFINE Waited == {"sync_lock", "sync_cwait", "sync_take"}
<1>3. PICK p \in Waited : /\ cpc' = [cpc EXCEPT ![c] = p]
                          /\ p = "sync_take" => done[cjob[c]]
  BY ZenonT(60) DEF SyncLock, SyncSpurious
<1>4. TypeOK'
  BY <1>1, <1>3, Zenon DEF PoolInv, TypeOK, ClientPC
<1>5. ClientsSound'
  BY <1>1, <1>2, <1>3, SMTT(60) DEF PoolInv, TypeOK, ClientsSound, Holding
<1>6. JobsSound'
  <2>1. ASSUME NEW d \in Clients, cpc[d] \in Waited PROVE cpc'[d] \in Waited
    BY <2>1, <1>3, Zenon DEF PoolInv, TypeOK
  <2>2. JobsSound /\ UNCHANGED <<mem, done, waiters, freed, bitmap, cjob, queue, all_jobs>>
    BY <1>1, Zenon DEF PoolInv, jobVars, poolVars
  <2> QED BY <2>1, <2>2, JobsFrame, ZenonT(60)
<1> QED BY <1>1, <1>4, <1>5, <1>6, Frame, ZenonT(60) DEF PoolInv

USE PoolAssumption
USE DEF poolVars, jobVars, workerVars, clientVars, mainVars

-----------------------------------------------------------------------------
(* Callers: taking a result, submitting a job, looking one up.             *)

\* A caller that takes its finished job (the end of a sync call or of a
\* successful try_get) frees a live container that nobody else can reach.
LEMMA TakeStep ==
  ASSUME PoolInv, NEW c \in Clients, SyncTake(c) \/ GetTake(c)
  PROVE  PoolInv'
<1> DEFINE j == cjob[c]
<1>1. /\ cpc[c] \in {"sync_take", "get_take"}
      /\ StealAndCleanup(j)
      /\ Return(c, cue[j])
      /\ UNCHANGED <<poolVars, cue, done, freed, workerVars, want, mainVars>>
  BY Zenon DEF SyncTake, GetTake
<1>2. j \in Jobs /\ j # None
  <2>1. j \in Jobs \cup {None}
    BY Zenon DEF PoolInv, TypeOK
  <2>2. j # None
    BY <1>1, Zenon DEF PoolInv, ClientsSound
  <2> QED BY <2>1, <2>2, Zenon
<1>3. /\ done[j] /\ cue[j] = want[c]
      /\ mem[j] = "live" /\ j \notin Range(all_jobs)
      /\ \A d \in Clients \ {c} : cjob[d] # j
  BY <1>1, <1>2, Zenon DEF PoolInv, ClientsSound, CallerSafe
<1>4. /\ bitmap' = [bitmap EXCEPT ![j] = "caller"]
      /\ mem' = [mem EXCEPT ![j] = "freed"]
  BY <1>1, <1>2, <1>3, Zenon DEF StealAndCleanup, Release, PoolInv, TypeOK
<1>5. /\ cpc' = [cpc EXCEPT ![c] = "idle"]
      /\ cjob' = [cjob EXCEPT ![c] = None]
      /\ got' = [got EXCEPT ![c] = cue[j]]
  BY <1>1, Zenon DEF Return
<1>6. /\ waiters' \in [Jobs -> Nat]
      /\ \A i \in Jobs \ {j} : waiters'[i] = waiters[i]
      /\ waiters'[j] = 0
  <2>1. CASE SyncTake(c)
    <3>1. waiters' = [waiters EXCEPT ![j] = @ - 1] /\ waiters[j] = 1
      BY <2>1, <1>2, Zenon DEF SyncTake, PoolInv, ClientsSound
    <3> QED BY <3>1, <1>2 DEF PoolInv, TypeOK
  <2>2. CASE GetTake(c)
    <3>1. waiters' = waiters /\ cpc[c] = "get_take"
      BY <2>2, Zenon DEF GetTake
    <3>2. waiters[j] = 0
      BY <3>1, <1>2, <1>3 DEF PoolInv, JobsSound
    <3> QED BY <3>1, <3>2, Zenon DEF PoolInv, TypeOK
  <2> QED BY <2>1, <2>2, Zenon
<1>7. j \notin Range(queue)
  BY <1>3, Zenon DEF PoolInv, QueueSound
<1> HIDE DEF j
<1>8. TypeOK'
  <2>1. cue[j] \in Cues \cup {None}
    BY <1>2, Zenon DEF PoolInv, TypeOK
  <2>2. /\ cpc' \in [Clients -> ClientPC]
        /\ cjob' \in [Clients -> Jobs \cup {None}]
        /\ got' \in [Clients -> Cues \cup {None}]
    BY <1>5, <2>1, Zenon DEF PoolInv, TypeOK, ClientPC
  <2>3. /\ mem' \in [Jobs -> {"unallocated", "live", "freed", "corrupt"}]
        /\ bitmap' \in [Jobs -> {"none", "job", "caller", "released"}]
    <3>1. /\ mem \in [Jobs -> {"unallocated", "live", "freed", "corrupt"}]
          /\ bitmap \in [Jobs -> {"none", "job", "caller", "released"}]
      BY Zenon DEF PoolInv, TypeOK
    <3>2. mem' \in [Jobs -> {"unallocated", "live", "freed", "corrupt"}]
      BY <1>2, <1>4, <3>1, Zenon
    <3>3. bitmap' \in [Jobs -> {"none", "job", "caller", "released"}]
      BY <1>2, <1>4, <3>1, Zenon
    <3> QED BY <3>2, <3>3, Zenon
  <2> QED BY <1>1, <1>6, <2>2, <2>3, Zenon DEF PoolInv, TypeOK
<1>9. QueueSound' /\ ListSound'
  BY <1>1, <1>2, <1>3, <1>4, <1>7
     DEF PoolInv, TypeOK, QueueSound, ListSound, Holding
<1>10. CallerSafe' /\ NoLeak' /\ NoDoubleFree'
  BY <1>1, <1>2, <1>3, <1>4, <1>5
     DEF PoolInv, TypeOK, CallerSafe, NoLeak, NoDoubleFree
<1>11. BitmapOwned'
  BY <1>1, <1>2, <1>3, <1>4 DEF PoolInv, TypeOK, BitmapOwned
<1>12. ResultMatches'
  BY <1>1, <1>3, <1>5, Zenon DEF PoolInv, TypeOK, ResultMatches
<1>13. WorkersSound'
  BY <1>1, <1>2, <1>3, <1>4, SMTT(60) DEF PoolInv, TypeOK, WorkersSound
<1>14. ClientsSound'
  BY <1>1, <1>2, <1>3, <1>5, <1>6, SMTT(60) DEF PoolInv, TypeOK, ClientsSound, Holding
<1>15. JobsSound'
  BY <1>1, <1>2, <1>3, <1>4, <1>5, <1>6 DEF PoolInv, TypeOK, JobsSound, j
<1> QED BY <1>8, <1>9, <1>10, <1>11, <1>12, <1>13, <1>14, <1>15, Zenon DEF PoolInv

\* The first two steps of a submission touch no container.
LEMMA SubmitCheckStep ==
  ASSUME PoolInv, NEW c \in Clients,
         SubmitDepth(c) \/ \E k \in Cues : SubmitCall(c, k)
  PROVE  PoolInv'
<1>1. UNCHANGED <<poolVars, jobVars, workerVars, cjob, mainVars>>
  BY Zenon DEF SubmitDepth, SubmitCall
<1>2. cpc[c] \in {"idle", "submit_depth"} /\ cjob[c] = None
  BY Zenon DEF SubmitDepth, SubmitCall, MayCall, PoolInv, ClientsSound
<1>3. PICK p \in {"idle", "submit_depth", "submit_enqueue"} :
             cpc' = [cpc EXCEPT ![c] = p]
  BY Zenon DEF SubmitDepth, SubmitCall
<1>4. /\ want' \in [Clients -> Cues \cup {None}] /\ want'[c] \in Cues
      /\ got' \in [Clients -> Cues \cup {None}]
      /\ \A d \in Clients \ {c} : want'[d] = want[d] /\ got'[d] = got[d]
      /\ got'[c] \in {None, got[c]} /\ (got'[c] # None => want'[c] = want[c])
  <2>1. want \in [Clients -> Cues \cup {None}] /\ got \in [Clients -> Cues \cup {None}]
    BY Zenon DEF PoolInv, TypeOK
  <2>2. CASE SubmitDepth(c)
    BY <2>1, <2>2, Zenon DEF SubmitDepth, PoolInv, ClientsSound
  <2>3. CASE \E k \in Cues : SubmitCall(c, k)
    BY <2>1, <2>3 DEF SubmitCall
  <2> QED BY <2>2, <2>3, Zenon
<1>5. TypeOK'
  <2>1. cpc' \in [Clients -> ClientPC]
    BY <1>3, Zenon DEF PoolInv, TypeOK, ClientPC
  <2> QED BY <1>1, <1>4, <2>1, Zenon DEF PoolInv, TypeOK
<1>6. ResultMatches'
  BY <1>4, Zenon DEF PoolInv, ResultMatches
<1>7. ClientsSound'
  BY <1>1, <1>2, <1>3, <1>4, SMTT(60) DEF PoolInv, TypeOK, ClientsSound, Holding
<1>8. JobsSound'
  <2>1. \A d \in Clients : d # c => cpc'[d] = cpc[d]
    BY <1>3, Zenon DEF PoolInv, TypeOK
  <2>2. JobsSound /\ UNCHANGED <<mem, done, waiters, freed, bitmap, cjob, queue, all_jobs>>
    BY <1>1, Zenon DEF PoolInv, jobVars, poolVars
  <2> QED BY <1>2, <2>1, <2>2, JobsFrame, Zenon
<1> QED BY <1>1, <1>5, <1>6, <1>7, <1>8, Frame, ZenonT(60) DEF PoolInv

\* A submitted job enters the queue and the keyed list together.
LEMMA SubmitEnqueueStep ==
  ASSUME PoolInv, NEW c \in Clients, SubmitEnqueue(c)
  PROVE  PoolInv'
<1>0. /\ cpc[c] = "submit_enqueue" /\ cjob[c] = None /\ want[c] \in Cues
      /\ cpc' = [cpc EXCEPT ![c] = "idle"]
      /\ UNCHANGED <<pool_active, running, done, waiters, freed, bitmap, wjob, cjob,
                     want, got, mainVars>>
  BY Zenon DEF SubmitEnqueue, PoolInv, ClientsSound
<1>1. CASE UNCHANGED <<queue, all_jobs, mem, cue, wpc>>
  <2>1. TypeOK'
    BY <1>0, <1>1, Zenon DEF PoolInv, TypeOK, ClientPC
  <2>2. ClientsSound'
    BY <1>0, <1>1 DEF PoolInv, TypeOK, ClientsSound, Holding
  <2>3. JobsSound'
    BY <1>0, <1>1 DEF PoolInv, TypeOK, JobsSound
  <2> QED BY <1>0, <1>1, <2>1, <2>2, <2>3, Frame, ZenonT(60) DEF PoolInv
<1>2. ASSUME NEW j \in Jobs, NewJob(j, want[c]), queue' = Append(queue, j),
             all_jobs' = <<j>> \o all_jobs, SignalWorker
      PROVE  PoolInv'
  <2>1. /\ mem[j] = "unallocated"
        /\ mem' = [mem EXCEPT ![j] = "live"]
        /\ cue' = [cue EXCEPT ![j] = want[c]]
    BY <1>2, Zenon DEF NewJob
  <2>2. ~done[j] /\ ~freed[j]
    BY <2>1, Zenon DEF PoolInv, JobsSound
  <2>3. \A w \in Workers : wpc[w] \in {"render", "notify"} => wjob[w] # j
    BY <2>1, <2>2, Zenon DEF PoolInv, WorkersSound
  <2>4. /\ j \notin Range(queue) /\ j \notin Range(all_jobs)
        /\ \A d \in Clients : cjob[d] # j
    BY <2>1 DEF PoolInv, QueueSound, ListSound, CallerSafe
  <2>5. /\ queue' \in Seq(Jobs) /\ IsInjective(queue')
        /\ Range(queue') = Range(queue) \cup {j}
    <3>1. queue \in Seq(Jobs) /\ IsInjective(queue)
      BY Zenon DEF PoolInv, TypeOK, QueueSound
    <3> QED BY <1>2, <2>4, <3>1, AppendLemma, Zenon
  <2>6. /\ all_jobs' \in Seq(Jobs) /\ IsInjective(all_jobs')
        /\ Range(all_jobs') = Range(all_jobs) \cup {j}
    <3>1. all_jobs \in Seq(Jobs) /\ IsInjective(all_jobs)
      BY Zenon DEF PoolInv, TypeOK, ListSound
    <3> QED BY <1>2, <2>4, <3>1, ConsLemma, Zenon
  <2>7. /\ wpc' \in [Workers -> WorkerPC]
        /\ \A w \in Workers :
             wpc'[w] # wpc[w] => wpc[w] = "wait" /\ wpc'[w] = "loop"
    <3>1. wpc \in [Workers -> WorkerPC]
      BY Zenon DEF PoolInv, TypeOK
    <3> QED BY <1>2, <3>1, SignalLemma, Zenon
  <2>8. TypeOK'
    BY <1>0, <2>1, <2>5, <2>6, <2>7, Zenon DEF PoolInv, TypeOK, ClientPC
  <2>9. QueueSound'
    BY <1>0, <2>1, <2>2, <2>3, <2>5, <2>7 DEF PoolInv, TypeOK, QueueSound, Holding
  <2>10. ListSound'
    <3>1. ASSUME NEW i \in Range(all_jobs') PROVE mem'[i] = "live"
      BY <3>1, <2>1, <2>6 DEF PoolInv, TypeOK, ListSound
    <3>2. ASSUME NEW i \in Range(all_jobs'), ~done[i], i \notin Range(queue')
          PROVE  \E w \in Workers : wpc'[w] = "render" /\ wjob'[w] = i
      BY <3>2, <1>0, <2>5, <2>6, <2>7 DEF PoolInv, ListSound
    <3> QED BY <1>0, <2>6, <3>1, <3>2, Zenon DEF ListSound
  <2>11. CallerSafe'
    BY <1>0, <2>1, <2>4, <2>6, Zenon DEF PoolInv, TypeOK, CallerSafe
  <2>12. NoLeak' /\ NoDoubleFree'
    BY <1>0, <2>1, <2>6, Zenon DEF PoolInv, TypeOK, NoLeak, NoDoubleFree
  <2>13. BitmapOwned' /\ ResultMatches'
    BY <1>0, <2>1, <2>2, Zenon DEF PoolInv, TypeOK, BitmapOwned, ResultMatches
  <2>14. WorkersSound'
    <3>1. \A w \in Workers : wpc[w] = "render" => mem'[wjob[w]] = "live"
      BY <2>1, <2>3, SMTT(60) DEF PoolInv, TypeOK, WorkersSound
    <3> QED BY <1>0, <2>7, <3>1 DEF PoolInv, WorkersSound
  <2>15. ClientsSound'
    BY <1>0, <2>1, <2>4, <2>5, <2>7, SMTT(60)
       DEF PoolInv, TypeOK, ClientsSound, Holding
  <2>16. JobsSound'
    <3>1. \A d \in Clients : d # c => cpc'[d] = cpc[d]
      BY <1>0, Zenon DEF PoolInv, TypeOK
    <3>2. \A i \in Jobs : mem'[i] = "unallocated" => mem[i] = "unallocated"
      BY <2>1, Zenon DEF PoolInv, TypeOK
    <3>3. \A i \in Jobs : i # j => mem'[i] = mem[i]
      BY <2>1, Zenon DEF PoolInv, TypeOK
    <3>4. ASSUME NEW i \in Jobs, freed[i]
          PROVE  i \notin Range(queue') \cup Range(all_jobs')
      BY <3>4, <2>2, <2>5, <2>6 DEF PoolInv, JobsSound
    <3>5. ASSUME NEW i \in Jobs, waiters[i] # 0
          PROVE  \E d \in Clients :
                   /\ cjob[d] = i
                   /\ cpc'[d] \in {"sync_lock", "sync_cwait", "sync_take"}
      BY <3>5, <3>1, <1>0 DEF PoolInv, JobsSound
    <3>6. \A i \in Jobs : freed[i] => mem'[i] # "unallocated"
      BY <2>2, <3>3 DEF PoolInv, JobsSound
    <3>7. ASSUME NEW i \in Jobs
          PROVE  (mem'[i] = "unallocated" => ~done[i]) /\ (~done[i] <=> bitmap[i] = "none")
      BY <3>2, Zenon DEF PoolInv, JobsSound
    <3>8. UNCHANGED <<done, waiters, freed, bitmap, cjob>>
      BY <1>0, Zenon
    <3> SUFFICES ASSUME NEW i \in Jobs
                 PROVE  /\ mem'[i] = "unallocated" => ~done'[i]
                        /\ waiters'[i] # 0 => \E d \in Clients :
                             /\ cjob'[d] = i
                             /\ cpc'[d] \in {"sync_lock", "sync_cwait", "sync_take"}
                        /\ freed'[i] => i \notin Range(queue') \cup Range(all_jobs')
                        /\ freed'[i] => mem'[i] # "unallocated"
                        /\ ~done'[i] <=> bitmap'[i] = "none"
      BY Zenon DEF JobsSound
    <3>9. /\ mem'[i] = "unallocated" => ~done'[i]
          /\ ~done'[i] <=> bitmap'[i] = "none"
      BY <3>7, <3>8, Zenon
    <3>10. waiters'[i] # 0 => \E d \in Clients :
             cjob'[d] = i /\ cpc'[d] \in {"sync_lock", "sync_cwait", "sync_take"}
      BY <3>5, <3>8, Zenon
    <3>11. freed'[i] => i \notin Range(queue') \cup Range(all_jobs')
      BY <3>4, <3>8, Zenon
    <3>12. freed'[i] => mem'[i] # "unallocated"
      BY <3>6, <3>8, Zenon
    <3> QED BY <3>9, <3>10, <3>11, <3>12, Zenon
  <2> QED BY <2>8, <2>9, <2>10, <2>11, <2>12, <2>13, <2>14, <2>15, <2>16
, Zenon DEF PoolInv
<1>3. \/ UNCHANGED <<queue, all_jobs, mem, cue, wpc>>
      \/ \E j \in Jobs : /\ NewJob(j, want[c])
                         /\ queue' = Append(queue, j)
                         /\ all_jobs' = <<j>> \o all_jobs
                         /\ SignalWorker
  BY Zenon DEF SubmitEnqueue
<1> QED BY <1>1, <1>2, <1>3, Zenon

\* try_get changes nothing, or moves one finished job from the list to the caller.
LEMMA TryGetStep ==
  ASSUME PoolInv, NEW c \in Clients, NEW k \in Cues, TryGet(c, k)
  PROVE  PoolInv'
<1>0. /\ cpc[c] = "idle" /\ cjob[c] = None
      /\ want' = [want EXCEPT ![c] = k]
      /\ got' = [got EXCEPT ![c] = None]
      /\ UNCHANGED <<pool_active, running, queue, jobVars, workerVars, mainVars>>
  BY Zenon DEF TryGet, MayCall, PoolInv, ClientsSound
<1>1. CASE UNCHANGED <<all_jobs, cpc, cjob>>
  <2>1. TypeOK'
    BY <1>0, <1>1, Zenon DEF PoolInv, TypeOK
  <2>2. ResultMatches'
    BY <1>0, <1>1, Zenon DEF PoolInv, TypeOK, ResultMatches
  <2>3. ClientsSound'
    BY <1>0, <1>1, SMTT(60) DEF PoolInv, TypeOK, ClientsSound, Holding
  <2> QED BY <1>0, <1>1, <2>1, <2>2, <2>3, Frame, ZenonT(60) DEF PoolInv
<1>2. ASSUME NEW i \in DOMAIN all_jobs, FindJob(i, k), done[all_jobs[i]],
             all_jobs' = Unlink(all_jobs, i),
             cjob' = [cjob EXCEPT ![c] = all_jobs[i]],
             cpc' = [cpc EXCEPT ![c] = "get_take"]
      PROVE  PoolInv'
  <2> DEFINE j == all_jobs[i]
  <2>1. /\ j \in Jobs /\ j \in Range(all_jobs) /\ j \notin Range(all_jobs')
        /\ all_jobs' \in Seq(Jobs) /\ IsInjective(all_jobs')
        /\ Range(all_jobs') \subseteq Range(all_jobs)
        /\ Range(all_jobs) \subseteq Range(all_jobs') \cup {j}
    <3>1. all_jobs \in Seq(Jobs) /\ IsInjective(all_jobs)
      BY Zenon DEF PoolInv, TypeOK, ListSound
    <3> QED BY <1>2, <3>1, UnlinkLemma, Zenon
  <2>2. /\ done[j] /\ cue[j] = k
        /\ cjob' = [cjob EXCEPT ![c] = j]
        /\ cpc' = [cpc EXCEPT ![c] = "get_take"]
    BY <1>2, Zenon DEF FindJob
  <2> HIDE DEF j
  <2>3. mem[j] = "live" /\ \A d \in Clients : cjob[d] # j
    BY <2>1 DEF PoolInv, ListSound, CallerSafe
  <2>4. TypeOK'
    BY <1>0, <2>1, <2>2, Zenon DEF PoolInv, TypeOK, ClientPC
  <2>5. ListSound'
    BY <1>0, <2>1, Zenon DEF PoolInv, ListSound
  <2>6. CallerSafe' /\ NoLeak'
    BY <1>0, <2>1, <2>2, <2>3 DEF PoolInv, TypeOK, CallerSafe, NoLeak
  <2>7. ResultMatches'
    BY <1>0, Zenon DEF PoolInv, TypeOK, ResultMatches
  <2>8. ClientsSound'
    BY <1>0, <2>1, <2>2, SMTT(60) DEF PoolInv, TypeOK, ClientsSound, Holding
  <2>9. JobsSound'
    BY <1>0, <2>1, <2>2 DEF PoolInv, TypeOK, JobsSound
  <2> QED BY <1>0, <2>4, <2>5, <2>6, <2>7, <2>8, <2>9, Frame, ZenonT(60) DEF PoolInv
<1> QED BY <1>1, <1>2, Zenon DEF TryGet

-----------------------------------------------------------------------------
(* Init and shutdown.                                                      *)

\* Steps of main that touch no container and at most idle workers.
LEMMA MainStepLemma ==
  ASSUME PoolInv,
         \/ InitCall \/ InitCreate \/ InitCreateFails \/ InitJoinFailed
         \/ InitPublish \/ ShutdownCall \/ ShutdownStop \/ ShutdownJoin
  PROVE  PoolInv'
<1>1. UNCHANGED <<queue, all_jobs, jobVars, wjob, clientVars>>
  BY Zenon DEF InitCall, InitCreate, InitCreateFails, InitJoinFailed, InitPublish,
         ShutdownCall, ShutdownStop, ShutdownJoin
<1>2. pool_active' \in BOOLEAN /\ running' \in BOOLEAN /\ inits' \in 0..MaxInits
  <2>1. pool_active \in BOOLEAN /\ running \in BOOLEAN /\ inits \in 0..MaxInits
    BY Zenon DEF PoolInv, TypeOK
  <2>2. pool_active' = pool_active \/ InitPublish \/ ShutdownCall
    BY Zenon DEF InitCall, InitCreate, InitCreateFails, InitJoinFailed, ShutdownStop,
           ShutdownJoin
  <2>3. running' = running \/ InitCall \/ InitCreateFails \/ ShutdownStop
    BY Zenon DEF InitCreate, InitJoinFailed, InitPublish, ShutdownCall, ShutdownJoin
  <2>4. pool_active' \in BOOLEAN
    BY <2>1, <2>2, Zenon DEF InitPublish, ShutdownCall
  <2>5. running' \in BOOLEAN
    BY <2>1, <2>3, Zenon DEF InitCall, InitCreateFails, ShutdownStop
  <2>6. inits' = inits \/ (inits < MaxInits /\ inits' = inits + 1)
    BY Zenon DEF InitCall, InitCreate, InitCreateFails, InitJoinFailed, InitPublish,
           ShutdownCall, ShutdownStop, ShutdownJoin
  <2>7. inits' \in 0..MaxInits
    BY <2>1, <2>6, SMTT(60)
  <2> QED BY <2>4, <2>5, <2>7, Zenon
<1>3. mpc' \in MainPC
  BY Zenon DEF InitCall, InitCreate, InitCreateFails, InitJoinFailed, InitPublish,
         ShutdownCall, ShutdownStop, ShutdownJoin, PoolInv, TypeOK, MainPC
<1>4. /\ wpc' \in [Workers -> WorkerPC]
      /\ \A w \in Workers : wpc'[w] # wpc[w] =>
           /\ wpc[w] \in {"none", "wait", "exit"}
           /\ wpc'[w] \in {"none", "loop"}
  <2>1. wpc \in [Workers -> WorkerPC]
    BY Zenon DEF PoolInv, TypeOK
  <2>2. CASE UNCHANGED wpc
    BY <2>1, <2>2, Zenon
  <2>3. CASE InitCreate
    BY <2>1, <2>3, Zenon DEF InitCreate, WorkerPC
  <2>4. CASE InitJoinFailed \/ ShutdownJoin
    BY <2>1, <2>4, Zenon DEF InitJoinFailed, ShutdownJoin, AllExited, WorkerPC
  <2>5. CASE ShutdownStop
    BY <2>1, <2>5, Zenon DEF ShutdownStop, WorkerPC
  <2> QED BY <2>2, <2>3, <2>4, <2>5
, Zenon DEF InitCall, InitCreateFails, InitPublish, ShutdownCall
<1>5. mpc' \in {"down", "reaping"} => \A w \in Workers : wpc'[w] = "none"
  BY Zenon DEF InitCall, InitCreate, InitCreateFails, InitJoinFailed, InitPublish,
         ShutdownCall, ShutdownStop, ShutdownJoin
<1>6. TypeOK'
  BY <1>1, <1>2, <1>3, <1>4, Zenon DEF PoolInv, TypeOK
<1>7. QueueSound' /\ ListSound' /\ ClientsSound'
  <2>0. \A i : Holding(i)' \subseteq Holding(i)
    BY <1>1, <1>4, HoldingShrinks, Zenon
  <2>1. QueueSound'
    <3>1. QueueSound /\ UNCHANGED <<queue, mem, done>>
      BY <1>1, Zenon DEF PoolInv, jobVars
    <3> QED BY <2>0, <3>1, Zenon DEF QueueSound
  <2>2. ListSound'
    <3>1. ListSound /\ UNCHANGED <<all_jobs, queue, mem, done, wjob>>
      BY <1>1, Zenon DEF PoolInv, jobVars
    <3>2. \A w \in Workers : wpc[w] = "render" => wpc'[w] = "render"
      BY <1>4, Zenon
    <3> QED BY <3>1, <3>2, ListFrame, Zenon
  <2>3. ClientsSound'
    <3>1. ClientsSound /\ UNCHANGED <<queue, cue, done, waiters, freed, cpc, cjob, want>>
      BY <1>1, Zenon DEF PoolInv, jobVars, clientVars
    <3>2. \A c \in Clients : Holding(cjob[c]) = {} => Holding(cjob[c])' = {}
      BY <2>0, <3>1 DEF Holding
    <3> QED BY <3>1, <3>2, ZenonT(60) DEF ClientsSound
  <2> QED BY <2>1, <2>2, <2>3, Zenon
<1>8. WorkersSound'
  <2>1. WorkersSound /\ UNCHANGED <<wjob, mem, done>>
    BY <1>1, Zenon DEF PoolInv, jobVars
  <2>2. \A w \in Workers : wpc'[w] = wpc[w] \/ (/\ wpc[w] \notin {"render", "notify"}
                                                /\ wpc'[w] \notin {"render", "notify"})
    BY <1>4, Zenon
  <2> QED BY <1>5, <2>1, <2>2, ZenonT(60) DEF WorkersSound
<1> QED BY <1>1, <1>6, <1>7, <1>8, Frame, ZenonT(60) DEF PoolInv

\* Clearing both lists frees each live container once, except those that belong
\* to a caller, and loses none.
LEMMA ShutdownReapStep ==
  ASSUME PoolInv, ShutdownReap
  PROVE  PoolInv'
<1>1. /\ mpc = "reaping" /\ mpc' = "down"
      /\ mem' = [j \in Jobs |-> IF j \in Reaped THEN Release(mem[j]) ELSE mem[j]]
      /\ bitmap' = [j \in Jobs |-> IF j \in Reaped /\ bitmap[j] = "job"
                                     THEN "released" ELSE bitmap[j]]
      /\ freed' = [j \in Jobs |-> freed[j] \/ j \in Range(queue)]
      /\ queue' = <<>> /\ all_jobs' = <<>>
      /\ UNCHANGED <<pool_active, running, cue, done, waiters, workerVars,
                     clientVars, inits>>
  BY Zenon DEF ShutdownReap
<1>2. /\ queue' \in Seq(Jobs) /\ Range(queue') = {} /\ IsInjective(queue')
      /\ all_jobs' \in Seq(Jobs) /\ Range(all_jobs') = {} /\ IsInjective(all_jobs')
  <2>1. queue' = <<>> /\ all_jobs' = <<>>
    BY <1>1, Zenon
  <2> QED BY <2>1, EmptyLemma, Zenon
<1>3. \A w \in Workers : wpc[w] = "none"
  BY <1>1, Zenon DEF PoolInv, WorkersSound
<1>4. Reaped = {j \in Range(queue) : waiters[j] <= 0}
               \cup {j \in Range(all_jobs) \ Range(queue) : ~freed[j]}
  BY Zenon DEF Reaped
<1>5. \A j \in Jobs : j \in Reaped => mem[j] = "live"
  BY <1>4, Zenon DEF PoolInv, QueueSound, ListSound
<1>6. /\ mem' \in [Jobs -> {"unallocated", "live", "freed", "corrupt"}]
      /\ \A j \in Jobs : mem'[j] = IF j \in Reaped THEN "freed" ELSE mem[j]
  BY <1>1, <1>5, Zenon DEF Release, PoolInv, TypeOK
<1>7. \A c \in Clients : cjob[c] # None => cjob[c] \notin Reaped
  <2> SUFFICES ASSUME NEW c \in Clients, cjob[c] # None, cjob[c] \in Reaped
               PROVE  FALSE
    BY Zenon
  <2>1. cjob[c] \in Jobs
    BY Zenon DEF PoolInv, TypeOK
  <2>2. cjob[c] \in Range(queue) /\ waiters[cjob[c]] <= 0
    BY <1>4, Zenon DEF PoolInv, CallerSafe
  <2>3. ~done[cjob[c]]
    BY <2>2, Zenon DEF PoolInv, QueueSound
  <2>4. cpc[c] \in ClientPC
    BY Zenon DEF PoolInv, TypeOK
  <2>5. waiters[cjob[c]] = 1
    BY <2>2, <2>3, <2>4, Zenon DEF PoolInv, ClientsSound, ClientPC
  <2> QED BY <2>2, <2>5
<1>8. \A j \in Jobs : mem[j] = "live" /\ j \notin Reaped =>
                        \E c \in Clients : cjob[c] = j
  <2> SUFFICES ASSUME NEW j \in Jobs, mem[j] = "live", j \notin Reaped,
                      j \in Range(all_jobs)
               PROVE  \E c \in Clients : cjob[c] = j
    BY Zenon DEF PoolInv, NoLeak
  <2>1. ~freed[j]
    BY Zenon DEF PoolInv, JobsSound
  <2>2. j \in Range(queue) /\ ~(waiters[j] <= 0)
    BY <1>4, <2>1, Zenon
  <2>3. waiters[j] # 0
    BY <2>2
  <2> QED BY <2>3, Zenon DEF PoolInv, JobsSound
<1>9. \A j \in Jobs :
        bitmap'[j] = IF j \in Reaped /\ bitmap[j] = "job" THEN "released"
                                                          ELSE bitmap[j]
  BY <1>1, Zenon
<1>10. \A j \in Jobs : freed'[j] <=> freed[j] \/ j \in Range(queue)
  <2>1. freed' = [j \in Jobs |-> freed[j] \/ j \in Range(queue)]
    BY <1>1, Zenon
  <2> QED BY <2>1, Zenon
<1>11. TypeOK'
  <2>1. bitmap' \in [Jobs -> {"none", "job", "caller", "released"}]
    <3>1. bitmap \in [Jobs -> {"none", "job", "caller", "released"}]
      BY Zenon DEF PoolInv, TypeOK
    <3>2. bitmap' = [j \in Jobs |-> IF j \in Reaped /\ bitmap[j] = "job"
                                       THEN "released" ELSE bitmap[j]]
      BY <1>1, Zenon
    <3> QED BY <3>1, <3>2, Zenon
  <2>2. freed' \in [Jobs -> BOOLEAN]
    <3>1. \A j \in Jobs : (freed[j] \/ j \in Range(queue)) \in BOOLEAN
      BY Zenon
    <3> QED BY <1>1, <3>1, Zenon
  <2> QED BY <1>1, <1>2, <1>6, <2>1, <2>2, Zenon DEF PoolInv, TypeOK, MainPC
<1>12. QueueSound' /\ ListSound'
  BY <1>2, Zenon DEF QueueSound, ListSound
<1>13. CallerSafe'
  <2> SUFFICES ASSUME NEW c \in Clients, cjob[c] # None
               PROVE  /\ mem'[cjob[c]] = "live"
                      /\ cjob[c] \notin Range(all_jobs')
                      /\ \A d \in Clients \ {c} : cjob[d] # cjob[c]
    BY <1>1, Zenon DEF CallerSafe
  <2>1. cjob[c] \in Jobs
    BY Zenon DEF PoolInv, TypeOK
  <2> QED BY <1>2, <1>6, <1>7, <2>1, Zenon DEF PoolInv, CallerSafe
<1>14. NoLeak' /\ NoDoubleFree'
  BY <1>1, <1>6, <1>8, Zenon DEF PoolInv, NoLeak, NoDoubleFree
<1>15. BitmapOwned'
  BY <1>1, <1>5, <1>6, <1>9, SMTT(60) DEF PoolInv, TypeOK, BitmapOwned, JobsSound
<1>16. ResultMatches' /\ WorkersSound'
  BY <1>1, <1>3, Zenon DEF PoolInv, ResultMatches, WorkersSound
<1>17. ClientsSound'
  <2> SUFFICES ASSUME NEW c \in Clients, cpc[c] = "sync_enqueue"
               PROVE  ~freed'[cjob[c]]
    BY <1>1, <1>2, SMTT(60) DEF PoolInv, ClientsSound, Holding
  <2>1. cjob[c] # None /\ ~freed[cjob[c]] /\ cjob[c] \notin Range(queue)
    BY ZenonT(60) DEF PoolInv, ClientsSound
  <2>2. cjob[c] \in Jobs
    BY <2>1, Zenon DEF PoolInv, TypeOK
  <2> QED BY <1>10, <2>1, <2>2, Zenon
<1>18. JobsSound'
  <2>1. \A j \in Jobs : freed'[j] => mem[j] # "unallocated"
    BY <1>10, Zenon DEF PoolInv, JobsSound, QueueSound
  <2> QED BY <1>1, <1>2, <1>6, <1>9, <2>1, Zenon DEF PoolInv, JobsSound
<1> QED BY <1>11, <1>12, <1>13, <1>14, <1>15, <1>16, <1>17, <1>18, Zenon DEF PoolInv

\* A stuttering step preserves PoolInv.
LEMMA StutterStep ==
  ASSUME PoolInv, UNCHANGED vars
  PROVE  PoolInv'
<1>1. TypeOK'
  BY Zenon DEF PoolInv, TypeOK, vars
<1> QED BY <1>1, Frame, ZenonT(60) DEF PoolInv, vars

-----------------------------------------------------------------------------
(* The theorems.                                                           *)

\* The initial state satisfies PoolInv.
LEMMA InitPoolInv == Init => PoolInv
<1> SUFFICES ASSUME Init PROVE PoolInv
  BY Zenon
<1>1. TypeOK
  <2>1. pool_active \in BOOLEAN /\ running \in BOOLEAN
    BY Zenon DEF Init
  <2>2. queue \in Seq(Jobs) /\ all_jobs \in Seq(Jobs)
    BY EmptyLemma, Zenon DEF Init
  <2>3. /\ mem \in [Jobs -> {"unallocated", "live", "freed", "corrupt"}]
        /\ cue \in [Jobs -> Cues \cup {None}]
        /\ waiters \in [Jobs -> Nat]
        /\ bitmap \in [Jobs -> {"none", "job", "caller", "released"}]
    BY Zenon DEF Init
  <2>4. done \in [Jobs -> BOOLEAN] /\ freed \in [Jobs -> BOOLEAN]
    BY Zenon DEF Init
  <2>5. wpc \in [Workers -> WorkerPC] /\ wjob \in [Workers -> Jobs \cup {None}]
    BY Zenon DEF Init, WorkerPC
  <2>6. /\ cpc \in [Clients -> ClientPC]
        /\ cjob \in [Clients -> Jobs \cup {None}]
        /\ want \in [Clients -> Cues \cup {None}]
        /\ got \in [Clients -> Cues \cup {None}]
    BY Zenon DEF Init, ClientPC
  <2>7. mpc \in MainPC /\ inits \in 0..MaxInits
    BY DEF Init, MainPC
  <2> QED BY <2>1, <2>2, <2>3, <2>4, <2>5, <2>6, <2>7, Zenon DEF TypeOK
<1>2. QueueSound /\ ListSound
  BY EmptyLemma, Zenon DEF Init, QueueSound, ListSound
<1>3. CallerSafe /\ BitmapOwned /\ NoLeak /\ NoDoubleFree /\ ResultMatches
  BY Zenon DEF Init, CallerSafe, BitmapOwned, NoLeak, NoDoubleFree, ResultMatches
<1>4. WorkersSound /\ ClientsSound /\ JobsSound
  BY EmptyLemma, Zenon DEF Init, WorkersSound, ClientsSound, JobsSound, Holding
<1> QED BY <1>1, <1>2, <1>3, <1>4, Zenon DEF PoolInv

\* Every step of the pool, by any thread, preserves PoolInv.
LEMMA NextPoolInv == PoolInv /\ [Next]_vars => PoolInv'
<1> SUFFICES ASSUME PoolInv, [Next]_vars PROVE PoolInv'
  BY Zenon
<1>1. ASSUME NEW w \in Workers, Worker(w) \/ WorkerSpurious(w) PROVE PoolInv'
  BY <1>1, WorkerTakeStep, WorkerSpuriousStep, WorkerPublishStep, WorkerNotifyStep
, Zenon DEF Worker
<1>2. ASSUME NEW c \in Clients, Call(c) PROVE PoolInv'
  BY <1>2, SyncCallStep, SubmitCheckStep, TryGetStep, Zenon DEF Call
<1>3. ASSUME NEW c \in Clients, Client(c) \/ SyncSpurious(c) PROVE PoolInv'
  BY <1>3, SyncEnqueueStep, SyncLockStep, TakeStep, SubmitCheckStep,
     SubmitEnqueueStep, Zenon DEF Client
<1>4. CASE MainStep \/ InitCall \/ InitCreateFails \/ ShutdownCall
  BY <1>4, MainStepLemma, ShutdownReapStep, Zenon DEF MainStep
<1>5. CASE UNCHANGED vars
  BY <1>5, StutterStep, Zenon
<1> QED BY <1>1, <1>2, <1>3, <1>4, <1>5, Zenon DEF Next

\* PoolInv holds in every reachable state of the pool.
THEOREM PoolInvariant == Spec => []PoolInv
<1> QED BY InitPoolInv, NextPoolInv, PTL DEF Spec

\* All variables of the pool keep their types; in particular the waiter count
\* of a job never goes below zero.
THEOREM PoolTypeOK == Spec => []TypeOK
<1>1. PoolInv => TypeOK
  BY Zenon DEF PoolInv
<1> QED BY <1>1, PoolInvariant, PTL

\* No container is freed twice, dangles in the queue or in the keyed list, or
\* is lost, however calls, workers, failed starts and shutdowns interleave.
THEOREM PoolMemorySafe ==
  Spec => [](NoDoubleFree /\ QueueSound /\ ListSound /\ NoLeak)
<1>1. PoolInv => NoDoubleFree /\ QueueSound /\ ListSound /\ NoLeak
  BY Zenon DEF PoolInv
<1> QED BY <1>1, PoolInvariant, PTL

\* A worker renders a live container that no other worker holds.
THEOREM PoolRenderSafe == Spec => []RenderSafe
<1>1. PoolInv => RenderSafe
  <2> SUFFICES ASSUME PoolInv, NEW w \in Workers, wpc[w] = "render"
               PROVE  mem[wjob[w]] = "live" /\ Holding(wjob[w]) = {w}
    BY Zenon DEF RenderSafe
  <2>1. mem[wjob[w]] = "live" /\ wjob[w] # None
    BY Zenon DEF PoolInv, WorkersSound
  <2>2. \A v \in Workers : wjob[v] = wjob[w] => v = w
    BY <2>1, Zenon DEF PoolInv, WorkersSound
  <2> QED BY <2>1, <2>2, Zenon DEF Holding
<1> QED BY <1>1, PoolInvariant, PTL

\* The container a caller works on is live and its own, also while shutdown
\* clears the lists.
THEOREM PoolCallerSafe == Spec => []CallerSafe
<1>1. PoolInv => CallerSafe
  BY Zenon DEF PoolInv
<1> QED BY <1>1, PoolInvariant, PTL

\* A finished bitmap has exactly one owner.
THEOREM PoolBitmapOwned == Spec => []BitmapOwned
<1>1. PoolInv => BitmapOwned
  BY Zenon DEF PoolInv
<1> QED BY <1>1, PoolInvariant, PTL

\* A caller never receives the bitmap of another cue.
THEOREM PoolResultMatches == Spec => []ResultMatches
<1>1. PoolInv => ResultMatches
  BY Zenon DEF PoolInv
<1> QED BY <1>1, PoolInvariant, PTL

-----------------------------------------------------------------------------
(* One calling thread.                                                     *)

\* Without overlapping callers a call is under way only between init and
\* shutdown, the pool accepts jobs only then, and while it is down or being
\* started both lists are empty.
OneThread ==
  ~Overlap =>
    /\ pool_active <=> mpc = "up"
    /\ mpc # "up" => \A c \in Clients : cpc[c] = "idle"
    /\ mpc \in {"down", "creating", "join_failed"} => queue = <<>> /\ all_jobs = <<>>

\* The initial state satisfies OneThread.
LEMMA InitOneThread == Init => OneThread
  BY Zenon DEF Init, OneThread

\* Every step of the pool preserves OneThread.
LEMMA NextOneThread == PoolInv /\ OneThread /\ [Next]_vars => OneThread'
<1> SUFFICES ASSUME PoolInv, OneThread, [Next]_vars, ~Overlap
             PROVE  /\ pool_active' <=> mpc' = "up"
                    /\ mpc' # "up" => \A c \in Clients : cpc'[c] = "idle"
                    /\ mpc' \in {"down", "creating", "join_failed"} =>
                         queue' = <<>> /\ all_jobs' = <<>>
  BY Zenon DEF OneThread
<1>0. /\ pool_active <=> mpc = "up"
      /\ mpc # "up" => \A c \in Clients : cpc[c] = "idle"
      /\ mpc \in {"down", "creating", "join_failed"} =>
           queue = <<>> /\ all_jobs = <<>>
  BY Zenon DEF OneThread
<1>T. cpc \in [Clients -> ClientPC] /\ pool_active \in BOOLEAN /\ mpc \in MainPC
  BY Zenon DEF PoolInv, TypeOK
<1>1. ASSUME NEW w \in Workers, WorkerTake(w)
      PROVE  /\ UNCHANGED <<pool_active, mpc, cpc, all_jobs>>
             /\ queue = <<>> => queue' = <<>>
  BY <1>1, Zenon DEF WorkerTake
<1>2. ASSUME NEW w \in Workers, WorkerSpurious(w) \/ WorkerPublish(w)
      PROVE  UNCHANGED <<pool_active, mpc, cpc, queue, all_jobs>>
  BY <1>2, Zenon DEF WorkerSpurious, WorkerPublish
<1>3. ASSUME NEW w \in Workers, WorkerNotify(w)
      PROVE  /\ UNCHANGED <<pool_active, mpc, queue, all_jobs>>
             /\ \A c \in Clients : cpc[c] = "idle" => cpc'[c] = "idle"
  BY <1>3, Zenon DEF WorkerNotify
<1>4. ASSUME NEW c \in Clients, NEW k \in Cues, SyncCall(c, k) \/ SubmitCall(c, k)
      PROVE  /\ UNCHANGED <<pool_active, mpc, queue, all_jobs>>
             /\ mpc # "up" => \A d \in Clients : cpc'[d] = "idle"
  <2>1. UNCHANGED <<pool_active, mpc, queue, all_jobs>>
    BY <1>4, Zenon DEF SyncCall, SubmitCall
  <2>2. ASSUME mpc # "up" PROVE cpc' = [cpc EXCEPT ![c] = "idle"]
    BY <1>0, <1>4, <2>2, Zenon DEF SyncCall, SubmitCall, Return
  <2> QED BY <1>0, <1>T, <2>1, <2>2, Zenon
<1>5. ASSUME NEW c \in Clients, NEW k \in Cues, TryGet(c, k)
      PROVE  /\ UNCHANGED <<pool_active, mpc, queue>>
             /\ mpc # "up" => mpc = "down" /\ UNCHANGED <<cpc, all_jobs>>
  <2>1. UNCHANGED <<pool_active, mpc, queue>>
    BY <1>5, ZenonT(60) DEF TryGet
  <2>2. ASSUME mpc # "up" PROVE mpc = "down" /\ UNCHANGED <<cpc, all_jobs>>
    <3>1. mpc = "down"
      BY <1>5, <2>2, ZenonT(60) DEF TryGet, MayCall
    <3>2. DOMAIN all_jobs = {}
      BY <1>0, <3>1
    <3> QED BY <1>5, <3>1, <3>2, ZenonT(60) DEF TryGet
  <2> QED BY <2>1, <2>2, Zenon
<1>6. ASSUME NEW c \in Clients, Client(c) \/ SyncSpurious(c)
      PROVE  mpc = "up" /\ UNCHANGED <<pool_active, mpc>>
  <2>1. cpc[c] # "idle"
    BY <1>6, Zenon DEF Client, SyncSpurious, SyncEnqueue, SyncLock, SyncTake,
       SubmitDepth, SubmitEnqueue, GetTake
  <2>2. UNCHANGED <<pool_active, mpc>>
    BY <1>6, Zenon DEF Client, SyncSpurious, SyncEnqueue, SyncLock, SyncTake,
       SubmitDepth, SubmitEnqueue, GetTake
  <2> QED BY <1>0, <2>1, <2>2, Zenon
<1>7. CASE InitCall \/ InitCreateFails \/ InitCreate \/ InitJoinFailed
  <2>1. /\ mpc \in {"down", "creating", "join_failed"}
        /\ mpc' # "up"
        /\ UNCHANGED <<pool_active, queue, all_jobs, cpc>>
    BY <1>7, Zenon DEF InitCall, InitCreateFails, InitCreate, InitJoinFailed
  <2> QED BY <1>0, <2>1, Zenon
<1>8. CASE InitPublish
  BY <1>8, Zenon DEF InitPublish
<1>9. CASE ShutdownCall
  BY <1>9, Zenon DEF ShutdownCall, MainMayCall
<1>10. CASE ShutdownStop \/ ShutdownJoin
  <2>1. /\ mpc \in {"stopping", "joining"} /\ mpc' \in {"joining", "reaping"}
        /\ UNCHANGED <<pool_active, cpc>>
    BY <1>10, Zenon DEF ShutdownStop, ShutdownJoin
  <2> QED BY <1>0, <2>1, Zenon
<1>11. CASE ShutdownReap
  <2>1. /\ mpc = "reaping" /\ queue' = <<>> /\ all_jobs' = <<>> /\ mpc' = "down"
        /\ UNCHANGED <<pool_active, cpc>>
    BY <1>11, Zenon DEF ShutdownReap
  <2> QED BY <1>0, <2>1, Zenon
<1>12. CASE UNCHANGED vars
  BY <1>0, <1>12, Zenon DEF vars
<1>13. ASSUME NEW w \in Workers, Worker(w) \/ WorkerSpurious(w)
       PROVE  /\ UNCHANGED <<pool_active, mpc, all_jobs>>
              /\ queue = <<>> => queue' = <<>>
              /\ \A c \in Clients : cpc[c] = "idle" => cpc'[c] = "idle"
  BY <1>13, <1>1, <1>2, <1>3, Zenon DEF Worker
<1>14. CASE \E w \in Workers : Worker(w) \/ WorkerSpurious(w)
  BY <1>0, <1>13, <1>14, Zenon
<1>15. CASE \E c \in Clients : Call(c)
  BY <1>0, <1>4, <1>5, <1>15, Zenon DEF Call
<1>16. CASE \E c \in Clients : Client(c) \/ SyncSpurious(c)
  BY <1>0, <1>6, <1>16, Zenon
<1> QED BY <1>7, <1>8, <1>9, <1>10, <1>11, <1>12, <1>14, <1>15, <1>16, Zenon
        DEF Next, MainStep

\* When init, shutdown and all calls come from one thread, as in srt2dvbsub.c,
\* a pool that is down keeps no container, no bitmap and no worker, for every
\* number of jobs submitted, taken or left behind.
THEOREM PoolCleanAfterShutdown ==
  ASSUME ~Overlap
  PROVE  Spec => []CleanAfterShutdown
<1>1. ASSUME PoolInv, OneThread PROVE CleanAfterShutdown
  <2> SUFFICES ASSUME mpc = "down", \A c \in Clients : cpc[c] = "idle"
               PROVE  /\ \A j \in Jobs : mem[j] # "live" /\ bitmap[j] # "job"
                      /\ queue = <<>> /\ all_jobs = <<>>
                      /\ \A w \in Workers : wpc[w] = "none"
    BY Zenon DEF CleanAfterShutdown
  <2>1. queue = <<>> /\ all_jobs = <<>>
    BY <1>1, Zenon DEF OneThread
  <2>2. \A w \in Workers : wpc[w] = "none"
    BY <1>1, Zenon DEF PoolInv, WorkersSound
  <2>3. \A c \in Clients : cjob[c] = None
    BY <1>1, Zenon DEF PoolInv, ClientsSound
  <2>4. \A j \in Jobs : mem[j] # "live"
    <3>1. Range(all_jobs) = {}
      BY <2>1, EmptyLemma, Zenon
    <3>2. NoLeak
      BY <1>1, Zenon DEF PoolInv
    <3> QED BY <2>3, <3>1, <3>2, Zenon DEF NoLeak
  <2>5. \A j \in Jobs : bitmap[j] # "job"
    BY <1>1, <2>4, Zenon DEF PoolInv, BitmapOwned
  <2> QED BY <2>1, <2>2, <2>4, <2>5, Zenon
<1>2. Spec => [](PoolInv /\ OneThread)
  BY InitPoolInv, NextPoolInv, InitOneThread, NextOneThread, PTL DEF Spec
<1> QED BY <1>1, <1>2, PTL

-----------------------------------------------------------------------------
(* The pool implements RenderService.                                      *)

\* Workers leave their loop only when the pool stops and, with one calling
\* thread, only when the queue is empty; so it is empty when they are joined.
Drained ==
  /\ running <=> mpc \in {"creating", "up", "stopping"}
  /\ mpc \in {"up", "stopping", "joining"} => \A w \in Workers : wpc[w] # "none"
  /\ (\E w \in Workers : wpc[w] = "exit") => ~running /\ (~Overlap => queue = <<>>)
  /\ ~Overlap /\ mpc = "reaping" => queue = <<>>

\* Steps that leave main, running and the queue alone and let no worker start,
\* exit or be joined.
LEMMA DrainedFrame ==
  ASSUME Drained, UNCHANGED <<running, mpc, queue>>,
         \A w \in Workers : /\ wpc'[w] = "none" => wpc[w] = "none"
                            /\ wpc'[w] = "exit" => wpc[w] = "exit"
  PROVE  Drained'
  BY Zenon DEF Drained

\* The steps of a worker preserve Drained.
LEMMA WorkerDrained ==
  ASSUME PoolInv, Drained, NEW w \in Workers, Worker(w) \/ WorkerSpurious(w)
  PROVE  Drained'
<1>0. wpc \in [Workers -> WorkerPC] /\ running \in BOOLEAN /\ queue \in Seq(Jobs)
  BY Zenon DEF PoolInv, TypeOK
<1>1. CASE WorkerPublish(w) \/ WorkerNotify(w) \/ WorkerSpurious(w)
  <2>1. /\ UNCHANGED <<running, mpc, queue>>
        /\ \/ wpc' = [wpc EXCEPT ![w] = "notify"]
           \/ wpc' = [wpc EXCEPT ![w] = "loop"]
    BY <1>1, ZenonT(60) DEF WorkerPublish, WorkerNotify, WorkerSpurious
  <2>2. \A v \in Workers : /\ wpc'[v] = "none" => wpc[v] = "none"
                           /\ wpc'[v] = "exit" => wpc[v] = "exit"
    BY <1>0, <2>1, Zenon
  <2> QED BY <2>1, <2>2, DrainedFrame, Zenon
<1>2. CASE WorkerTake(w)
  <2>1. UNCHANGED <<running, mpc>> /\ wpc[w] = "loop"
    BY <1>2, ZenonT(60) DEF WorkerTake
  <2>2. mpc # "reaping"
    BY <2>1, Zenon DEF PoolInv, WorkersSound
  <2>3. CASE queue = <<>>
    <3>1. /\ UNCHANGED queue
          /\ wpc' = [wpc EXCEPT ![w] = IF running THEN "wait" ELSE "exit"]
      BY <1>2, <2>3, ZenonT(60) DEF WorkerTake
    <3>2. /\ \A v \in Workers : wpc'[v] = "none" => wpc[v] = "none"
          /\ \A v \in Workers : wpc'[v] = "exit" => wpc[v] = "exit" \/ ~running
      BY <1>0, <3>1, Zenon
    <3> QED BY <2>1, <2>2, <2>3, <3>1, <3>2, Zenon DEF Drained
  <2>4. CASE queue # <<>>
    <3>1. wpc' = [wpc EXCEPT ![w] = "render"]
      BY <1>2, <2>4, ZenonT(60) DEF WorkerTake
    <3>2. \A v \in Workers : /\ wpc'[v] = "none" => wpc[v] = "none"
                             /\ wpc'[v] = "exit" => wpc[v] = "exit"
      BY <1>0, <3>1, Zenon
    <3> QED BY <2>1, <2>2, <2>4, <3>2, Zenon DEF Drained
  <2> QED BY <2>3, <2>4, Zenon
<1> QED BY <1>1, <1>2, Zenon DEF Worker

\* The steps of a caller preserve Drained: with one calling thread nothing is
\* appended to the queue once the pool stops.
LEMMA ClientDrained ==
  ASSUME PoolInv, OneThread, Drained, NEW c \in Clients,
         Call(c) \/ Client(c) \/ SyncSpurious(c)
  PROVE  Drained'
<1>0. wpc \in [Workers -> WorkerPC]
  BY Zenon DEF PoolInv, TypeOK
<1>1. CASE Call(c) \/ SyncSpurious(c) \/ SyncLock(c) \/ SyncTake(c) \/ SubmitDepth(c)
           \/ GetTake(c)
  <2>1. UNCHANGED <<running, mpc, queue, wpc>>
    BY <1>1, ZenonT(60) DEF Call, SyncCall, SubmitCall, TryGet, SyncSpurious, SyncLock,
       SyncTake, SubmitDepth, GetTake
  <2> QED BY <2>1, DrainedFrame, Zenon
<1>2. CASE SyncEnqueue(c) \/ SubmitEnqueue(c)
  <2>1. /\ cpc[c] # "idle" /\ UNCHANGED <<running, mpc>>
        /\ wpc' = wpc \/ SignalWorker
    BY <1>2, ZenonT(60) DEF SyncEnqueue, SubmitEnqueue
  <2>2. \A v \in Workers : wpc'[v] # wpc[v] => wpc[v] = "wait" /\ wpc'[v] = "loop"
    BY <1>0, <2>1, SignalLemma, Zenon
  <2>3. \A v \in Workers : /\ wpc'[v] = "none" => wpc[v] = "none"
                           /\ wpc'[v] = "exit" => wpc[v] = "exit"
    BY <2>2, Zenon
  <2>4. ~Overlap => mpc = "up"
    BY <2>1, Zenon DEF OneThread
  <2> QED BY <2>1, <2>3, <2>4, Zenon DEF Drained
<1> QED BY <1>1, <1>2, Zenon DEF Client

\* The steps of init and shutdown preserve Drained.
LEMMA MainDrained ==
  ASSUME PoolInv, OneThread, Drained,
         MainStep \/ InitCall \/ InitCreateFails \/ ShutdownCall
  PROVE  Drained'
<1>0. wpc \in [Workers -> WorkerPC] /\ running \in BOOLEAN
  BY Zenon DEF PoolInv, TypeOK
<1>1. mpc \in {"down", "reaping"} => \A w \in Workers : wpc[w] = "none"
  BY ZenonT(60) DEF PoolInv, WorkersSound
<1>2. running => \A w \in Workers : wpc[w] # "exit"
  BY Zenon DEF Drained
<1>3. CASE InitCall \/ InitCreateFails \/ InitPublish \/ ShutdownCall
  <2>1. CASE InitCall
    BY <1>1, <2>1, Zenon DEF InitCall, Drained
  <2>2. CASE InitCreateFails
    BY <1>2, <2>2, Zenon DEF InitCreateFails, Drained
  <2>3. CASE InitPublish
    BY <1>2, <2>3, Zenon DEF InitPublish, Drained
  <2>4. CASE ShutdownCall
    BY <1>2, <2>4, Zenon DEF ShutdownCall, Drained
  <2> QED BY <1>3, <2>1, <2>2, <2>3, <2>4, Zenon
<1>4. CASE InitCreate
  <2>1. /\ mpc = "creating" /\ UNCHANGED <<mpc, running, queue>>
        /\ \E w \in Workers : wpc' = [wpc EXCEPT ![w] = "loop"]
    BY <1>4, ZenonT(60) DEF InitCreate
  <2>2. \A v \in Workers : wpc'[v] = "exit" => wpc[v] = "exit"
    BY <1>0, <2>1, Zenon
  <2> QED BY <2>1, <2>2, Zenon DEF Drained
<1>5. CASE InitJoinFailed \/ ShutdownJoin
  <2>1. /\ UNCHANGED <<queue, running>>
        /\ \A w \in Workers : wpc'[w] = "none"
        /\ \/ mpc = "join_failed" /\ mpc' = "down"
           \/ mpc = "joining" /\ mpc' = "reaping"
    BY <1>5, Zenon DEF InitJoinFailed, ShutdownJoin
  <2>2. ~Overlap /\ mpc = "joining" => queue = <<>>
    <3>1. CASE mpc = "joining"
      <4>1. \E w \in Workers : wpc[w] = "exit"
        BY <1>5, <3>1, Zenon DEF InitJoinFailed, ShutdownJoin, AllExited, Drained
      <4> QED BY <4>1, Zenon DEF Drained
    <3> QED BY <3>1, Zenon
  <2> QED BY <2>1, <2>2, Zenon DEF Drained
<1>6. CASE ShutdownStop
  <2>1. /\ mpc = "stopping" /\ mpc' = "joining" /\ running' = FALSE
        /\ \A w \in Workers : wpc'[w] = IF wpc[w] = "wait" THEN "loop" ELSE wpc[w]
    BY <1>6, Zenon DEF ShutdownStop
  <2> QED BY <1>2, <2>1, Zenon DEF Drained
<1>7. CASE ShutdownReap
  <2>1. /\ mpc = "reaping" /\ mpc' = "down" /\ UNCHANGED <<running, wpc>>
    BY <1>7, Zenon DEF ShutdownReap
  <2> QED BY <1>1, <2>1, Zenon DEF Drained
<1> QED BY <1>3, <1>4, <1>5, <1>6, <1>7, Zenon DEF MainStep

\* Drained holds in every reachable state.
LEMMA PoolDrained == Spec => [](PoolInv /\ OneThread /\ Drained)
<1>1. Init => Drained
  BY Zenon DEF Init, Drained
<1>2. PoolInv /\ OneThread /\ Drained /\ [Next]_vars => Drained'
  <2> SUFFICES ASSUME PoolInv, OneThread, Drained, [Next]_vars PROVE Drained'
    BY Zenon
  <2>1. CASE UNCHANGED vars
    <3>1. UNCHANGED <<running, mpc, queue, wpc>>
      BY <2>1, Zenon DEF vars
    <3> QED BY <3>1, DrainedFrame, Zenon
  <2> QED BY <2>1, WorkerDrained, ClientDrained, MainDrained, Zenon DEF Next
<1> QED BY <1>1, <1>2, InitPoolInv, NextPoolInv, InitOneThread, NextOneThread, PTL DEF Spec

\* A container nobody touches looks the same to the callers.
LEMMA StatusFrame ==
  ASSUME NEW i \in Jobs, mem'[i] = mem[i], done'[i] = done[i], bitmap'[i] = bitmap[i]
  PROVE  Status(i)' = Status(i)
  BY Zenon DEF Status

\* A step that changes the status of one job only is a Move of the service.
LEMMA StatusMove ==
  ASSUME NEW j \in Jobs, NEW v, Status(j)' = v,
         \A i \in Jobs \ {j} : Status(i)' = Status(i)
  PROVE  [i \in Jobs |-> Status(i)]' = [[i \in Jobs |-> Status(i)] EXCEPT ![j] = v]
  BY ZenonT(60)

\* Steps that touch neither the flag nor the state of a container are invisible
\* to the callers.
LEMMA ServiceStutter ==
  ASSUME UNCHANGED <<pool_active, mem, done, bitmap>>
  PROVE  UNCHANGED Service!vars
<1>1. \A i \in Jobs : Status(i)' = Status(i)
  BY StatusFrame, Zenon
<1> QED BY <1>1, Zenon DEF Service!vars

\* A job that is created is accepted by the service.
LEMMA ServiceAccept ==
  ASSUME PoolInv, pool_active, NEW j \in Jobs, NEW k, NewJob(j, k),
         UNCHANGED <<pool_active, done, bitmap>>
  PROVE  Service!Accept(j)
<1>1. mem \in [Jobs -> {"unallocated", "live", "freed", "corrupt"}]
  BY Zenon DEF PoolInv, TypeOK
<1>2. mem[j] = "unallocated" /\ mem' = [mem EXCEPT ![j] = "live"]
  BY Zenon DEF NewJob
<1>3. ~done[j]
  BY <1>2, Zenon DEF PoolInv, JobsSound
<1>4. \A i \in Jobs \ {j} : Status(i)' = Status(i)
  BY <1>1, <1>2, StatusFrame, Zenon
<1>5. Status(j) = "none" /\ Status(j)' = "pending"
  BY <1>1, <1>2, <1>3, Zenon DEF Status
<1> QED BY <1>4, <1>5, StatusMove, Zenon DEF Service!Accept, Service!Move

\* A published result completes its job.
LEMMA ServiceComplete ==
  ASSUME PoolInv, NEW w \in Workers, WorkerPublish(w)
  PROVE  \E j \in Jobs : Service!Complete(j)
<1>1. /\ done \in [Jobs -> BOOLEAN] /\ wjob[w] \in Jobs \cup {None}
      /\ bitmap \in [Jobs -> {"none", "job", "caller", "released"}]
  BY Zenon DEF PoolInv, TypeOK
<1>0. wpc[w] = "render"
  BY Zenon DEF WorkerPublish
<1>2. PICK j \in Jobs : /\ j = wjob[w] /\ UNCHANGED <<pool_active, mem>>
                        /\ bitmap' = [bitmap EXCEPT ![j] = "job"]
                        /\ done' = [done EXCEPT ![j] = TRUE]
  <2>1. wjob[w] \in Jobs
    BY <1>0, <1>1, Zenon DEF PoolInv, WorkersSound
  <2> QED BY <2>1, ZenonT(60) DEF WorkerPublish
<1>3. mem[j] = "live" /\ ~done[j]
  BY <1>0, <1>2, Zenon DEF PoolInv, WorkersSound
<1>4. \A i \in Jobs \ {j} : Status(i)' = Status(i)
  BY <1>1, <1>2, StatusFrame, ZenonT(60)
<1>5. Status(j) = "pending" /\ Status(j)' = "ready"
  BY <1>1, <1>2, <1>3, Zenon DEF Status
<1>6. Service!Complete(j)
  BY <1>2, <1>3, <1>4, <1>5, StatusMove, Zenon DEF Service!Complete, Service!Move
<1> QED BY <1>3, <1>6, Zenon

\* A caller that takes its bitmap has the job delivered.
LEMMA ServiceDeliver ==
  ASSUME PoolInv, pool_active, NEW c \in Clients, SyncTake(c) \/ GetTake(c)
  PROVE  \E j \in Jobs : Service!Deliver(j)
<1>1. /\ cjob[c] \in Jobs \cup {None}
      /\ mem \in [Jobs -> {"unallocated", "live", "freed", "corrupt"}]
      /\ bitmap \in [Jobs -> {"none", "job", "caller", "released"}]
  BY Zenon DEF PoolInv, TypeOK
<1>0. cpc[c] \in {"sync_take", "get_take"}
  BY Zenon DEF SyncTake, GetTake
<1>2. PICK j \in Jobs : /\ j = cjob[c] /\ UNCHANGED <<pool_active, done>>
                        /\ StealAndCleanup(j)
  <2>1. cjob[c] \in Jobs
    BY <1>0, <1>1, Zenon DEF PoolInv, ClientsSound
  <2> QED BY <2>1, ZenonT(60) DEF SyncTake, GetTake
<1>3. done[j]
  BY <1>0, <1>2, ZenonT(60) DEF PoolInv, ClientsSound
<1>4. mem[j] = "live"
  BY <1>2, Zenon DEF PoolInv, CallerSafe
<1>5. bitmap' = [bitmap EXCEPT ![j] = "caller"] /\ mem' = [mem EXCEPT ![j] = "freed"]
  BY <1>1, <1>2, <1>3, <1>4, Zenon DEF StealAndCleanup, Release
<1>6. \A i \in Jobs \ {j} : Status(i)' = Status(i)
  BY <1>1, <1>2, <1>5, StatusFrame, Zenon
<1>7. Status(j) = "ready" /\ Status(j)' = "delivered"
  BY <1>1, <1>2, <1>3, <1>4, <1>5, Zenon DEF Status
<1>8. Service!Deliver(j)
  BY <1>2, <1>3, <1>6, <1>7, StatusMove, ZenonT(60) DEF Service!Deliver, Service!Move
<1> QED BY <1>3, <1>8, Zenon

\* Shutdown finds no unrendered job and discards every result left in the list.
LEMMA ServiceDiscard ==
  ASSUME ~Overlap, PoolInv, OneThread, Drained, ShutdownReap
  PROVE  Service!Discard
<1>1. /\ mpc = "reaping" /\ UNCHANGED <<pool_active, done>>
      /\ mem' = [j \in Jobs |-> IF j \in Reaped THEN Release(mem[j]) ELSE mem[j]]
      /\ bitmap' = [j \in Jobs |-> IF j \in Reaped /\ bitmap[j] = "job"
                                     THEN "released" ELSE bitmap[j]]
  BY Zenon DEF ShutdownReap
<1>2. queue = <<>> /\ Range(queue) = {}
  BY <1>1, EmptyLemma, Zenon DEF Drained
<1>3. ~pool_active /\ \A c \in Clients : cpc[c] = "idle"
  BY <1>1, Zenon DEF OneThread
<1>4. \A c \in Clients : cjob[c] = None
  BY <1>3, Zenon DEF PoolInv, ClientsSound
<1>5. \A w \in Workers : wpc[w] = "none"
  BY <1>1, Zenon DEF PoolInv, WorkersSound
<1>6. ASSUME NEW j \in Jobs PROVE mem[j] = "live" <=> j \in Range(all_jobs)
  BY <1>4, <1>6 DEF PoolInv, NoLeak, ListSound
<1>7. ASSUME NEW j \in Jobs, mem[j] = "live" PROVE done[j] /\ bitmap[j] = "job"
  <2>1. j \in Range(all_jobs)
    BY <1>6, <1>7, Zenon
  <2>2. done[j]
    BY <1>2, <1>5, <2>1, Zenon DEF PoolInv, ListSound
  <2>3. bitmap[j] # "none" /\ bitmap[j] \in {"none", "job", "caller", "released"}
    BY <2>2 DEF PoolInv, JobsSound, TypeOK
  <2>4. bitmap[j] \notin {"caller", "released"}
    BY <1>7, Zenon DEF PoolInv, BitmapOwned
  <2> QED BY <2>2, <2>3, <2>4, Zenon
<1>8. ASSUME NEW j \in Jobs PROVE j \in Reaped <=> mem[j] = "live"
  <2>1. j \in Range(all_jobs) => ~freed[j]
    BY Zenon DEF PoolInv, JobsSound
  <2> QED BY <1>2, <1>6, <2>1, Zenon DEF Reaped
<1>9. ASSUME NEW j \in Jobs
      PROVE  /\ Status(j) # "pending"
             /\ Status(j)' = IF Status(j) = "ready" THEN "discarded" ELSE Status(j)
  <2>1. CASE mem[j] = "live"
    <3>1. mem'[j] = "freed" /\ bitmap'[j] = "released" /\ done[j]
      BY <1>1, <1>7, <1>8, <2>1, Zenon DEF Release
    <3> QED BY <2>1, <3>1, Zenon DEF Status
  <2>2. CASE mem[j] # "live"
    <3>1. mem'[j] = mem[j] /\ bitmap'[j] = bitmap[j] /\ done'[j] = done[j]
      BY <1>1, <1>8, <2>2, Zenon
    <3>2. Status(j)' = Status(j)
      BY <3>1, StatusFrame, Zenon
    <3>3. Status(j) \notin {"pending", "ready"}
      BY <2>2, Zenon DEF Status
    <3> QED BY <3>2, <3>3, Zenon
  <2> QED BY <2>1, <2>2, Zenon
<1> QED BY <1>1, <1>3, <1>9, Zenon DEF Service!Discard

\* Every step of the pool is a step of the service or leaves it unchanged.
LEMMA ServiceStep ==
  ASSUME ~Overlap
  PROVE  PoolInv /\ OneThread /\ Drained /\ [Next]_vars =>
           Service!Next \/ UNCHANGED Service!vars
<1> SUFFICES ASSUME PoolInv, OneThread, Drained, [Next]_vars
             PROVE  Service!Next \/ UNCHANGED Service!vars
  BY Zenon
<1>1. ASSUME NEW w \in Workers, Worker(w) \/ WorkerSpurious(w)
      PROVE  Service!Next \/ UNCHANGED Service!vars
  <2>1. CASE WorkerTake(w) \/ WorkerNotify(w) \/ WorkerSpurious(w)
    <3>1. UNCHANGED <<pool_active, mem, done, bitmap>>
      BY <2>1, ZenonT(60) DEF WorkerTake, WorkerNotify, WorkerSpurious
    <3> QED BY <3>1, ServiceStutter, Zenon
  <2>2. CASE WorkerPublish(w)
    BY <2>2, ServiceComplete, Zenon DEF Service!Next
  <2> QED BY <1>1, <2>1, <2>2, Zenon DEF Worker
<1>2. ASSUME NEW c \in Clients, Call(c)
      PROVE  Service!Next \/ UNCHANGED Service!vars
  <2>1. CASE UNCHANGED <<pool_active, mem, done, bitmap>>
    BY <2>1, ServiceStutter, Zenon
  <2>2. ASSUME NEW k \in Cues, NEW j \in Jobs, pool_active, NewJob(j, k),
               UNCHANGED <<pool_active, done, bitmap>>
        PROVE  Service!Next
    BY <2>2, ServiceAccept, Zenon DEF Service!Next
  <2>3. ASSUME NEW k \in Cues, SyncCall(c, k)
        PROVE  \/ UNCHANGED <<pool_active, mem, done, bitmap>>
               \/ /\ pool_active /\ UNCHANGED <<pool_active, done, bitmap>>
                  /\ \E j \in Jobs : NewJob(j, k)
    BY <2>3, ZenonT(60) DEF SyncCall
  <2>4. ASSUME NEW k \in Cues, SubmitCall(c, k) \/ TryGet(c, k)
        PROVE  UNCHANGED <<pool_active, mem, done, bitmap>>
    BY <2>4, ZenonT(60) DEF SubmitCall, TryGet
  <2> QED BY <1>2, <2>1, <2>2, <2>3, <2>4, ZenonT(60) DEF Call
<1>3. ASSUME NEW c \in Clients, Client(c) \/ SyncSpurious(c)
      PROVE  Service!Next \/ UNCHANGED Service!vars
  <2>1. CASE SyncEnqueue(c) \/ SyncLock(c) \/ SubmitDepth(c) \/ SyncSpurious(c)
    <3>1. UNCHANGED <<pool_active, mem, done, bitmap>>
      BY <2>1, ZenonT(60) DEF SyncEnqueue, SyncLock, SubmitDepth, SyncSpurious
    <3> QED BY <3>1, ServiceStutter, Zenon
  <2>2. cpc[c] # "idle" => pool_active
    BY Zenon DEF OneThread
  <2>3. CASE SyncTake(c) \/ GetTake(c)
    <3>1. cpc[c] # "idle"
      BY <2>3, Zenon DEF SyncTake, GetTake
    <3> QED BY <2>2, <2>3, <3>1, ServiceDeliver, Zenon DEF Service!Next
  <2>4. CASE SubmitEnqueue(c)
    <3>1. /\ cpc[c] # "idle" /\ UNCHANGED <<pool_active, done, bitmap>>
          /\ UNCHANGED mem \/ \E j \in Jobs : NewJob(j, want[c])
      BY <2>4, ZenonT(60) DEF SubmitEnqueue
    <3>2. CASE UNCHANGED mem
      BY <3>1, <3>2, ServiceStutter, Zenon
    <3>3. CASE \E j \in Jobs : NewJob(j, want[c])
      BY <2>2, <3>1, <3>3, ServiceAccept, Zenon DEF Service!Next
    <3> QED BY <3>1, <3>2, <3>3, Zenon
  <2> QED BY <1>3, <2>1, <2>3, <2>4, Zenon DEF Client
<1>4. CASE InitPublish
  <2>1. ~pool_active /\ pool_active' = TRUE /\ UNCHANGED <<mem, done, bitmap>>
    BY <1>4, Zenon DEF InitPublish, OneThread
  <2>2. \A i \in Jobs : Status(i)' = Status(i)
    BY <2>1, StatusFrame, Zenon
  <2>3. Service!Open
    BY <2>1, <2>2, Zenon DEF Service!Open
  <2> QED BY <2>3, Zenon DEF Service!Next
<1>5. CASE ShutdownCall
  <2>1. pool_active /\ pool_active' = FALSE /\ UNCHANGED <<mem, done, bitmap>>
    BY <1>5, Zenon DEF ShutdownCall, OneThread
  <2>2. \A i \in Jobs : Status(i)' = Status(i)
    BY <2>1, StatusFrame, Zenon
  <2>3. Service!Stop
    BY <2>1, <2>2, Zenon DEF Service!Stop
  <2> QED BY <2>3, Zenon DEF Service!Next
<1>6. CASE ShutdownReap
  BY <1>6, ServiceDiscard, Zenon DEF Service!Next
<1>7. CASE InitCall \/ InitCreate \/ InitCreateFails \/ InitJoinFailed
           \/ ShutdownStop \/ ShutdownJoin \/ UNCHANGED vars
  <2>1. UNCHANGED <<pool_active, mem, done, bitmap>>
    BY <1>7, ZenonT(60) DEF InitCall, InitCreate, InitCreateFails, InitJoinFailed,
       ShutdownStop, ShutdownJoin, vars
  <2> QED BY <2>1, ServiceStutter, Zenon
<1> QED BY <1>1, <1>2, <1>3, <1>4, <1>5, <1>6, <1>7, ZenonT(60) DEF Next, MainStep

\* Used by one calling thread the pool implements the safety part of
\* RenderService, for any number of workers, jobs and cues and with failing
\* thread creation: a job is accepted only by an open pool, rendered once, its
\* bitmap delivered once or discarded, and shutdown drops no unrendered job.
THEOREM PoolImplementsService ==
  ASSUME ~Overlap
  PROVE  Spec => Service!Init /\ [][Service!Next]_(Service!vars)
<1>1. Init => Service!Init
  <2> SUFFICES ASSUME Init PROVE Service!Init
    BY Zenon
  <2>1. \A j \in Jobs : Status(j) = "none"
    BY Zenon DEF Init, Status
  <2> QED BY <2>1, Zenon DEF Init, Service!Init
<1>2. PoolInv /\ OneThread /\ Drained /\ [Next]_vars => [Service!Next]_(Service!vars)
  BY ServiceStep, Zenon
<1> QED BY <1>1, <1>2, PoolDrained, PTL DEF Spec

-----------------------------------------------------------------------------
(* The length of the queue.                                                *)

INSTANCE FiniteSetTheorems

\* The callers past the depth check of submit_async, and those whose own
\* transient job is still in the queue.
Enqueuing == {c \in Clients : cpc[c] = "submit_enqueue"}

Queued == {c \in Clients : cjob[c] \in Range(queue)}

\* What the depth check leaves: besides the jobs of blocked callers, the queue
\* and the submissions already past the check exceed the limit by no more than
\* one job per caller.
QueueCount ==
  Len(queue) + Cardinality(Enqueuing)
    <= MAX_QUEUE_DEPTH - 1 + Cardinality(Clients) + Cardinality(Queued)

\* A set of callers is finite and has at most as many members as there are
\* callers.
LEMMA SubsetCount ==
  ASSUME IsFiniteSet(Clients), NEW S \in SUBSET Clients
  PROVE  /\ IsFiniteSet(S)
         /\ Cardinality(Clients) \in Nat /\ Cardinality(S) \in Nat
         /\ Cardinality(S) <= Cardinality(Clients)
<1>1. IsFiniteSet(S) /\ Cardinality(S) <= Cardinality(Clients)
  BY FS_Subset, Zenon
<1> QED BY <1>1, FS_CardinalityType, Zenon

\* The two sets of callers, before and after a step.
LEMMA CountType ==
  ASSUME IsFiniteSet(Clients)
  PROVE  /\ IsFiniteSet(Enqueuing) /\ IsFiniteSet(Queued)
         /\ IsFiniteSet(Enqueuing') /\ IsFiniteSet(Queued')
         /\ Cardinality(Clients) \in Nat
         /\ Cardinality(Enqueuing) \in Nat /\ Cardinality(Queued) \in Nat
         /\ Cardinality(Enqueuing') \in Nat /\ Cardinality(Queued') \in Nat
         /\ Cardinality(Enqueuing') <= Cardinality(Clients)
         /\ Cardinality(Queued) <= Cardinality(Clients)
<1>1. /\ Enqueuing \in SUBSET Clients /\ Queued \in SUBSET Clients
      /\ Enqueuing' \in SUBSET Clients /\ Queued' \in SUBSET Clients
  BY Zenon DEF Enqueuing, Queued
<1> QED BY <1>1, SubsetCount, Zenon

\* A step that leaves the queue no longer, lets nobody past the depth check and
\* takes no blocked caller's job out of the queue preserves QueueCount.
LEMMA CountFrame ==
  ASSUME IsFiniteSet(Clients), QueueCount,
         Len(queue) \in Nat, Len(queue') \in Nat,
         Len(queue') <= Len(queue), Enqueuing' \subseteq Enqueuing,
         Queued \subseteq Queued'
  PROVE  QueueCount'
<1>1. /\ Cardinality(Enqueuing') <= Cardinality(Enqueuing)
      /\ Cardinality(Queued) <= Cardinality(Queued')
  BY CountType, FS_Subset, Zenon
<1> QED BY <1>1, CountType DEF QueueCount

\* The same for a step that leaves the queue alone.
LEMMA CountQuiet ==
  ASSUME IsFiniteSet(Clients), QueueCount, queue \in Seq(Jobs), UNCHANGED queue,
         \A d \in Clients : /\ cpc'[d] = "submit_enqueue" => cpc[d] = "submit_enqueue"
                            /\ cjob[d] \in Range(queue) => cjob'[d] = cjob[d]
  PROVE  QueueCount'
<1>1. Enqueuing' \subseteq Enqueuing /\ Queued \subseteq Queued'
  BY Zenon DEF Enqueuing, Queued
<1>2. Len(queue) \in Nat /\ Len(queue') = Len(queue)
  OBVIOUS
<1> QED BY <1>1, <1>2, CountFrame

\* Taking the head of the queue takes away at most one blocked caller's job.
LEMMA CountTake ==
  ASSUME IsFiniteSet(Clients), PoolInv, QueueCount, NEW w \in Workers, WorkerTake(w)
  PROVE  QueueCount'
<1>1. queue \in Seq(Jobs) /\ UNCHANGED <<cpc, cjob>>
  BY Zenon DEF PoolInv, TypeOK, WorkerTake
<1>2. CASE queue = <<>>
  <2>1. UNCHANGED queue
    BY <1>2, Zenon DEF WorkerTake
  <2> QED BY <1>1, <2>1, CountQuiet, Zenon
<1>3. CASE queue # <<>>
  <2>1. queue' = Tail(queue)
    BY <1>3, Zenon DEF WorkerTake
  <2>2. /\ Len(queue) \in Nat /\ Len(queue') \in Nat
        /\ Len(queue') = Len(queue) - 1
    BY <1>1, <1>3, <2>1
  <2>3. Range(queue) \subseteq Range(queue') \cup {Head(queue)} /\ Head(queue) \in Jobs
    BY <1>1, <1>3, <2>1, TailLemma, Zenon
  <2>4. Enqueuing' = Enqueuing
    BY <1>1, Zenon DEF Enqueuing
  <2>5. CASE \A c \in Clients : cjob[c] # Head(queue)
    <3>1. Queued \subseteq Queued'
      BY <1>1, <2>3, <2>5, Zenon DEF Queued
    <3> QED BY <2>2, <2>4, <3>1, CountFrame
  <2>6. ASSUME NEW c \in Clients, cjob[c] = Head(queue) PROVE QueueCount'
    <3>1. \A d \in Clients \ {c} : cjob[d] # cjob[c]
      BY <2>3, <2>6, Zenon DEF PoolInv, CallerSafe
    <3>2. Queued \ {c} \subseteq Queued'
      BY <1>1, <2>3, <2>6, <3>1, Zenon DEF Queued
    <3>3. /\ Cardinality(Queued \ {c}) \in Nat
          /\ Cardinality(Queued \ {c}) >= Cardinality(Queued) - 1
      <4>1. /\ IsFiniteSet(Queued \ {c})
            /\ Cardinality(Queued \ {c}) = IF c \in Queued THEN Cardinality(Queued) - 1
                                                             ELSE Cardinality(Queued)
        BY CountType, FS_RemoveElement, Zenon
      <4>2. Cardinality(Queued \ {c}) \in Nat
        BY <4>1, FS_CardinalityType, Zenon
      <4> QED BY <4>1, <4>2, CountType
    <3>4. Cardinality(Queued \ {c}) <= Cardinality(Queued')
      BY <3>2, CountType, FS_Subset, Zenon
    <3> QED BY <2>2, <2>4, <3>3, <3>4, CountType, SMTT(60) DEF QueueCount
  <2> QED BY <2>5, <2>6, Zenon
<1> QED BY <1>2, <1>3, Zenon

\* A sync caller that appends its job is counted with it.
LEMMA CountSyncEnqueue ==
  ASSUME IsFiniteSet(Clients), PoolInv, QueueCount, NEW c \in Clients, SyncEnqueue(c)
  PROVE  QueueCount'
<1>1. /\ queue \in Seq(Jobs) /\ cpc \in [Clients -> ClientPC]
      /\ cjob[c] \in Jobs \cup {None} /\ cpc[c] = "sync_enqueue"
  BY Zenon DEF PoolInv, TypeOK, SyncEnqueue
<1>2. /\ queue' = Append(queue, cjob[c]) /\ UNCHANGED cjob
      /\ cpc' = [cpc EXCEPT ![c] = "sync_lock"]
  BY Zenon DEF SyncEnqueue
<1>3. cjob[c] # None /\ cjob[c] \notin Range(queue)
  BY <1>1, Zenon DEF PoolInv, ClientsSound
<1>4. Range(queue') = Range(queue) \cup {cjob[c]}
  BY <1>1, <1>2, <1>3, AppendLemma, Zenon
<1>5. Len(queue) \in Nat /\ Len(queue') = Len(queue) + 1
  BY <1>1, <1>2, <1>3
<1>6. Queued \cup {c} \subseteq Queued' /\ c \notin Queued
  BY <1>2, <1>3, <1>4, Zenon DEF Queued
<1>7. Enqueuing' \subseteq Enqueuing
  BY <1>1, <1>2, Zenon DEF Enqueuing
<1>8. /\ Cardinality(Queued) + 1 <= Cardinality(Queued')
      /\ Cardinality(Enqueuing') <= Cardinality(Enqueuing)
  <2>1. Cardinality(Queued \cup {c}) = Cardinality(Queued) + 1
    BY <1>6, CountType, FS_AddElement, Zenon
  <2> QED BY <1>6, <1>7, <2>1, CountType, FS_Subset
<1> QED BY <1>5, <1>8, CountType DEF QueueCount

\* A submission that appends its job was counted when it passed the check.
LEMMA CountSubmitEnqueue ==
  ASSUME IsFiniteSet(Clients), PoolInv, QueueCount, NEW c \in Clients,
         SubmitEnqueue(c)
  PROVE  QueueCount'
<1>1. /\ queue \in Seq(Jobs) /\ cpc \in [Clients -> ClientPC]
      /\ cpc[c] = "submit_enqueue" /\ cpc' = [cpc EXCEPT ![c] = "idle"]
      /\ UNCHANGED cjob
  BY Zenon DEF PoolInv, TypeOK, SubmitEnqueue
<1>2. CASE UNCHANGED queue
  BY <1>1, <1>2, CountQuiet, Zenon
<1>3. ASSUME NEW j \in Jobs, queue' = Append(queue, j) PROVE QueueCount'
  <2>1. Range(queue') = Range(queue) \cup {j}
    BY <1>1, <1>3, AppendLemma, Zenon
  <2>2. Len(queue) \in Nat /\ Len(queue') = Len(queue) + 1
    BY <1>1, <1>3
  <2>3. Queued \subseteq Queued'
    BY <1>1, <2>1, Zenon DEF Queued
  <2>4. Enqueuing' \subseteq Enqueuing \ {c} /\ c \in Enqueuing
    BY <1>1, Zenon DEF Enqueuing
  <2>5. /\ IsFiniteSet(Enqueuing \ {c})
        /\ Cardinality(Enqueuing \ {c}) = Cardinality(Enqueuing) - 1
    BY <2>4, CountType, FS_RemoveElement, Zenon
  <2>6. /\ Cardinality(Enqueuing') <= Cardinality(Enqueuing) - 1
        /\ Cardinality(Queued) <= Cardinality(Queued')
    BY <2>3, <2>4, <2>5, CountType, FS_Subset
  <2> QED BY <2>2, <2>6, CountType DEF QueueCount
<1> QED BY <1>2, <1>3, ZenonT(60) DEF SubmitEnqueue

\* A submission passes the check only when the queue has room.
LEMMA CountSubmitDepth ==
  ASSUME IsFiniteSet(Clients), PoolInv, QueueCount, NEW c \in Clients, SubmitDepth(c)
  PROVE  QueueCount'
<1>1. /\ queue \in Seq(Jobs) /\ cpc \in [Clients -> ClientPC]
      /\ UNCHANGED <<queue, cjob>>
      /\ cpc' = [cpc EXCEPT ![c] = IF Len(queue) >= MAX_QUEUE_DEPTH
                                     THEN "idle" ELSE "submit_enqueue"]
  BY Zenon DEF PoolInv, TypeOK, SubmitDepth
<1>2. CASE Len(queue) >= MAX_QUEUE_DEPTH
  BY <1>1, <1>2, CountQuiet, Zenon
<1>3. CASE ~(Len(queue) >= MAX_QUEUE_DEPTH)
  BY <1>1, <1>3, CountType DEF QueueCount
<1> QED BY <1>2, <1>3, Zenon

\* Every step of the pool preserves QueueCount.
LEMMA NextQueueCount ==
  ASSUME IsFiniteSet(Clients)
  PROVE  PoolInv /\ QueueCount /\ [Next]_vars => QueueCount'
<1> SUFFICES ASSUME PoolInv, QueueCount, [Next]_vars PROVE QueueCount'
  BY Zenon
<1>0. /\ queue \in Seq(Jobs) /\ cpc \in [Clients -> ClientPC]
      /\ cjob \in [Clients -> Jobs \cup {None}]
  BY Zenon DEF PoolInv, TypeOK
<1>1. ASSUME NEW w \in Workers, Worker(w) \/ WorkerSpurious(w) PROVE QueueCount'
  <2>1. CASE WorkerPublish(w) \/ WorkerSpurious(w)
    <3>1. UNCHANGED <<queue, cpc, cjob>>
      BY <2>1, Zenon DEF WorkerPublish, WorkerSpurious
    <3> QED BY <1>0, <3>1, CountQuiet, Zenon
  <2>2. CASE WorkerNotify(w)
    <3>1. UNCHANGED <<queue, cjob>> /\ \A d \in Clients :
            cpc'[d] = "submit_enqueue" => cpc[d] = "submit_enqueue"
      BY <2>2, Zenon DEF WorkerNotify
    <3> QED BY <1>0, <3>1, CountQuiet, ZenonT(60)
  <2> QED BY <1>1, <2>1, <2>2, CountTake, Zenon DEF Worker
<1>2. ASSUME NEW c \in Clients, NEW k \in Cues,
             SyncCall(c, k) \/ SubmitCall(c, k) \/ TryGet(c, k)
      PROVE  QueueCount'
  <2>1. cpc[c] = "idle" /\ UNCHANGED queue
    BY <1>2, ZenonT(60) DEF SyncCall, SubmitCall, TryGet, MayCall
  <2>2. cjob[c] \notin Range(queue)
    <3>1. cjob[c] = None
      BY <2>1, ZenonT(60) DEF PoolInv, ClientsSound
    <3> QED BY <1>0, <3>1 DEF Range
  <2>3. \A d \in Clients : /\ cpc'[d] = "submit_enqueue" => cpc[d] = "submit_enqueue"
                           /\ d # c => cjob'[d] = cjob[d]
    <3>1. CASE SyncCall(c, k)
      BY <1>0, <3>1, Zenon DEF SyncCall, Return
    <3>2. CASE SubmitCall(c, k)
      BY <1>0, <3>2, Zenon DEF SubmitCall
    <3>3. CASE TryGet(c, k)
      BY <1>0, <3>3, Zenon DEF TryGet
    <3> QED BY <1>2, <3>1, <3>2, <3>3, ZenonT(60)
  <2> QED BY <1>0, <2>1, <2>2, <2>3, CountQuiet, ZenonT(60)
<1>3. ASSUME NEW c \in Clients, SyncLock(c) \/ SyncSpurious(c) PROVE QueueCount'
  <2>1. UNCHANGED <<queue, cjob>> /\ \A d \in Clients :
          cpc'[d] = "submit_enqueue" => cpc[d] = "submit_enqueue"
    BY <1>0, <1>3, ZenonT(60) DEF SyncLock, SyncSpurious
  <2> QED BY <1>0, <2>1, CountQuiet, ZenonT(60)
<1>4. ASSUME NEW c \in Clients, SyncTake(c) \/ GetTake(c) PROVE QueueCount'
  <2>1. /\ cpc[c] \in {"sync_take", "get_take"} /\ UNCHANGED queue
        /\ cpc' = [cpc EXCEPT ![c] = "idle"]
        /\ cjob' = [cjob EXCEPT ![c] = None]
    BY <1>4, ZenonT(60) DEF SyncTake, GetTake, Return
  <2>2. done[cjob[c]]
    BY <2>1, Zenon DEF PoolInv, ClientsSound
  <2>3. cjob[c] \notin Range(queue)
    BY <2>2, Zenon DEF PoolInv, QueueSound
  <2> QED BY <1>0, <2>1, <2>3, CountQuiet, ZenonT(60)
<1>5. CASE ShutdownReap
  <2>1. queue' = <<>>
    BY <1>5, Zenon DEF ShutdownReap
  <2>2. Len(queue') = 0
    BY <2>1, Zenon
  <2> QED BY <2>2, CountType DEF QueueCount
<1>6. CASE InitCall \/ InitCreate \/ InitCreateFails \/ InitJoinFailed \/ InitPublish
           \/ ShutdownCall \/ ShutdownStop \/ ShutdownJoin \/ UNCHANGED vars
  <2>1. UNCHANGED <<queue, cpc, cjob>>
    BY <1>6, Zenon DEF InitCall, InitCreate, InitCreateFails, InitJoinFailed, InitPublish,
       ShutdownCall, ShutdownStop, ShutdownJoin, vars
  <2> QED BY <1>0, <2>1, CountQuiet, Zenon
<1>7. ASSUME NEW c \in Clients, Call(c) \/ Client(c) \/ SyncSpurious(c)
      PROVE  QueueCount'
  BY <1>2, <1>3, <1>4, <1>7, CountSyncEnqueue, CountSubmitEnqueue, CountSubmitDepth,
     Zenon DEF Call, Client
<1> QED BY <1>1, <1>5, <1>6, <1>7, Zenon DEF Next, MainStep

\* The unlocked gap between the depth check and the enqueue of submit_async, and
\* sync callers that do not check at all, let the queue pass MAX_QUEUE_DEPTH by a
\* bounded number of jobs only, for every limit and any finite set of callers.
THEOREM PoolQueueBounded ==
  ASSUME IsFiniteSet(Clients)
  PROVE  Spec => []QueueBounded
<1>1. Init => QueueCount
  <2> SUFFICES ASSUME Init PROVE QueueCount
    BY Zenon
  <2>1. Len(queue) = 0
    BY Zenon DEF Init
  <2>2. Enqueuing = {}
    BY Zenon DEF Init, Enqueuing
  <2>3. Cardinality(Enqueuing) = 0
    BY <2>2, FS_EmptySet, Zenon
  <2> QED BY <2>1, <2>3, CountType DEF QueueCount
<1>2. ASSUME PoolInv, QueueCount PROVE QueueBounded
  <2>1. Len(queue) \in Nat
    BY <1>2 DEF PoolInv, TypeOK
  <2>2. Len(queue) <= MAX_QUEUE_DEPTH - 1 + Cardinality(Clients) + Cardinality(Queued)
    BY <1>2, <2>1, CountType DEF QueueCount
  <2> QED BY <2>2, Zenon DEF QueueBounded, Queued
<1>3. Spec => [](PoolInv /\ QueueCount)
  BY <1>1, InitPoolInv, NextPoolInv, NextQueueCount, PTL DEF Spec
<1> QED BY <1>2, <1>3, PTL

=============================================================================
