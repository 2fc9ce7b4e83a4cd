-------------------------- MODULE LifecycleProofs ---------------------------
(***************************************************************************)
(* The lives of jobs and their results, for any number of clients and      *)
(* jobs.  ServerProofs shows what each step does to the tables; this       *)
(* module shows that each of those effects is a step of JobLifecycle, that *)
(* the list of results keeps within its limit and says what happened, that *)
(* whoever waits for a job is told what happened, and that the scheduler   *)
(* forgets nobody and starts nothing too early.                            *)
(***************************************************************************)
EXTENDS ServerProofs

(* No result is recorded of a job that has not ended.                      *)
NoResultYet ==
    \A j \in JobIds : j >= jobids \/ job[j].state \in Live => outcome[j] = {}

(* The jobs of the queue have their ids from jobids.                       *)
LEMMA IdsInRange ==
    ASSUME JobsInv
    PROVE  /\ jobids \in Nat
           /\ \A x \in JobIds : x \in Int
           /\ \A x \in JobIds : job[x].state \in Live => ~(x >= jobids)
           /\ \A x \in JobIds : job[x].state = "RUNNING" => job[x].state \in Live
  BY DEF JobsInv, JobsTypeOK, JobIds, QueueConsistent, Consistent, Live

(* A job that a step leaves alone looks the same.                          *)
LEMMA SameLife ==
    ASSUME NEW x \in JobIds, SameJob(x), x >= jobids' <=> x >= jobids
    PROVE  Life'[x] = Life[x] /\ Size'[x] = Size[x]
  BY DEF SameJob, Life, Size

(* A step without effect on the jobs is at most a new limit (-S).          *)
LEMMA QuietStep ==
    ASSUME JobsInv, NoResultYet, Quiet
    PROVE  NoResultYet' /\ Lifecycle!SetLimit
  <1>1. \A x \in JobIds : Life'[x] = Life[x] /\ Size'[x] = Size[x]
    BY SameLife DEF Quiet
  <1>2. Life' = Life /\ Size' = Size
    BY <1>1 DEF Life, Size
  <1>3. NoResultYet'
    BY DEF NoResultYet, Quiet, SameJob
  <1>. QED  BY <1>2, <1>3 DEF Lifecycle!SetLimit, Quiet

(* ENDJOB, -r and the death of a client end a job once.                    *)
LEMMA EndsStep ==
    ASSUME JobsInv, NoResultYet, NEW j \in JobIds, Ends(j)
    PROVE  NoResultYet' /\ Lifecycle!End(j)
  <1>1. \A x \in JobIds \ {j} : Life'[x] = Life[x] /\ Size'[x] = Size[x]
    BY SameLife DEF Ends
  <1>2. /\ Life[j] \in {"waiting", "running"} /\ Life'[j] = "ended"
        /\ Size'[j] = 0
    BY IdsInRange DEF Ends, Life, Size, Live
  <1>3. /\ Life' = [Life EXCEPT ![j] = "ended"]
        /\ Size' = [Size EXCEPT ![j] = 0]
    BY <1>1, <1>2 DEF Life, Size
  <1>4. PICK e \in Int : outcome' = [outcome EXCEPT ![j] = {e}]
    BY DEF Ends
  <1>5. outcome \in [JobIds -> SUBSET Int]
    BY DEF JobsInv, JobsTypeOK
  <1>6. Lifecycle!Record(j)
    <2>1. outcome[j] = {}
      BY DEF NoResultYet, Ends
    <2>2. outcome'[j] = {e}
      BY <1>4, <1>5
    <2>. QED  BY <1>4, <2>1, <2>2 DEF Lifecycle!Record
  <1>7. NoResultYet'
    BY <1>4, <1>5, IdsInRange DEF NoResultYet, Ends, SameJob
  <1>. QED  BY <1>2, <1>3, <1>6, <1>7 DEF Lifecycle!End, Ends

(* The next id is the one that JobLifecycle gives out.                     *)
LEMMA NextIdIsFree ==
    ASSUME JobsInv, jobids \in JobIds
    PROVE  Lifecycle!NextId(jobids) /\ job[jobids].state \notin Live
  BY IdsInRange DEF Lifecycle!NextId, Lifecycle!JobIds, JobIds, Life

(* s_newjob submits the job with the next id.                              *)
LEMMA SubmitsStep ==
    ASSUME JobsInv, NoResultYet, Submits
    PROVE  NoResultYet' /\ Lifecycle!Submit(jobids)
  <1>0. jobids \in JobIds
    BY DEF Submits
  <1>1. \A x \in JobIds \ {jobids} : Life'[x] = Life[x] /\ Size'[x] = Size[x]
    <2>1. \A x \in JobIds \ {jobids} : x >= jobids' <=> x >= jobids
      BY <1>0, IdsInRange DEF Submits
    <2>. QED  BY <2>1, SameLife DEF Submits
  <1>2. Life'[jobids] = "waiting" /\ Size'[jobids] \in Nat
    BY <1>0, IdsInRange DEF Submits, Life, Size
  <1>3. /\ Life' = [Life EXCEPT ![jobids] = "waiting"]
        /\ Size' = [Size EXCEPT ![jobids] = Size'[jobids]]
    BY <1>0, <1>1, <1>2 DEF Life, Size
  <1>4. NoResultYet'
    BY <1>0, IdsInRange DEF NoResultYet, Submits, SameJob
  <1>. QED  BY <1>0, <1>2, <1>3, <1>4, NextIdIsFree DEF Lifecycle!Submit, Submits

(* A job of -B for which there is no place is rejected.                    *)
LEMMA RejectsStep ==
    ASSUME JobsInv, NoResultYet, Rejects
    PROVE  NoResultYet' /\ Lifecycle!Reject(jobids)
  <1>0. jobids \in JobIds /\ job[jobids].state \notin Live
    BY NextIdIsFree DEF Rejects
  <1>1. \A x \in JobIds \ {jobids} : Life'[x] = Life[x] /\ Size'[x] = Size[x]
    <2>1. \A x \in JobIds \ {jobids} : x >= jobids' <=> x >= jobids
      BY <1>0, IdsInRange DEF Rejects
    <2>. QED  BY <2>1, SameLife DEF Rejects
  <1>2. /\ Life'[jobids] = "ended"
        /\ Size'[jobids] = 0 /\ Size[jobids] = 0
    BY <1>0, IdsInRange DEF Rejects, Life, Size, Live
  <1>3. Life' = [Life EXCEPT ![jobids] = "ended"] /\ Size' = Size
    BY <1>0, <1>1, <1>2 DEF Life, Size
  <1>4. outcome \in [JobIds -> SUBSET Int]
    BY DEF JobsInv, JobsTypeOK
  <1>5. Lifecycle!Record(jobids)
    <2>1. outcome[jobids] = {}
      BY <1>0, IdsInRange DEF NoResultYet
    <2>2. outcome'[jobids] = {-1}
      BY <1>0, <1>4 DEF Rejects
    <2>. QED  BY <2>1, <2>2 DEF Lifecycle!Record, Rejects
  <1>6. NoResultYet'
    BY <1>0, <1>4, IdsInRange DEF NoResultYet, Rejects, SameJob
  <1>. QED  BY <1>0, <1>3, <1>5, <1>6, NextIdIsFree
            DEF Lifecycle!Reject, Rejects

(* next_run_job starts a waiting job, into free slots.                     *)
LEMMA StartsStep ==
    ASSUME JobsInv, JobsInv', NoResultYet, NEW j \in JobIds, Starts(j)
    PROVE  NoResultYet' /\ Lifecycle!Start(j)
  <1>1. \A x \in JobIds \ {j} : Life'[x] = Life[x] /\ Size'[x] = Size[x]
    BY SameLife DEF Starts
  <1>2. /\ Life[j] = "waiting" /\ Life'[j] = "running"
        /\ Size'[j] = Size[j]
    BY IdsInRange DEF Starts, Life, Size, Live
  <1>3. Life' = [Life EXCEPT ![j] = "running"] /\ Size' = Size
    <2>1. Life' = [Life EXCEPT ![j] = "running"]
      BY <1>1, <1>2 DEF Life
    <2>2. \A x \in JobIds : Size'[x] = Size[x]
      BY <1>1, <1>2
    <2>3. Size' = Size
      BY <2>2 DEF Size
    <2>. QED  BY <2>1, <2>3
  <1>4. (Lifecycle!Taken)' = RunningSlots'
    <2>1. \A x \in JobIds : Life'[x] = "running" <=> job'[x].state = "RUNNING"
      <3>1. \A x \in JobIds : job'[x].state = "RUNNING" => ~(x >= jobids')
        BY DEF JobsInv, QueueConsistent, Consistent, Live
      <3>. QED  BY <3>1 DEF Life
    <2>2. \A x \in JobIds : job'[x].state = "RUNNING" =>
            Size'[x] = job'[x].num_slots
      BY DEF Size, Live
    <2>. QED  BY <2>1, <2>2
              DEF Lifecycle!Taken, Lifecycle!JobIds, RunningSlots, SlotsOf, JobIds
  <1>5. NoResultYet'
    BY DEF NoResultYet, Starts, SameJob, Live
  <1>6. (Lifecycle!Cardinality(Lifecycle!Taken))' = Cardinality(RunningSlots')
    BY <1>4 DEF Lifecycle!Cardinality, Cardinality
  <1>. QED  BY <1>2, <1>3, <1>5, <1>6 DEF Lifecycle!Start, Starts

-----------------------------------------------------------------------------
(* The empty tables represent the abstract initial state.                  *)
LEMMA LifecycleInit ==
    ASSUME Init
    PROVE  NoResultYet /\ Lifecycle!Init
  <1>1. Life = [j \in JobIds |-> "new"] /\ Size = [j \in JobIds |-> 0]
    BY DEF Init, Life, Size, JobIds, NoJob, Live
  <1>. QED  BY <1>1
            DEF Init, NoResultYet, Lifecycle!Init, Lifecycle!JobIds, JobIds

(* Every step is a step or a stutter of JobLifecycle.                      *)
LEMMA LifecycleNext ==
    ASSUME IInv, IInv', NoResultYet, [Next]_vars
    PROVE  NoResultYet' /\ [Lifecycle!Next]_(Lifecycle!vars)
  <1>1. JobsInv /\ JobsInv' /\ Effect
    BY JobsNext DEF IInv
  <1>2. CASE Quiet
    BY <1>1, <1>2, QuietStep DEF Lifecycle!Next
  <1>3. CASE \E j \in JobIds : Ends(j)
    BY <1>1, <1>3, EndsStep DEF Lifecycle!Next, Lifecycle!JobIds, JobIds
  <1>4. CASE Submits
    BY <1>1, <1>4, SubmitsStep
       DEF Lifecycle!Next, Lifecycle!JobIds, JobIds, Submits
  <1>5. CASE Rejects
    BY <1>1, <1>5, RejectsStep
       DEF Lifecycle!Next, Lifecycle!JobIds, JobIds, Rejects
  <1>6. CASE \E j \in JobIds : Starts(j)
    BY <1>1, <1>6, StartsStep DEF Lifecycle!Next, Lifecycle!JobIds, JobIds
  <1>. QED  BY <1>1, <1>2, <1>3, <1>4, <1>5, <1>6 DEF Effect, ServedEffect

(* The task spooler implements JobLifecycle, for every number of clients,  *)
(* jobs, slots and connections: a job is started at most once and only     *)
(* into free slots, and it ends exactly once, whichever of ENDJOB, the     *)
(* death of its client, -r or a rejection comes first.                     *)
THEOREM LifecycleImplemented == Spec => ImplementsLifecycle
  <1>1. Init => NoResultYet /\ Lifecycle!Init
    BY LifecycleInit
  <1>2. IInv /\ IInv' /\ NoResultYet /\ [Next]_vars =>
          NoResultYet' /\ [Lifecycle!Next]_(Lifecycle!vars)
    BY LifecycleNext
  <1>. QED  BY <1>1, <1>2, InvariantHolds, PTL
            DEF Spec, ImplementsLifecycle, Lifecycle!Spec

-----------------------------------------------------------------------------
(* The list of results.                                                    *)

(* A stored result is the one that was recorded when the job ended.        *)
Recorded ==
    \A x \in Range(first_finished_job) : outcome[x] = {job[x].errorlevel}

(* last_finished_jobid is a job that has ended, or has its first value.    *)
LastEnded ==
    /\ last_finished_jobid = 0 \/ ~(last_finished_jobid >= jobids)
    /\ last_finished_jobid \in Range(firstjob) => last_finished_jobid = 0

(* The invariant of the results.                                           *)
ResultsInv == ResultsBounded /\ Recorded /\ LastEnded

(* What a result consists of.                                              *)
SameResult(r, s) ==
    /\ r.errorlevel = s.errorlevel
    /\ r.should_keep_finished = s.should_keep_finished

(* What a step does to the results: old ones stay as they are or go, and   *)
(* new ones are recorded.                                                  *)
ResultsKept ==
    /\ Len(first_finished_job') <= MaxFinished
    /\ \A x \in Range(first_finished_job') :
         \/ x \in Range(first_finished_job) /\ SameResult(job'[x], job[x])
         \/ job'[x].should_keep_finished /\ outcome'[x] = {job'[x].errorlevel}

(* What a step does to last_finished_jobid.                                *)
LastKept ==
    \/ UNCHANGED last_finished_jobid
    \/ \E j \in JobIds : Ends(j) /\ last_finished_jobid' = j
    \/ Rejects /\ last_finished_jobid' = jobids

(* What ResultStored says of a step.                                       *)
Stores ==
    \A j \in JobIds :
      /\ job[j].state \in Live /\ job[j].should_keep_finished
      /\ j \in Range(firstjob) /\ j \notin Range(firstjob')
      /\ last_finished_jobid' = j
      => j \in Range(first_finished_job')

(* new_finished_job does not exceed the limit and, from 2 on, does not     *)
(* lose the new result.                                                    *)
LEMMA NewFinishedJobBound ==
    ASSUME JobsTypeOK, Len(first_finished_job) <= MaxFinished, NEW j \in JobIds
    PROVE  /\ Len(NewFinishedJob(j)) <= MaxFinished
           /\ MaxFinished >= 2 => j \in Range(NewFinishedJob(j))
           /\ MaxFinished >= 2 \/ Len(first_finished_job) < MaxFinished =>
                Len(Front(NewFinishedJob(j))) <= MaxFinished
  <1>1. PICK f, n, m : /\ f = first_finished_job /\ n = Len(f)
                       /\ m = MaxFinished
    OBVIOUS
  <1>2. f \in Seq(JobIds) /\ n \in Nat /\ n <= m /\ m \in Nat
    BY <1>1, LenProperties, ConstantsAssumption DEF JobsTypeOK
  <1>3. \A s \in Seq(JobIds) :
          /\ Len(Append(s, j)) = Len(s) + 1 /\ j \in Range(Append(s, j))
          /\ Front(Append(s, j)) = s
    <2>1. \A s \in Seq(JobIds) : /\ Len(Append(s, j)) = Len(s) + 1
                                  /\ Len(s) + 1 \in DOMAIN Append(s, j)
                                  /\ Append(s, j)[Len(s) + 1] = j
      OBVIOUS
    <2>2. \A s \in Seq(JobIds) : j \in Range(Append(s, j))
      BY <2>1 DEF Range
    <2>3. \A s \in Seq(JobIds) : Front(Append(s, j)) = s
      BY FrontOfAppend
    <2>. QED  BY <2>1, <2>2, <2>3
  <1>4. CASE n < m
    <2>1. PICK a : a = Append(f, j)
      OBVIOUS
    <2>2. NewFinishedJob(j) = a
      BY <1>1, <1>4, <2>1 DEF NewFinishedJob
    <2>3. Len(a) = n + 1 /\ j \in Range(a) /\ Front(a) = f
      BY <1>1, <1>2, <1>3, <2>1
    <2>4. Len(a) <= m /\ Len(Front(a)) <= m
      BY <1>1, <1>2, <1>4, <2>3
    <2>. QED  BY <1>1, <2>2, <2>3, <2>4
  <1>5. CASE ~(n < m) /\ n <= 1
    <2>1. NewFinishedJob(j) = <<>>
      BY <1>1, <1>5 DEF NewFinishedJob
    <2>2. Len(<<>>) <= m /\ ~(m >= 2)
      BY <1>2, <1>5
    <2>. QED  BY <1>1, <1>5, <2>1, <2>2
  <1>6. CASE ~(n < m) /\ ~(n <= 1)
    <2>1. PICK g, a : g = Tail(f) /\ a = Append(g, j)
      OBVIOUS
    <2>2. g \in Seq(JobIds) /\ Len(g) = n - 1
      BY <1>1, <1>2, <1>6, <2>1, EmptySeq, HeadTailProperties
    <2>3. NewFinishedJob(j) = a
      BY <1>1, <1>6, <2>1 DEF NewFinishedJob
    <2>4. Len(a) = Len(g) + 1 /\ j \in Range(a) /\ Front(a) = g
      BY <1>3, <2>1, <2>2
    <2>5. Len(a) <= m /\ Len(Front(a)) <= m
      BY <1>2, <2>2, <2>4
    <2>. QED  BY <1>1, <2>3, <2>4, <2>5
  <1>. QED  BY <1>4, <1>5, <1>6

(* Telling a job how another ended changes neither its own result nor      *)
(* whether it is to be kept.                                               *)
LEMMA NotifyErrorlevelResult ==
    ASSUME JobsTypeOK, NEW j, NEW e, NEW x \in JobIds
    PROVE  SameResult(NotifyErrorlevel(j, e)[x], job[x])
  <1>1. job[x] \in Job
    BY DEF JobsTypeOK
  <1>2. \/ NotifyErrorlevel(j, e)[x] = job[x]
        \/ NotifyErrorlevel(j, e)[x] = [job[x] EXCEPT !.dependency_errorlevel = 1]
    BY DEF NotifyErrorlevel
  <1>. QED  BY <1>1, <1>2 DEF Job, SameResult

(* job_finished stores the result if it is to be kept.                     *)
LEMMA JobFinishedResults ==
    ASSUME JobsInv, Len(first_finished_job) <= MaxFinished,
           NEW q \in DOMAIN firstjob, NEW e \in Int, NEW st \in Done,
           JobFinished(q, e, st)
    PROVE  ResultsKept /\ LastKept /\ (MaxFinished >= 2 => Stores)
  <1>1. PICK j, keep, told, finished, queue :
          /\ j = firstjob[q] /\ keep = job[j].should_keep_finished
          /\ told = NotifyErrorlevel(j, e)
          /\ queue = RemoveAt(firstjob, q)
          /\ finished = IF keep THEN NewFinishedJob(j)
                        ELSE IF Waiters(j) # {} THEN Front(NewFinishedJob(j))
                        ELSE first_finished_job
    OBVIOUS
  <1>2. JobsInv' /\ Ends(j) /\ JobsTypeOK /\ QueueConsistent
    BY <1>1, JobFinishedStep DEF JobsInv
  <1>3. /\ j \in JobIds /\ j \notin Range(first_finished_job)
        /\ Range(firstjob') = Range(firstjob) \ {j}
    <2>1. j \in JobIds /\ job[j].state \in Live
      BY <1>2 DEF Ends
    <2>. QED  BY <1>2, <2>1, QueueLoses DEF QueueConsistent, Consistent, Live, Done
  <1>4. /\ ~MustFail(keep, Waiters(j) # {})
        /\ first_finished_job' = finished
        /\ job' = Sweep([told EXCEPT ![j].state = st, ![j].errorlevel = e],
                        queue, finished)
        /\ last_finished_jobid' = j
        /\ outcome' = [outcome EXCEPT ![j] = {e}]
    BY <1>1 DEF JobFinished
  <1>5. /\ Len(finished) <= MaxFinished
        /\ MaxFinished >= 2 /\ keep => j \in Range(finished)
        /\ \A x \in Range(finished) :
             x \in Range(first_finished_job) \/ (x = j /\ keep)
    <2>1. ~keep /\ Waiters(j) # {} =>
            MaxFinished >= 2 \/ Len(first_finished_job) < MaxFinished
      <3>1. PICK n, m : n = Len(first_finished_job) /\ m = MaxFinished
        OBVIOUS
      <3>2. n \in Nat /\ m \in Nat /\ n <= m
        BY <1>2, <3>1, LenProperties, ConstantsAssumption DEF JobsTypeOK
      <3>3. ASSUME Waiters(j) # {}
            PROVE  ~(m = 0) /\ ~(m = 1 /\ n = 1)
        BY <1>4, <3>1, <3>3 DEF MustFail
      <3>4. ASSUME Waiters(j) # {}
            PROVE  m >= 2 \/ n < m
        BY <3>2, <3>3, <3>4
      <3>. QED  BY <3>1, <3>4
    <2>2. /\ Range(NewFinishedJob(j)) \subseteq Range(first_finished_job) \cup {j}
          /\ Range(Front(NewFinishedJob(j))) \subseteq Range(first_finished_job)
      BY <1>2, <1>3, NewFinishedJobList
    <2>3. /\ Len(NewFinishedJob(j)) <= MaxFinished
          /\ MaxFinished >= 2 => j \in Range(NewFinishedJob(j))
          /\ ~keep /\ Waiters(j) # {} => Len(Front(NewFinishedJob(j))) <= MaxFinished
      BY <1>2, <1>3, <2>1, NewFinishedJobBound
    <2>4. CASE keep
      BY <1>1, <2>2, <2>3, <2>4
    <2>5. CASE ~keep /\ Waiters(j) # {}
      BY <1>1, <2>2, <2>3, <2>5
    <2>6. CASE ~keep /\ Waiters(j) = {}
      BY <1>1, <2>6
    <2>. QED  BY <2>4, <2>5, <2>6
  <1>6. LastKept
    BY <1>2, <1>3, <1>4 DEF LastKept
  <1>7. MaxFinished >= 2 => Stores
    BY <1>1, <1>3, <1>4, <1>5 DEF Stores
  <1>8. /\ \A x \in Range(finished) : x \in JobIds
        /\ \A x \in Range(finished) \ {j} : job'[x] = told[x]
        /\ j \in Range(finished) => /\ job'[j].errorlevel = e
                                    /\ job'[j].should_keep_finished
                                         = told[j].should_keep_finished
    <2>1. \A x \in Range(finished) : x \in JobIds
      BY <1>2, <1>4, RangeOfSeq DEF JobsInv, JobsTypeOK
    <2>2. told \in [JobIds -> Job]
      BY <1>1, <1>2, <1>3, NotifyErrorlevelTable
    <2>3. PICK t : t = [told EXCEPT ![j].state = st, ![j].errorlevel = e]
      OBVIOUS
    <2>4. /\ \A x \in JobIds \ {j} : t[x] = told[x]
          /\ t[j] = [told[j] EXCEPT !.state = st, !.errorlevel = e]
      BY <1>3, <2>2, <2>3
    <2>5. told[j] \in Job
      BY <1>3, <2>2
    <2>6. /\ t[j].errorlevel = e
          /\ t[j].should_keep_finished = told[j].should_keep_finished
      BY <2>4, <2>5 DEF Job
    <2>7. \A x \in Range(finished) : job'[x] = t[x]
      BY <1>4, <2>1, <2>3 DEF Sweep
    <2>. QED  BY <2>1, <2>4, <2>6, <2>7
  <1>9. \A x \in JobIds : SameResult(told[x], job[x])
    BY <1>1, <1>2, NotifyErrorlevelResult
  <1>10. outcome'[j] = {e}
    BY <1>2, <1>3, <1>4 DEF JobsTypeOK
  <1>11. ASSUME NEW x \in Range(finished)
         PROVE  \/ /\ x \in Range(first_finished_job)
                   /\ SameResult(job'[x], job[x])
                \/ /\ job'[x].should_keep_finished
                   /\ outcome'[x] = {job'[x].errorlevel}
    <2>1. CASE x # j
      BY <1>5, <1>8, <1>9, <2>1
    <2>2. CASE x = j
      <3>1. keep /\ job[j].should_keep_finished
        BY <1>1, <1>3, <1>5, <2>2
      <3>2. job'[j].should_keep_finished
        BY <1>3, <1>8, <1>9, <2>2, <3>1 DEF SameResult
      <3>. QED  BY <1>8, <1>10, <2>2, <3>2
    <2>. QED  BY <2>1, <2>2
  <1>12. ResultsKept
    BY <1>4, <1>5, <1>11 DEF ResultsKept
  <1>. QED  BY <1>6, <1>7, <1>12

(* A step that leaves the lists and the results alone.                     *)
LEMMA ResultsUntouched ==
    ASSUME Len(first_finished_job) <= MaxFinished,
           UNCHANGED <<first_finished_job, last_finished_jobid>>,
           Range(firstjob) \subseteq Range(firstjob'),
           \A x \in Range(first_finished_job) : SameResult(job'[x], job[x])
    PROVE  ResultsKept /\ LastKept /\ Stores
  BY DEF ResultsKept, LastKept, Stores

(* s_newjob changes the results of no other job.                           *)
LEMMA WithNewJobResult ==
    ASSUME JobsTypeOK, NEW c, NEW new, NEW st, NEW lastq, NEW lastf,
           NEW x \in JobIds \ {new}
    PROVE  SameResult(WithNewJob(c, new, st, lastq, lastf)[x], job[x])
  <1>1. job[x] \in Job
    BY DEF JobsTypeOK
  <1>2. PICK y : y = WithNewJob(c, new, st, lastq, lastf)[x]
    OBVIOUS
  <1>3. \/ y = job[x]
        \/ y = [job[x] EXCEPT !.notify_errorlevel_to = @ \cup {new}]
    BY <1>2 DEF WithNewJob
  <1>4. SameResult(y, job[x])
    BY <1>1, <1>3 DEF Job, SameResult
  <1>. QED  BY <1>2, <1>4

(* s_newjob adds a job without a result.                                   *)
LEMMA NewjobResults ==
    ASSUME TypeOK, JobsInv, Len(first_finished_job) <= MaxFinished,
           NEW k, Newjob(k)
    PROVE  ResultsKept /\ LastKept /\ Stores
  <1>1. JobsTypeOK /\ QueueConsistent /\ jobids \in JobIds
    BY DEF JobsInv, Newjob
  <1>2. PICK c, st, lastq, lastf :
          job' = WithNewJob(c, jobids, st, lastq, lastf)
    BY DEF Newjob
  <1>3. /\ UNCHANGED <<first_finished_job, last_finished_jobid>>
        /\ firstjob' = Append(firstjob, jobids)
    BY DEF Newjob, resultVars
  <1>4. Range(firstjob) \subseteq Range(firstjob')
    BY <1>1, <1>3, NewIdUnused, AppendIsInjective
       DEF JobsTypeOK, QueueConsistent, Consistent
  <1>5. \A x \in Range(first_finished_job) : x \in JobIds \ {jobids}
    BY <1>1, ListedJobs, NewIdUnused
  <1>6. \A x \in Range(first_finished_job) : SameResult(job'[x], job[x])
    BY <1>1, <1>2, <1>5, WithNewJobResult
  <1>. QED  BY <1>3, <1>4, <1>6, ResultsUntouched

(* A rejected job goes straight to the results, if it is to be kept.       *)
LEMMA NewjobNokResults ==
    ASSUME TypeOK, JobsInv, Len(first_finished_job) <= MaxFinished,
           NEW k, NewjobNok(k)
    PROVE  ResultsKept /\ LastKept /\ Stores
  <1>1. JobsInv' /\ Rejects /\ JobsTypeOK /\ QueueConsistent
    BY NewjobNokStep DEF JobsInv
  <1>2. PICK c, keep, finished, new :
          /\ c = command[client_cs[k].socket] /\ new = jobids
          /\ keep = c.should_keep_finished
          /\ finished = IF keep THEN NewFinishedJob(new)
                        ELSE first_finished_job
    OBVIOUS
  <1>3. PICK lastq \in LastId(Range(firstjob)),
             lastf \in LastId(Range(first_finished_job)) :
          job' = Sweep([WithNewJob(c, new, "FINISHED", lastq, lastf)
                          EXCEPT ![new].errorlevel = -1], firstjob, finished)
    BY <1>2 DEF NewjobNok
  <1>4. /\ first_finished_job' = finished /\ last_finished_jobid' = new
        /\ outcome' = [outcome EXCEPT ![new] = {-1}]
        /\ UNCHANGED firstjob
    BY <1>2 DEF NewjobNok
  <1>5. new \in JobIds /\ new \notin Range(first_finished_job)
    BY <1>1, <1>2, NewIdUnused DEF Rejects
  <1>6. /\ Len(finished) <= MaxFinished
        /\ \A x \in Range(finished) :
             x \in Range(first_finished_job) \/ (x = new /\ keep)
    <2>1. /\ Range(NewFinishedJob(new)) \subseteq Range(first_finished_job) \cup {new}
          /\ Len(NewFinishedJob(new)) <= MaxFinished
      BY <1>1, <1>5, NewFinishedJobList, NewFinishedJobBound
    <2>2. CASE keep
      BY <1>2, <2>1, <2>2
    <2>3. CASE ~keep
      BY <1>2, <2>3
    <2>. QED  BY <2>2, <2>3
  <1>7. PICK t : t = WithNewJob(c, new, "FINISHED", lastq, lastf)
    OBVIOUS
  <1>8. /\ t \in [JobIds -> Job]
        /\ t[new].should_keep_finished = keep
        /\ \A x \in JobIds \ {new} : SameResult(t[x], job[x])
    <2>1. c \in CommandLine
      BY <1>2, TurnType DEF NewjobNok, Serve
    <2>2. "FINISHED" \in Live \cup Done /\ jobids \in JobIds
      BY <1>2, <1>5 DEF Done
    <2>3. t \in [JobIds -> Job]
      BY <1>1, <1>2, <1>7, <2>1, <2>2, WithNewJobTable
    <2>4. t[new].should_keep_finished = keep
      BY <1>2, <1>5, <1>7 DEF WithNewJob
    <2>. QED  BY <1>1, <1>7, <2>3, <2>4, WithNewJobResult
  <1>9. PICK u : u = [t EXCEPT ![new].errorlevel = -1]
    OBVIOUS
  <1>10. /\ u[new].errorlevel = -1 /\ u[new].should_keep_finished = keep
         /\ \A x \in JobIds \ {new} : u[x] = t[x]
    <2>1. /\ u[new] = [t[new] EXCEPT !.errorlevel = -1] /\ t[new] \in Job
          /\ \A x \in JobIds \ {new} : u[x] = t[x]
      BY <1>5, <1>8, <1>9
    <2>. QED  BY <1>8, <2>1 DEF Job
  <1>11. \A x \in Range(finished) : x \in JobIds /\ job'[x] = u[x]
    <2>1. \A x \in Range(finished) : x \in JobIds
      BY <1>1, <1>4, RangeOfSeq DEF JobsInv, JobsTypeOK
    <2>. QED  BY <1>3, <1>7, <1>9, <2>1 DEF Sweep
  <1>12. outcome'[new] = {-1}
    BY <1>1, <1>4, <1>5 DEF JobsTypeOK
  <1>13. ASSUME NEW x \in Range(finished)
         PROVE  \/ /\ x \in Range(first_finished_job)
                   /\ SameResult(job'[x], job[x])
                \/ /\ job'[x].should_keep_finished
                   /\ outcome'[x] = {job'[x].errorlevel}
    <2>1. CASE x # new
      BY <1>6, <1>8, <1>10, <1>11, <2>1
    <2>2. CASE x = new
      BY <1>5, <1>6, <1>10, <1>11, <1>12, <2>2
    <2>. QED  BY <2>1, <2>2
  <1>14. ResultsKept
    BY <1>4, <1>6, <1>13 DEF ResultsKept
  <1>15. LastKept /\ Stores
    BY <1>1, <1>2, <1>4 DEF LastKept, Stores
  <1>. QED  BY <1>14, <1>15

(* s_remove_job of a queued job, which never is job 0.                     *)
LEMMA RemoveQueuedResults ==
    ASSUME TypeOK, JobsInv, LastEnded, Len(first_finished_job) <= MaxFinished,
           NEW k, RemoveQueued(k)
    PROVE  ResultsKept /\ LastKept /\ Stores
  <1>1. JobsTypeOK /\ QueueConsistent /\ JobZeroFirst
    BY DEF JobsInv
  <1>2. PICK q \in Named(firstjob, command[client_cs[k].socket].jobid) :
          /\ q > 1
          /\ firstjob' = RemoveAt(firstjob, q)
          /\ job' = Sweep(NotifyErrorlevel(firstjob[q], -1), firstjob',
                          first_finished_job)
    BY DEF RemoveQueued
  <1>3. UNCHANGED <<first_finished_job, last_finished_jobid>>
    BY DEF RemoveQueued
  <1>4. q \in DOMAIN firstjob /\ firstjob[q] \in JobIds
    BY <1>1, <1>2, LenProperties DEF JobsTypeOK, Named
  <1>5. Range(firstjob') = Range(firstjob) \ {firstjob[q]}
    BY <1>1, <1>2, <1>4, RemoveAtInjective
       DEF JobsTypeOK, QueueConsistent, Consistent
  <1>6. firstjob[q] # 0
    <2>1. 1 \in DOMAIN firstjob /\ firstjob[q] \in Range(firstjob)
      BY <1>1, <1>2, <1>4, LenProperties DEF JobsTypeOK, Range
    <2>2. firstjob[1] # firstjob[q]
      BY <1>1, <1>2, <1>4, <2>1
         DEF QueueConsistent, Consistent, IsInjective
    <2>. QED  BY <1>1, <2>1, <2>2 DEF JobZeroFirst
  <1>7. \A x \in Range(first_finished_job) : SameResult(job'[x], job[x])
    <2>1. \A x \in Range(first_finished_job) :
            x \in JobIds /\ job'[x] = NotifyErrorlevel(firstjob[q], -1)[x]
      BY <1>1, <1>2, ListedJobs DEF Sweep
    <2>. QED  BY <1>1, <2>1, NotifyErrorlevelResult
  <1>8. Stores
    BY <1>3, <1>5, <1>6 DEF Stores, LastEnded
  <1>. QED  BY <1>3, <1>7, <1>8 DEF ResultsKept, LastKept

(* s_remove_job of a stored result.                                        *)
LEMMA RemoveFinishedResults ==
    ASSUME TypeOK, JobsInv, Len(first_finished_job) <= MaxFinished,
           NEW k, RemoveFinished(k)
    PROVE  ResultsKept /\ LastKept /\ Stores
  <1>1. JobsTypeOK /\ QueueConsistent
    BY DEF JobsInv
  <1>2. PICK f, q : /\ f = first_finished_job
                    /\ q \in Named(f, command[client_cs[k].socket].jobid)
                    /\ first_finished_job' = RemoveAt(f, q)
                    /\ job' = Sweep(NotifyErrorlevel(f[q], -1), firstjob,
                                    first_finished_job')
    BY DEF RemoveFinished
  <1>3. UNCHANGED <<firstjob, last_finished_jobid>>
    BY DEF RemoveFinished
  <1>4. f \in Seq(JobIds) /\ q \in DOMAIN f
    BY <1>1, <1>2, LenProperties DEF JobsTypeOK, Named
  <1>5. PICK g : g = RemoveAt(f, q)
    OBVIOUS
  <1>6. g \in Seq(JobIds) /\ Len(g) = Len(f) - 1 /\ Range(g) \subseteq Range(f)
    BY <1>1, <1>2, <1>4, <1>5, RemoveAtSeq, RemoveAtInjective
       DEF QueueConsistent, Consistent
  <1>7. Len(g) <= MaxFinished
    <2>1. Len(f) \in Nat /\ MaxFinished \in Nat
      BY <1>4, LenProperties, ConstantsAssumption
    <2>. QED  BY <1>2, <1>6, <2>1
  <1>8. \A x \in Range(g) : SameResult(job'[x], job[x])
    <2>1. \A x \in Range(g) :
            x \in JobIds /\ job'[x] = NotifyErrorlevel(f[q], -1)[x]
      BY <1>1, <1>2, <1>5, <1>6, ListedJobs DEF Sweep
    <2>. QED  BY <1>1, <2>1, NotifyErrorlevelResult
  <1>. QED  BY <1>2, <1>3, <1>5, <1>6, <1>7, <1>8
            DEF ResultsKept, LastKept, Stores

(* next_run_job does not touch the results.                                *)
LEMMA StartJobResults ==
    ASSUME TypeOK, JobsInv, Len(first_finished_job) <= MaxFinished, StartJob
    PROVE  ResultsKept /\ LastKept /\ Stores
  <1>1. JobsTypeOK /\ QueueConsistent
    BY DEF JobsInv
  <1>2. PICK q \in NextRunJob :
          job' = [x \in JobIds |->
                    IF x = firstjob[q] THEN [job[x] EXCEPT !.state = "RUNNING"]
                    ELSE IF x \in HeldJobs
                    THEN [job[x] EXCEPT !.state = "QUEUED"] ELSE job[x]]
    BY DEF StartJob
  <1>3. UNCHANGED <<firstjob, first_finished_job, last_finished_jobid>>
    BY DEF StartJob, resultVars
  <1>4. ASSUME NEW x \in Range(first_finished_job)
        PROVE  SameResult(job'[x], job[x])
    <2>1. x \in JobIds /\ job[x] \in Job
      BY <1>1, <1>4, ListedJobs DEF JobsTypeOK
    <2>2. PICK y : y = job'[x]
      OBVIOUS
    <2>3. \/ y = job[x] \/ y = [job[x] EXCEPT !.state = "RUNNING"]
          \/ y = [job[x] EXCEPT !.state = "QUEUED"]
      BY <1>2, <2>1, <2>2
    <2>4. SameResult(y, job[x])
      BY <2>1, <2>3 DEF Job, SameResult
    <2>. QED  BY <2>2, <2>4
  <1>. QED  BY <1>3, <1>4, ResultsUntouched

(* Every step keeps the results.                                           *)
LEMMA ResultsStep ==
    ASSUME IInv, LastEnded, Len(first_finished_job) <= MaxFinished,
           [Next]_vars
    PROVE  ResultsKept /\ LastKept /\ (MaxFinished >= 2 => Stores)
  <1>0. TypeOK /\ JobsInv
    BY DEF IInv
  <1>1. ASSUME UNCHANGED <<queueVars, last_finished_jobid>>
        PROVE  ResultsKept /\ LastKept /\ Stores
    BY <1>1, ResultsUntouched DEF queueVars, SameResult
  <1>2. ASSUME NEW k, ClientRead(k)
        PROVE  ResultsKept /\ LastKept /\ (MaxFinished >= 2 => Stores)
    <2>1. CASE Newjob(k)
      BY <1>0, <2>1, NewjobResults
    <2>2. CASE NewjobNok(k)
      BY <1>0, <2>2, NewjobNokResults
    <2>3. CASE EndJob(k)
      <3>1. Head(to_server[client_cs[k].socket]) \in ClientMsg
        BY <1>0, <2>3, TurnType DEF EndJob, Serve
      <3>2. PICK q \in DOMAIN firstjob, e \in Int, st \in Done :
              JobFinished(q, e, st)
        BY <2>3, <3>1 DEF EndJob, ClientMsg, InQueue, Done
      <3>. QED  BY <1>0, <3>2, JobFinishedResults
    <2>4. CASE JobClientDisappeared(k)
      <3>1. PICK q \in DOMAIN firstjob : JobFinished(q, -1, "FINISHED")
        BY <2>4 DEF JobClientDisappeared, InQueue
      <3>2. -1 \in Int /\ "FINISHED" \in Done
        BY DEF Done
      <3>. QED  BY <1>0, <3>1, <3>2, JobFinishedResults
    <2>5. CASE RemoveQueued(k)
      BY <1>0, <2>5, RemoveQueuedResults
    <2>6. CASE RemoveFinished(k)
      BY <1>0, <2>6, RemoveFinishedResults
    <2>7. CASE MoveUrgent(k) \/ SwapJobs(k)
      <3>1. Range(firstjob') = Range(firstjob)
        <4>1. Quiet /\ JobsInv'
          BY <1>0, <2>7, MoveUrgentStep, SwapJobsStep
        <4>2. \A x \in JobIds : x \in Range(firstjob') <=> x \in Range(firstjob)
          BY <1>0, <4>1
             DEF JobsInv, QueueConsistent, Consistent, Quiet, SameJob
        <4>3. Range(firstjob) \subseteq JobIds /\ Range(firstjob') \subseteq JobIds
          BY <1>0, <4>1, RangeOfSeq DEF JobsInv, JobsTypeOK
        <4>. QED  BY <4>2, <4>3
      <3>2. UNCHANGED <<first_finished_job, last_finished_jobid, job>>
        BY <2>7 DEF MoveUrgent, SwapJobs, resultVars
      <3>. QED  BY <3>1, <3>2, ResultsUntouched DEF SameResult
    <2>8. CASE ClearFinished(k)
      <3>1. /\ first_finished_job' = <<>>
            /\ UNCHANGED <<firstjob, last_finished_jobid>>
        BY <2>8 DEF ClearFinished, resultVars
      <3>2. Len(<<>>) <= MaxFinished /\ Range(<<>>) = {}
        BY ConstantsAssumption DEF Range
      <3>. QED  BY <3>1, <3>2 DEF ResultsKept, LastKept, Stores
    <2>9. CASE SetMaxSlots(k) \/ WaitQueued(k) \/ ClientDisappeared(k)
      BY <1>1, <2>9 DEF SetMaxSlots, WaitQueued, ClientDisappeared, resultVars
    <2>10. CASE \/ NewjobNokFault(k) \/ GetLogdir(k) \/ RunjobOk(k)
                \/ FinishFault(k) \/ RemoveRefused(k) \/ WaitAnswered(k)
                \/ UrgentRefused(k) \/ UrgentFault(k) \/ SwapRefused(k)
                \/ KillServer(k) \/ List(k) \/ Query(k)
      <3>1. UNCHANGED jobsVars
        BY <2>10 DEF NewjobNokFault, GetLogdir, RunjobOk, FinishFault,
             RemoveRefused, WaitAnswered, UrgentRefused, UrgentFault,
             SwapRefused, KillServer, List, Query, Die
      <3>. QED  BY <1>1, <3>1 DEF jobsVars, resultVars
    <2>. QED  BY <1>2, <2>1, <2>2, <2>3, <2>4, <2>5, <2>6, <2>7, <2>8, <2>9,
                 <2>10 DEF ClientRead
  <1>3. CASE StartJob
    BY <1>0, <1>3, StartJobResults
  <1>4. CASE Select \/ NothingToRun \/ UNCHANGED vars
    BY <1>1, <1>4 DEF Select, NothingToRun, vars, jobsVars, resultVars
  <1>5. ASSUME NEW c \in Clients,
               \/ ClientProcess(c) \/ Killed(c)
               \/ \E cmd \in CommandLines : Connect(c, cmd)
        PROVE  ResultsKept /\ LastKept /\ Stores
    BY <1>1, <1>5, ClientsLeaveTables DEF jobsVars, resultVars
  <1>. QED  BY <1>2, <1>3, <1>4, <1>5, ConstantsAssumption
            DEF Next, ServerLoop

(* The results invariant.                                                  *)
LEMMA NextResultsInv ==
    ASSUME IInv, IInv', ResultsInv, [Next]_vars
    PROVE  ResultsInv' /\ (MaxFinished >= 2 => Stores)
  <1>1. /\ JobsInv /\ JobsInv' /\ Effect
        /\ JobsTypeOK /\ QueueConsistent /\ JobsTypeOK' /\ QueueConsistent'
    BY JobsNext DEF IInv, JobsInv
  <1>2. ResultsKept /\ LastKept /\ (MaxFinished >= 2 => Stores)
    BY ResultsStep DEF ResultsInv, ResultsBounded
  <1>3. \A x \in Range(first_finished_job) :
          /\ x \in JobIds /\ job[x].state \notin Live /\ ~(x >= jobids)
          /\ outcome'[x] = outcome[x]
    <2>1. \A x \in Range(first_finished_job) :
            x \in JobIds /\ job[x].state \notin Live /\ ~(x >= jobids)
      BY <1>1, ListedJobs DEF Live, Done
    <2>2. outcome \in [JobIds -> SUBSET Int]
      BY <1>1 DEF JobsTypeOK
    <2>3. CASE UNCHANGED outcome
      BY <2>1, <2>3
    <2>4. CASE \E j \in JobIds : Ends(j)
      BY <2>1, <2>2, <2>4 DEF Ends
    <2>5. CASE Rejects
      BY <1>1, <2>1, <2>2, <2>5, NewIdUnused DEF Rejects
    <2>. QED  BY <1>1, <2>1, <2>3, <2>4, <2>5
              DEF Effect, ServedEffect, Quiet, Submits, Starts
  <1>4. ResultsBounded' /\ Recorded'
    <2>1. ASSUME NEW x \in Range(first_finished_job')
          PROVE  job'[x].should_keep_finished /\ outcome'[x] = {job'[x].errorlevel}
      <3>1. CASE x \in Range(first_finished_job) /\ SameResult(job'[x], job[x])
        BY <1>3, <3>1 DEF ResultsInv, ResultsBounded, Recorded, SameResult
      <3>. QED  BY <1>2, <2>1, <3>1 DEF ResultsKept
    <2>. QED  BY <1>2, <2>1 DEF ResultsKept, ResultsBounded, Recorded
  <1>5. LastEnded'
    <2>1. \A x \in JobIds : /\ x \in Range(firstjob) <=> job[x].state \in Live
                            /\ x \in Range(firstjob') <=> job'[x].state \in Live
                            /\ x >= jobids => job[x].state \notin Live
      BY <1>1 DEF QueueConsistent, Consistent, Live
    <2>2. /\ Range(firstjob') \subseteq JobIds
          /\ jobids \in Nat /\ \A x \in JobIds : x \in Int
      BY <1>1, RangeOfSeq, IdsInRange DEF JobsTypeOK
    <2>3. CASE UNCHANGED last_finished_jobid
      <3>1. jobids' = jobids \/ (jobids' = jobids + 1 /\ jobids \in JobIds)
        BY <1>1 DEF Effect, ServedEffect, Quiet, Ends, Submits, Rejects, Starts
      <3>2. last_finished_jobid = 0 \/ ~(last_finished_jobid >= jobids')
        BY <1>1, <2>2, <3>1 DEF ResultsInv, LastEnded, JobsTypeOK
      <3>3. ASSUME last_finished_jobid \in Range(firstjob')
            PROVE  last_finished_jobid = 0
        <4>1. PICK x \in JobIds : /\ x = last_finished_jobid
                                  /\ job'[x].state \in Live
          BY <2>1, <2>2, <3>3
        <4>2. job[x].state \in Live \/ x = jobids
          <5>1. CASE SameJob(x) \/ x = jobids
            BY <4>1, <5>1 DEF SameJob
          <5>2. ASSUME NEW j \in JobIds, Ends(j) \/ Starts(j), x = j
                PROVE  job[x].state \in Live
            BY <5>2 DEF Ends, Starts, Live
          <5>. QED  BY <1>1, <5>1, <5>2
               DEF Effect, ServedEffect, Quiet, Ends, Submits, Rejects, Starts
        <4>. QED  BY <2>1, <2>2, <4>1, <4>2 DEF ResultsInv, LastEnded
      <3>. QED  BY <2>3, <3>2, <3>3 DEF LastEnded
    <2>4. ASSUME NEW j \in JobIds, Ends(j), last_finished_jobid' = j
          PROVE  LastEnded'
      BY <2>1, <2>2, <2>4 DEF Ends, LastEnded
    <2>5. CASE Rejects /\ last_finished_jobid' = jobids
      BY <2>1, <2>2, <2>5 DEF Rejects, LastEnded
    <2>. QED  BY <1>2, <2>3, <2>4, <2>5 DEF LastKept
  <1>. QED  BY <1>2, <1>4, <1>5 DEF ResultsInv

(* No results are stored at the start.                                     *)
LEMMA InitResultsInv == Init => ResultsInv
  <1>1. Range(<<>>) = {} /\ Len(<<>>) <= MaxFinished
    BY ConstantsAssumption DEF Range
  <1>. QED  BY <1>1 DEF Init, ResultsInv, ResultsBounded, Recorded, LastEnded

(* What is stored is what happened, at all times.                          *)
LEMMA ResultsHold == Spec => []ResultsInv
  BY InitResultsInv, NextResultsInv, InvariantHolds, PTL DEF Spec

(* The list of results never exceeds TS_MAXFINISHED, whatever that limit   *)
(* is and although a job with -nf that somebody waits for passes through   *)
(* the list; and only results that are to be kept stay in it.              *)
THEOREM ResultsAreBounded == Spec => []ResultsBounded
  <1>1. ResultsInv => ResultsBounded
    BY DEF ResultsInv
  <1>. QED  BY <1>1, ResultsHold, PTL

(* From a limit of 2 on, a job that ends and whose result is to be kept    *)
(* is in the list of results right after it has ended.  With the limits 0  *)
(* and 1 new_finished_job loses it: the first job of the list is freed     *)
(* and the new one hung on it.                                             *)
THEOREM ResultsAreStored ==
    ASSUME MaxFinished >= 2
    PROVE  Spec => ResultStored
  <1>1. IInv /\ IInv' /\ ResultsInv /\ [Next]_vars => [Stores]_vars
    BY NextResultsInv
  <1>2. Stores => (\A j \in JobIds :
         /\ job[j].state \in Live /\ job[j].should_keep_finished
         /\ j \in Range(firstjob) /\ j \notin Range(firstjob')
         /\ last_finished_jobid' = j
         => j \in Range(first_finished_job'))
    BY DEF Stores
  <1>. QED  BY <1>1, <1>2, ResultsHold, InvariantHolds, PTL
            DEF Spec, ResultStored

-----------------------------------------------------------------------------
(* What waiters are told.                                                  *)

(* A waiter is on the notify list for the job it has asked about.          *)
WaitersAsked ==
    \A n \in first_notify :
        command[n.socket].jobid \in JobIds =>
          n.jobid = command[n.socket].jobid

(* The client waits for a job that it has named.                           *)
Asks(c) ==
    /\ pc[c] = "wait_answer"
    /\ command[c].request = "WAITJOB"
    /\ command[c].jobid \in JobIds

(* A message for client c is right after a step.                           *)
Right(c, m) == m.type = "WAITJOB_OK" => outcome'[command[c].jobid] = {m.val}

(* A step that changes no result that was recorded.                        *)
OutcomesStay == \A j \in JobIds : outcome[j] # {} => outcome'[j] = outcome[j]

(* A step after which whoever waits was waiting for the same.              *)
NobodyNewWaits ==
    \A c \in Clients : pc'[c] = "wait_answer" =>
                         pc[c] = "wait_answer" /\ command'[c] = command[c]

(* A result is recorded once.                                              *)
LEMMA OutcomeStays ==
    ASSUME JobsInv, NoResultYet, Effect
    PROVE  OutcomesStay
  <1>1. outcome \in [JobIds -> SUBSET Int] /\ jobids \in Nat
    BY IdsInRange DEF JobsInv, JobsTypeOK
  <1>2. CASE \E j \in JobIds : Ends(j)
    BY <1>1, <1>2 DEF Ends, NoResultYet, OutcomesStay
  <1>3. CASE Rejects
    BY <1>1, <1>3 DEF Rejects, NoResultYet, OutcomesStay
  <1>. QED  BY <1>2, <1>3
            DEF Effect, ServedEffect, Quiet, Submits, Starts, OutcomesStay

(* The messages of a step are added to what is on the way.                 *)
LEMMA ServerTells ==
    ASSUME TypeOK, WaiterGetsResult, OutcomesStay, NobodyNewWaits,
           NEW out, SendMsg(out),
           \A c \in DOMAIN out : out[c] \in ServerMsg,
           \A c \in DOMAIN out : c \in Clients /\ Asks(c) => Right(c, out[c])
    PROVE  WaiterGetsResult'
  <1>1. ASSUME NEW c \in Clients, Asks(c)', NEW n \in DOMAIN to_client'[c],
               to_client'[c][n].type = "WAITJOB_OK"
        PROVE  outcome'[command'[c].jobid] = {to_client'[c][n].val}
    <2>1. Asks(c) /\ command'[c] = command[c] /\ command[c].jobid \in JobIds
      BY <1>1 DEF Asks, NobodyNewWaits
    <2>2. PICK tc : tc = to_client[c]
      OBVIOUS
    <2>3. tc \in Seq(ServerMsg)
      BY <2>2 DEF TypeOK, SocketsTypeOK
    <2>4. \A m \in DOMAIN tc : Right(c, tc[m])
      BY <2>1, <2>2 DEF WaiterGetsResult, Asks, OutcomesStay, Right
    <2>5. CASE to_client'[c] = tc
      BY <1>1, <2>1, <2>4, <2>5 DEF Right
    <2>6. CASE c \in DOMAIN out /\ to_client'[c] = Append(tc, out[c])
      <3>1. PICK m : m = out[c] /\ m \in ServerMsg /\ Right(c, m)
        BY <2>1, <2>6
      <3>2. \/ n \in DOMAIN tc /\ to_client'[c][n] = tc[n]
            \/ to_client'[c][n] = m
        <4>1. to_client'[c] = Append(tc, m)
          BY <2>6, <3>1
        <4>. QED  BY <1>1, <2>3, <3>1, <4>1, AppendProperties, LenProperties
      <3>. QED  BY <1>1, <2>1, <2>4, <3>1, <3>2 DEF Right
    <2>. QED  BY <2>2, <2>5, <2>6 DEF SendMsg
  <1>. QED  BY <1>1 DEF WaiterGetsResult, Asks

(* client_read makes nobody wait.                                          *)
LEMMA ServedWaits ==
    ASSUME NEW k, NEW out, NEW S, Served(k, out, S)
    PROVE  /\ NobodyNewWaits /\ SendMsg(out)
           /\ \A c \in Clients : command'[c] \in {command[c], NoCommand}
  BY DEF Served, CloseSockets, NobodyNewWaits

(* Most answers are not about the end of a job.                            *)
OtherAnswer(out) ==
    \/ out = Nothing
    \/ \E c : \E type \in {"NEWJOB_OK", "NEWJOB_NOK", "LOGDIR", "ANSWER",
                           "LIST_LINE"} : out = To(c, Reply(type, 0))

(* Such an answer cannot be wrong about a result.                          *)
LEMMA OtherAnswerRight ==
    ASSUME NEW out, OtherAnswer(out), NEW c \in DOMAIN out
    PROVE  out[c] \in ServerMsg /\ Right(c, out[c])
  <1>1. CASE out = Nothing
    BY <1>1 DEF Nothing
  <1>2. ASSUME NEW d,
               NEW type \in {"NEWJOB_OK", "NEWJOB_NOK", "LOGDIR", "ANSWER",
                             "LIST_LINE"},
               out = To(d, Reply(type, 0))
        PROVE  out[c] \in ServerMsg /\ Right(c, out[c])
    <2>1. PICK m : m = Reply(type, 0)
      OBVIOUS
    <2>2. m \in ServerMsg /\ m.type = type
      BY <2>1, ReplyType DEF Reply
    <2>3. out[c] = m
      BY <1>2, <2>1 DEF To
    <2>. QED  BY <2>2, <2>3 DEF Right
  <1>. QED  BY <1>1, <1>2 DEF OtherAnswer

(* The handlers that answer so.                                            *)
LEMMA OtherAnswers ==
    ASSUME NEW k,
           \/ Newjob(k) \/ NewjobNok(k) \/ GetLogdir(k) \/ RunjobOk(k)
           \/ ClientDisappeared(k) \/ RemoveQueued(k) \/ RemoveFinished(k)
           \/ RemoveRefused(k) \/ WaitQueued(k) \/ MoveUrgent(k)
           \/ UrgentRefused(k) \/ SwapJobs(k) \/ SwapRefused(k)
           \/ ClearFinished(k) \/ SetMaxSlots(k) \/ KillServer(k)
           \/ List(k) \/ Query(k)
    PROVE  \E out, S : Served(k, out, S) /\ OtherAnswer(out)
  BY DEF Newjob, NewjobNok, GetLogdir, RunjobOk, ClientDisappeared,
         RemoveQueued, RemoveFinished, RemoveRefused, WaitQueued, MoveUrgent,
         UrgentRefused, SwapJobs, SwapRefused, ClearFinished, SetMaxSlots,
         KillServer, List, Query, OtherAnswer

(* s_wait_job tells the result that is stored.                             *)
LEMMA WaitAnsweredRight ==
    ASSUME TypeOK, JobsInv, Recorded, NEW k, WaitAnswered(k)
    PROVE  \E out : /\ Served(k, out, {})
                    /\ \A c \in DOMAIN out :
                         out[c] \in ServerMsg /\ (Asks(c) => Right(c, out[c]))
  <1>1. UNCHANGED outcome
    BY DEF WaitAnswered, jobsVars, queueVars
  <1>2. PICK s : s = client_cs[k].socket
    OBVIOUS
  <1>3. ASSUME NEW q \in Named(first_finished_job, command[s].jobid),
               Served(k, To(s, Reply("WAITJOB_OK",
                             job[first_finished_job[q]].errorlevel)), {})
        PROVE  \E out : /\ Served(k, out, {})
                        /\ \A c \in DOMAIN out :
                             out[c] \in ServerMsg /\ (Asks(c) => Right(c, out[c]))
    <2>1. PICK x : x = first_finished_job[q]
      OBVIOUS
    <2>2. q \in DOMAIN first_finished_job
      BY LenProperties DEF JobsInv, JobsTypeOK, Named
    <2>3. x \in Range(first_finished_job) /\ x \in JobIds
      BY <2>1, <2>2, LenProperties DEF Range, JobsInv, JobsTypeOK
    <2>4. PICK v : v = job[x].errorlevel
      OBVIOUS
    <2>5. v \in Int /\ outcome[x] = {v}
      BY <2>3, <2>4 DEF JobsInv, JobsTypeOK, Job, Recorded
    <2>6. Asks(s) => command[s].jobid = x
      BY <2>1 DEF Asks, Named, JobIds
    <2>7. PICK m : m = Reply("WAITJOB_OK", v)
      OBVIOUS
    <2>8. m \in ServerMsg /\ m.val = v
      BY <2>5, <2>7, ReplyType DEF Reply
    <2>9. Asks(s) => Right(s, m)
      BY <1>1, <2>5, <2>6, <2>8 DEF Right
    <2>10. PICK out : out = To(s, m)
      OBVIOUS
    <2>11. \A c \in DOMAIN out : c = s /\ out[c] = m
      BY <2>10 DEF To
    <2>. QED  BY <1>3, <2>1, <2>4, <2>7, <2>8, <2>9, <2>10, <2>11
  <1>4. ASSUME Served(k, To(s, Reply("LIST_LINE", 0)), {})
        PROVE  \E out : /\ Served(k, out, {})
                        /\ \A c \in DOMAIN out :
                             out[c] \in ServerMsg /\ (Asks(c) => Right(c, out[c]))
    <2>1. PICK out : out = To(s, Reply("LIST_LINE", 0))
      OBVIOUS
    <2>2. OtherAnswer(out)
      BY <2>1 DEF OtherAnswer
    <2>. QED  BY <1>4, <2>1, <2>2, OtherAnswerRight
  <1>. QED  BY <1>2, <1>3, <1>4 DEF WaitAnswered

(* check_notify_list tells the waiters of a job how it has ended.          *)
LEMMA WaitjobOkRight ==
    ASSUME JobsTypeOK, WaitersAsked, NEW j \in JobIds, NEW e \in Int,
           outcome' = [outcome EXCEPT ![j] = {e}],
           NEW c \in DOMAIN WaitjobOk(j, e)
    PROVE  /\ WaitjobOk(j, e)[c] \in ServerMsg
           /\ Asks(c) => Right(c, WaitjobOk(j, e)[c])
  <1>1. c \in Waiters(j) /\ [socket |-> c, jobid |-> j] \in first_notify
    BY DEF WaitjobOk, Waiters
  <1>2. Asks(c) => command[c].jobid = j
    BY <1>1 DEF Asks, WaitersAsked
  <1>3. PICK m : m = Reply("WAITJOB_OK", e)
    OBVIOUS
  <1>4. m \in ServerMsg /\ m.val = e
    BY <1>3, ReplyType DEF Reply
  <1>5. WaitjobOk(j, e)[c] = m
    BY <1>1, <1>3 DEF WaitjobOk
  <1>6. outcome'[j] = {e}
    BY DEF JobsTypeOK
  <1>. QED  BY <1>2, <1>4, <1>5, <1>6 DEF Right

(* The end of a job, reported or found out.                                *)
LEMMA EndedRight ==
    ASSUME TypeOK, JobsInv, WaitersAsked, NEW k,
           EndJob(k) \/ JobClientDisappeared(k)
    PROVE  \E out, S : /\ Served(k, out, S)
                       /\ \A c \in DOMAIN out :
                            /\ out[c] \in ServerMsg
                            /\ Asks(c) => Right(c, out[c])
  <1>1. JobsTypeOK
    BY DEF JobsInv
  <1>2. PICK j : j = client_cs[k].jobid
    OBVIOUS
  <1>3. PICK e \in Int :
          /\ \E S : Served(k, WaitjobOk(j, e), S)
          /\ InQueue(j) # {}
          /\ outcome' = [outcome EXCEPT ![j] = {e}]
    <2>1. CASE EndJob(k)
      <3>1. Head(to_server[client_cs[k].socket]) \in ClientMsg
        BY <2>1, TurnType DEF EndJob, Serve
      <3>2. PICK e : e = Head(to_server[client_cs[k].socket]).errorlevel
        OBVIOUS
      <3>3. e \in Int
        BY <3>1, <3>2 DEF ClientMsg
      <3>4. Served(k, WaitjobOk(j, e), {})
        BY <1>2, <2>1, <3>2 DEF EndJob
      <3>5. /\ InQueue(j) # {}
            /\ outcome' = [outcome EXCEPT ![j] = {e}]
        BY <1>2, <2>1, <3>2 DEF EndJob, JobFinished, InQueue
      <3>. QED  BY <3>3, <3>4, <3>5
    <2>2. CASE JobClientDisappeared(k)
      <3>1. Served(k, WaitjobOk(j, -1), {client_cs[k].socket})
        BY <1>2, <2>2 DEF JobClientDisappeared
      <3>2. /\ InQueue(j) # {}
            /\ outcome' = [outcome EXCEPT ![j] = {-1}]
        BY <1>2, <2>2 DEF JobClientDisappeared, JobFinished, InQueue
      <3>3. -1 \in Int
        OBVIOUS
      <3>. QED  BY <3>1, <3>2, <3>3
    <2>. QED  BY <2>1, <2>2
  <1>4. j \in JobIds
    BY <1>1, <1>3, LenProperties DEF InQueue, JobsTypeOK
  <1>. QED  BY <1>1, <1>3, <1>4, WaitjobOkRight

(* Nobody else is added to the notify list than by s_wait_job.             *)
LEMMA WaitersOnlyLeave ==
    ASSUME NEW k, ClientRead(k), ~WaitQueued(k)
    PROVE  first_notify' \subseteq first_notify
  BY DEF ClientRead, Newjob, NewjobNok, NewjobNokFault, GetLogdir, RunjobOk,
         EndJob, JobClientDisappeared, JobFinished, ClientDisappeared,
         FinishFault, RemoveQueued, RemoveFinished, RemoveRefused,
         WaitAnswered, MoveUrgent, UrgentRefused, UrgentFault, SwapJobs,
         SwapRefused, ClearFinished, SetMaxSlots, KillServer, List, Query,
         Die, jobsVars

(* A message served, or the end of a stream.                               *)
LEMMA ClientReadTells ==
    ASSUME IInv, Recorded, WaitersAsked, OutcomesStay, WaiterGetsResult,
           NEW k, ClientRead(k)
    PROVE  WaitersAsked' /\ WaiterGetsResult'
  <1>0. TypeOK /\ JobsInv /\ JobsTypeOK
    BY DEF IInv, JobsInv
  <1>1. CASE NewjobNokFault(k) \/ FinishFault(k) \/ UrgentFault(k)
    <2>1. UNCHANGED <<first_notify, outcome, to_client, pc, command>>
      BY <1>1 DEF NewjobNokFault, FinishFault, UrgentFault, Die, jobsVars,
                  queueVars, socketVars
    <2>. QED  BY <2>1 DEF WaitersAsked, WaiterGetsResult
  <1>2. CASE ~(NewjobNokFault(k) \/ FinishFault(k) \/ UrgentFault(k))
    <2>1. PICK out, S : /\ Served(k, out, S)
                        /\ \A c \in DOMAIN out :
                             /\ out[c] \in ServerMsg
                             /\ Asks(c) => Right(c, out[c])
      <3>1. CASE WaitAnswered(k)
        BY <1>0, <3>1, WaitAnsweredRight
      <3>2. CASE EndJob(k) \/ JobClientDisappeared(k)
        BY <1>0, <3>2, EndedRight
      <3>3. CASE ~(WaitAnswered(k) \/ EndJob(k) \/ JobClientDisappeared(k))
        <4>1. PICK out, S : Served(k, out, S) /\ OtherAnswer(out)
          BY <1>2, <3>3, OtherAnswers DEF ClientRead
        <4>. QED  BY <4>1, OtherAnswerRight
      <3>. QED  BY <3>1, <3>2, <3>3
    <2>2. /\ NobodyNewWaits /\ SendMsg(out)
          /\ \A c \in Clients : command'[c] \in {command[c], NoCommand}
      BY <2>1, ServedWaits
    <2>3. WaiterGetsResult'
      BY <1>0, <2>1, <2>2, ServerTells
    <2>4. \A n \in first_notify : n.socket \in Clients
      BY <1>0 DEF JobsTypeOK, Notify
    <2>5. ASSUME NEW n \in first_notify, command'[n.socket].jobid \in JobIds
          PROVE  n.jobid = command'[n.socket].jobid
      <3>1. NoCommand.jobid \notin JobIds
        BY DEF NoCommand, JobIds
      <3>. QED  BY <2>2, <2>4, <2>5, <3>1 DEF WaitersAsked
    <2>6. CASE WaitQueued(k)
      <3>1. PICK s, q : /\ s = client_cs[k].socket
                        /\ q \in Named(firstjob, command[s].jobid)
                        /\ first_notify' = first_notify \cup
                             {[socket |-> s, jobid |-> firstjob[q]]}
                        /\ Served(k, Nothing, {})
        BY <2>6 DEF WaitQueued
      <3>2. s \in Clients
        BY <1>0, <2>6, <3>1, TurnType DEF WaitQueued, Serve
      <3>3. command'[s] = command[s]
        BY <3>1, <3>2 DEF Served, CloseSockets
      <3>4. command[s].jobid \in JobIds => firstjob[q] = command[s].jobid
        BY <3>1 DEF Named, JobIds
      <3>5. ASSUME NEW n \in first_notify', n \notin first_notify
            PROVE  n.socket = s /\ n.jobid = firstjob[q]
        BY <3>1, <3>5
      <3>6. ASSUME NEW n \in first_notify', command'[n.socket].jobid \in JobIds
            PROVE  n.jobid = command'[n.socket].jobid
        <4>1. CASE n \in first_notify
          BY <2>5, <3>6, <4>1
        <4>2. CASE n \notin first_notify
          BY <3>3, <3>4, <3>5, <3>6, <4>2
        <4>. QED  BY <4>1, <4>2
      <3>. QED  BY <2>3, <3>6 DEF WaitersAsked
    <2>7. CASE ~WaitQueued(k)
      <3>1. first_notify' \subseteq first_notify
        BY <2>7, WaitersOnlyLeave
      <3>2. ASSUME NEW n \in first_notify', command'[n.socket].jobid \in JobIds
            PROVE  n.jobid = command'[n.socket].jobid
        BY <2>5, <3>1, <3>2
      <3>. QED  BY <2>3, <3>2 DEF WaitersAsked
    <2>. QED  BY <2>3, <2>6, <2>7
  <1>. QED  BY <1>1, <1>2

(* The round begins and ends.                                              *)
LEMMA RoundTells ==
    ASSUME IInv, WaitersAsked, OutcomesStay, WaiterGetsResult,
           Select \/ StartJob \/ NothingToRun
    PROVE  WaitersAsked' /\ WaiterGetsResult'
  <1>0. TypeOK
    BY DEF IInv
  <1>1. UNCHANGED <<first_notify, pc, command>>
    BY DEF Select, StartJob, NothingToRun, LoopAgain, jobsVars
  <1>2. WaitersAsked'
    BY <1>1 DEF WaitersAsked
  <1>3. CASE Select \/ NothingToRun
    <2>1. UNCHANGED <<to_client, outcome>>
      BY <1>3 DEF Select, NothingToRun, jobsVars, queueVars
    <2>. QED  BY <1>1, <1>2, <2>1 DEF WaiterGetsResult
  <1>4. CASE StartJob
    <2>1. PICK out : /\ SendMsg(out)
                     /\ \A c \in DOMAIN out :
                          \/ out[c] = Reply("NEWJOB_OK", 0)
                          \/ \E x \in JobIds : out[c] =
                               Reply("RUNJOB", job[x].dependency_errorlevel)
      <3>0. PICK q \in NextRunJob : \E n \in ConnOf(firstjob[q]) :
              SendMsg([c \in HeldClients \cup {client_cs[n].socket} |->
                   IF c = client_cs[n].socket
                   THEN Reply("RUNJOB", job[firstjob[q]].dependency_errorlevel)
                   ELSE Reply("NEWJOB_OK", 0)])
        BY <1>4 DEF StartJob
      <3>1. PICK j, s :
              /\ j = firstjob[q]
              /\ SendMsg([c \in HeldClients \cup {s} |->
                   IF c = s
                   THEN Reply("RUNJOB", job[j].dependency_errorlevel)
                   ELSE Reply("NEWJOB_OK", 0)])
        BY <3>0
      <3>2. j \in JobIds
        BY <3>1, LenProperties DEF NextRunJob, IInv, JobsInv, JobsTypeOK
      <3>3. PICK out :
              out = [c \in HeldClients \cup {s} |->
                       IF c = s
                       THEN Reply("RUNJOB", job[j].dependency_errorlevel)
                       ELSE Reply("NEWJOB_OK", 0)]
        OBVIOUS
      <3>4. \A c \in DOMAIN out :
              \/ out[c] = Reply("NEWJOB_OK", 0)
              \/ out[c] = Reply("RUNJOB", job[j].dependency_errorlevel)
        BY <3>3
      <3>. QED  BY <3>1, <3>2, <3>3, <3>4
    <2>2. ASSUME NEW c \in DOMAIN out
          PROVE  out[c] \in ServerMsg /\ Right(c, out[c])
      <3>1. CASE out[c] = Reply("NEWJOB_OK", 0)
        <4>1. PICK m : m = Reply("NEWJOB_OK", 0)
          OBVIOUS
        <4>2. m \in ServerMsg /\ m.type = "NEWJOB_OK"
          BY <4>1, ReplyType DEF Reply
        <4>. QED  BY <3>1, <4>1, <4>2 DEF Right
      <3>2. ASSUME NEW x \in JobIds,
                   out[c] = Reply("RUNJOB", job[x].dependency_errorlevel)
            PROVE  out[c] \in ServerMsg /\ Right(c, out[c])
        <4>1. PICK v : v = job[x].dependency_errorlevel
          OBVIOUS
        <4>2. v \in Int
          <5>1. job[x] \in Job
            BY DEF IInv, JobsInv, JobsTypeOK
          <5>2. job[x].dependency_errorlevel \in {0, 1}
            BY <5>1 DEF Job
          <5>. QED  BY <4>1, <5>2
        <4>3. PICK m : m = Reply("RUNJOB", v)
          OBVIOUS
        <4>4. m \in ServerMsg /\ m.type = "RUNJOB"
          BY <4>2, <4>3, ReplyType DEF Reply
        <4>. QED  BY <3>2, <4>1, <4>3, <4>4 DEF Right
      <3>. QED  BY <2>1, <3>1, <3>2
    <2>3. NobodyNewWaits
      BY <1>1 DEF NobodyNewWaits
    <2>4. WaiterGetsResult'
      BY <1>0, <2>1, <2>2, <2>3, ServerTells
    <2>. QED  BY <1>2, <2>4
  <1>. QED  BY <1>3, <1>4

(* A step of a client: it connects anew, leaves or reads what it was told. *)
LEMMA ClientTold ==
    ASSUME TypeOK, NEW c \in Clients,
           \/ ClientProcess(c) \/ Killed(c)
           \/ \E cmd \in CommandLines : Connect(c, cmd)
    PROVE  /\ pc'[c] = "wait_answer" => to_client'[c] = <<>>
           /\ \/ command'[c] \in {command[c], NoCommand}
              \/ server = "up" /\ pc[c] = "idle"
  <1>1. CASE \E cmd \in CommandLines : Connect(c, cmd)
    BY <1>1 DEF TypeOK, SocketsTypeOK, Connect
  <1>2. CASE WaitNewjobOk(c) \/ Runjob(c) \/ RunjobSkip(c) \/ RunChild(c)
    BY <1>2 DEF TypeOK, SocketsTypeOK, WaitNewjobOk, Runjob, RunjobSkip,
                RunChild, Receive
  <1>3. CASE \/ NewjobRejected(c) \/ ReceiveAnswer(c) \/ EndOfJob(c)
             \/ EndOfSkippedJob(c) \/ ConnectionClosed(c) \/ Killed(c)
    <2>1. Exit(c)
      BY <1>3 DEF NewjobRejected, ReceiveAnswer, EndOfJob, EndOfSkippedJob,
         ConnectionClosed, Killed
    <2>. QED  BY <2>1 DEF TypeOK, SocketsTypeOK, Exit
  <1>. QED  BY <1>1, <1>2, <1>3 DEF ClientProcess

(* The steps of the clients.                                               *)
LEMMA ClientTells ==
    ASSUME IInv, PInv, WaitersAsked, WaiterGetsResult, NEW c \in Clients,
           \/ ClientProcess(c) \/ Killed(c)
           \/ \E cmd \in CommandLines : Connect(c, cmd)
    PROVE  WaitersAsked' /\ WaiterGetsResult'
  <1>0. TypeOK /\ JobsTypeOK
    BY DEF IInv, JobsInv
  <1>1. UNCHANGED <<first_notify, outcome>>
    BY ClientsLeaveTables DEF jobsVars, queueVars
  <1>2. /\ pc'[c] = "wait_answer" => to_client'[c] = <<>>
        /\ \/ command'[c] \in {command[c], NoCommand}
           \/ server = "up" /\ pc[c] = "idle"
    BY <1>0, ClientTold
  <1>3. \A d \in Clients \ {c} :
          /\ pc'[d] = pc[d] /\ command'[d] = command[d]
          /\ to_client'[d] = to_client[d]
    BY <1>0, OtherClients
  <1>4. WaiterGetsResult'
    <2>1. DOMAIN <<>> = {}
      OBVIOUS
    <2>2. ASSUME NEW d \in Clients, Asks(d)', NEW n \in DOMAIN to_client'[d],
                 to_client'[d][n].type = "WAITJOB_OK"
          PROVE  outcome'[command'[d].jobid] = {to_client'[d][n].val}
      BY <1>1, <1>2, <1>3, <2>1, <2>2 DEF WaiterGetsResult, Asks
    <2>. QED  BY <2>2 DEF WaiterGetsResult, Asks
  <1>5. WaitersAsked'
    <2>1. NoCommand.jobid \notin JobIds
      BY DEF NoCommand, JobIds
    <2>2. ASSUME NEW n \in first_notify, command'[n.socket].jobid \in JobIds
          PROVE  n.jobid = command'[n.socket].jobid
      <3>1. n.socket \in Clients
        BY <1>0 DEF JobsTypeOK, Notify
      <3>2. CASE n.socket # c
        BY <1>3, <2>2, <3>1, <3>2 DEF WaitersAsked
      <3>3. CASE n.socket = c /\ command'[c] \in {command[c], NoCommand}
        BY <2>1, <2>2, <3>3 DEF WaitersAsked
      <3>4. CASE n.socket = c /\ server = "up" /\ pc[c] = "idle"
        <4>1. PICK x \in Conns : x.socket = c /\ ~x.hasjob
          BY <3>4 DEF PInv, Protocol, WaitersFree
        <4>2. Link(x)
          BY <3>4 DEF PInv, Protocol, Linked
        <4>. QED  BY <3>4, <4>1, <4>2 DEF Link, FreeLink
      <3>. QED  BY <1>2, <3>2, <3>3, <3>4
    <2>. QED  BY <1>1, <2>2 DEF WaitersAsked
  <1>. QED  BY <1>4, <1>5

(* Every step keeps what waiters are told right.                           *)
LEMMA NextTells ==
    ASSUME IInv, PInv, NoResultYet, ResultsInv, WaitersAsked,
           WaiterGetsResult, [Next]_vars
    PROVE  WaitersAsked' /\ WaiterGetsResult'
  <1>1. OutcomesStay
    BY JobsNext, OutcomeStays DEF IInv
  <1>2. CASE ServerLoop
    BY <1>1, <1>2, ClientReadTells, RoundTells DEF ServerLoop, ResultsInv
  <1>3. CASE UNCHANGED vars
    BY <1>3 DEF vars, jobsVars, queueVars, socketVars, WaitersAsked,
                WaiterGetsResult
  <1>. QED  BY <1>2, <1>3, ClientTells, ConstantsAssumption DEF Next

(* Nobody waits at the start.                                              *)
LEMMA InitTells == Init => WaitersAsked /\ WaiterGetsResult
  BY DEF Init, WaitersAsked, WaiterGetsResult

(* No job that has not ended has a result.                                 *)
LEMMA ResultsComeOnce == Spec => []NoResultYet
  <1>1. Init => NoResultYet
    BY LifecycleInit
  <1>2. IInv /\ IInv' /\ NoResultYet /\ [Next]_vars => NoResultYet'
    BY LifecycleNext
  <1>. QED  BY <1>1, <1>2, InvariantHolds, PTL DEF Spec

(* Whoever waits for a job that it has named is told the one result that   *)
(* was recorded of it, whichever way the answer comes: from the list of    *)
(* results, if the job has ended, or from check_notify_list when it ends,  *)
(* by ENDJOB or with its client.                                           *)
THEOREM WaitersGetResults == Spec => []WaiterGetsResult
  <1>1. IInv /\ PInv /\ NoResultYet /\ ResultsInv /\ WaitersAsked
          /\ WaiterGetsResult /\ [Next]_vars => WaitersAsked' /\ WaiterGetsResult'
    BY NextTells
  <1>. QED  BY <1>1, InitTells, ResultsComeOnce, ResultsHold, ProtocolHolds, PTL
            DEF Spec

-----------------------------------------------------------------------------
(* Nobody waits in vain, for any number of clients and jobs: the server    *)
(* never sleeps beside a job that it could start, and it never forgets a   *)
(* client that waits for a job.  And nobody is early: a job starts after   *)
(* the jobs that it depends on.                                            *)

(* The server waits in select although some job could be started.          *)
Dozes ==
    /\ server = "up" /\ i = 0
    /\ busy_slots < max_slots
    /\ \E q \in DOMAIN firstjob : Runnable(q)

(* PromptStart as an invariant: the client that will wake the server is    *)
(* one that the server listens to.                                         *)
Woken == Dozes => \E c \in Clients : Connected(c) /\ WillTalk(c)

(* next_run_job finds a job if there is one that can run.                  *)
LEMMA SomeJobIsNext ==
    ASSUME JobsTypeOK, busy_slots < max_slots,
           NEW p \in DOMAIN firstjob, Runnable(p)
    PROVE  NextRunJob # {}
  <1> DEFINE T == {q \in DOMAIN firstjob : Runnable(q)}
  <1>1. DOMAIN firstjob \subseteq Nat
    BY LenProperties DEF JobsTypeOK
  <1>2. T \subseteq Nat /\ T # {}
    BY <1>1
  <1>3. \A q : q \in T <=> q \in DOMAIN firstjob /\ Runnable(q)
    OBVIOUS
  <1> HIDE DEF T
  <1>4. PICK m \in T : \A n \in T : m <= n
    BY <1>2, LeastOf
  <1>5. ASSUME NEW r \in DOMAIN firstjob, r < m
        PROVE  ~Runnable(r)
    <2>1. r \in Nat /\ m \in Nat /\ ~(m <= r)
      BY <1>1, <1>2, <1>5
    <2>. QED  BY <1>3, <1>4, <2>1
  <1>6. max_slots - busy_slots > 0
    BY DEF JobsTypeOK
  <1>7. m \in NextRunJob
    BY <1>3, <1>4, <1>5, <1>6 DEF NextRunJob
  <1>. QED  BY <1>7

(* What is in a stream: the rest, or a message that is behind.             *)
LEMMA ComingBehind ==
    ASSUME NEW S, NEW s \in Seq(S), s # <<>>, NEW n \in DOMAIN s,
           s[n].type # Head(s).type
    PROVE  \E m \in DOMAIN Tail(s) : Tail(s)[m].type = s[n].type
  <1>1. /\ Len(s) \in Nat /\ DOMAIN s = 1 .. Len(s)
        /\ Head(s) = s[1] /\ Tail(s) \in Seq(S) /\ Len(Tail(s)) = Len(s) - 1
        /\ \A m \in 1 .. (Len(s) - 1) : Tail(s)[m] = s[m + 1]
    BY HeadTailProperties, LenProperties
  <1>2. DOMAIN Tail(s) = 1 .. (Len(s) - 1)
    BY <1>1, LenProperties
  <1>3. n - 1 \in 1 .. (Len(s) - 1) /\ (n - 1) + 1 = n
    <2>1. n # 1
      BY <1>1
    <2>. QED  BY <1>1, <2>1
  <1>. QED  BY <1>1, <1>2, <1>3

(* A client of the server's that will wake it still will after a step of   *)
(* its own: only the end of the command is a thing to wait for, and that   *)
(* is no step that takes WillTalk away.                                    *)
LEMMA OwnStepTalks ==
    ASSUME TypeOK, NEW c \in Clients, Connected(c), WillTalk(c),
           ClientProcess(c) \/ Killed(c)
    PROVE  WillTalk(c)'
  <1>1. CASE \/ NewjobRejected(c) \/ ReceiveAnswer(c) \/ EndOfJob(c)
             \/ EndOfSkippedJob(c) \/ ConnectionClosed(c) \/ Killed(c)
    <2>1. Exit(c)
      BY <1>1 DEF NewjobRejected, ReceiveAnswer, EndOfJob, EndOfSkippedJob,
         ConnectionClosed, Killed
    <2>2. pc'[c] = "closed"
      BY <2>1, ExitOfConnected
    <2>. QED  BY <2>2 DEF WillTalk
  <1>2. CASE WaitNewjobOk(c)
    <2>1. /\ to_client[c] \in Seq(ServerMsg) /\ to_client[c] # <<>>
          /\ Head(to_client[c]).type = "NEWJOB_OK"
          /\ to_client'[c] = Tail(to_client[c]) /\ to_server'[c] = to_server[c]
          /\ pc[c] = "wait_newjob_ok"
      BY <1>2 DEF TypeOK, SocketsTypeOK, WaitNewjobOk, Receive
    <2>2. to_server[c] # <<>> \/ Coming(c, "RUNJOB")
      BY <2>1 DEF WillTalk
    <2>3. ASSUME Coming(c, "RUNJOB")
          PROVE  Coming(c, "RUNJOB")'
      <3>1. PICK n \in DOMAIN to_client[c] : to_client[c][n].type = "RUNJOB"
        BY <2>3 DEF Coming
      <3>2. \E m \in DOMAIN Tail(to_client[c]) :
              Tail(to_client[c])[m].type = "RUNJOB"
        BY <2>1, <3>1, ComingBehind
      <3>. QED  BY <2>1, <3>2 DEF Coming
    <2>. QED  BY <2>1, <2>2, <2>3 DEF WillTalk
  <1>3. CASE Runjob(c) \/ RunjobSkip(c)
    <2>1. pc'[c] \in {"wait_logdir", "skipped"}
      BY <1>3 DEF TypeOK, SocketsTypeOK, Runjob, RunjobSkip, Receive
    <2>. QED  BY <2>1 DEF WillTalk
  <1>4. CASE RunChild(c)
    <2>1. PICK m : m = Message("RUNJOB_OK", 0, FALSE)
      OBVIOUS
    <2>2. to_server[c] \in Seq(ClientMsg) /\ to_server'[c] = Append(to_server[c], m)
      BY <1>4, <2>1 DEF TypeOK, SocketsTypeOK, RunChild, SendToServer
    <2>3. to_server'[c] # <<>>
      BY <2>2
    <2>. QED  BY <2>3 DEF WillTalk
  <1>. QED  BY <1>1, <1>2, <1>3, <1>4 DEF ClientProcess

(* A step of a client: whoever was to wake the server still is.            *)
LEMMA ClientTalks ==
    ASSUME TypeOK, server = "up", Woken, NEW c \in Clients,
           \/ ClientProcess(c) \/ Killed(c)
           \/ \E cmd \in CommandLines : Connect(c, cmd)
    PROVE  Woken'
  <1>1. /\ Dozes' => Dozes
        /\ UNCHANGED <<server, client_cs>>
    BY ClientsLeaveTables
       DEF Dozes, Runnable, jobsVars, queueVars
  <1>2. CASE \E cmd \in CommandLines : Connect(c, cmd)
    <2>1. PICK cmd \in CommandLines : Connect(c, cmd)
      BY <1>2
    <2>2. PICK m : m = Message(cmd.request, 0, FALSE)
      OBVIOUS
    <2>3. to_server'[c] = <<m>> /\ backlog' = Append(backlog, c)
      BY <2>1, <2>2 DEF Connect, TypeOK, SocketsTypeOK
    <2>4. WillTalk(c)'
      BY <2>3 DEF WillTalk
    <2>5. c \in Range(backlog')
      <3>1. backlog \in Seq(Clients)
        BY DEF TypeOK, SocketsTypeOK
      <3>. QED  BY <2>3, <3>1 DEF Range
    <2>. QED  BY <1>1, <2>4, <2>5 DEF Woken, Connected
  <1>3. CASE ClientProcess(c) \/ Killed(c)
    <2>1. UNCHANGED backlog
      BY <1>3 DEF ClientProcess, WaitNewjobOk, NewjobRejected, Runjob,
         RunjobSkip, RunChild, EndOfJob, EndOfSkippedJob, ReceiveAnswer,
         ConnectionClosed, Killed, Exit, Receive
    <2>2. ASSUME NEW d \in Clients, Connected(d), WillTalk(d)
          PROVE  Connected(d)' /\ WillTalk(d)'
      <3>1. Connected(d)'
        BY <1>1, <2>1, <2>2 DEF Connected
      <3>2. CASE d = c
        BY <1>3, <2>2, <3>1, <3>2, OwnStepTalks
      <3>3. CASE d # c
        <4>1. /\ pc'[d] = pc[d] /\ to_server'[d] = to_server[d]
              /\ to_client'[d] = to_client[d]
          BY <3>3, OtherClients
        <4>. QED  BY <2>2, <3>1, <4>1 DEF WillTalk, Coming
      <3>. QED  BY <3>2, <3>3, <3>1
    <2>. QED  BY <1>1, <2>2 DEF Woken
  <1>. QED  BY <1>2, <1>3

(* A message that was served leaves the server in its scan.                *)
LEMMA ServingIsAwake ==
    ASSUME TypeOK, NEW k, ClientRead(k)
    PROVE  ~(server' = "up" /\ i' = 0)
  <1>1. ASSUME Turn(k), NEW out, NEW S, Served(k, out, S)
        PROVE  i' # 0
    <2>1. k \in DOMAIN client_cs /\ i' = k + 1
      BY <1>1 DEF Turn, Served
    <2>2. k \in Nat
      BY <2>1, LenProperties DEF TypeOK, ConnectionsTypeOK
    <2>. QED  BY <2>1, <2>2
  <1>2. ASSUME NEW f \in Faults, Die(f)
        PROVE  server' # "up"
    BY <1>2 DEF Die, Faults
  <1>3. CASE \/ NewjobNokFault(k) \/ FinishFault(k) \/ UrgentFault(k)
    <2>1. \A keep, waited : FinishFaults(keep, waited) \subseteq Faults
      BY DEF FinishFaults, Faults
    <2>. QED  BY <1>2, <1>3, <2>1
              DEF NewjobNokFault, FinishFault, UrgentFault, Faults
  <1>4. CASE \/ Newjob(k) \/ NewjobNok(k) \/ GetLogdir(k) \/ RunjobOk(k)
             \/ EndJob(k) \/ JobClientDisappeared(k) \/ ClientDisappeared(k)
    BY <1>1, <1>4 DEF Newjob, NewjobNok, GetLogdir, RunjobOk, EndJob,
       JobClientDisappeared, ClientDisappeared, Serve, EndOfStream
  <1>5. CASE \/ RemoveQueued(k) \/ RemoveFinished(k) \/ RemoveRefused(k)
             \/ WaitQueued(k) \/ WaitAnswered(k)
    BY <1>1, <1>5 DEF RemoveQueued, RemoveFinished, RemoveRefused, WaitQueued,
       WaitAnswered, Serve
  <1>6. CASE \/ MoveUrgent(k) \/ UrgentRefused(k) \/ SwapJobs(k)
             \/ SwapRefused(k) \/ ClearFinished(k) \/ SetMaxSlots(k)
             \/ KillServer(k) \/ List(k) \/ Query(k)
    BY <1>1, <1>6 DEF MoveUrgent, UrgentRefused, SwapJobs, SwapRefused,
       ClearFinished, SetMaxSlots, KillServer, List, Query, Serve
  <1>. QED  BY <1>3, <1>4, <1>5, <1>6 DEF ClientRead

(* The client of a job that was started is told so and will answer, or has *)
(* left, which the server will see.                                        *)
LEMMA StartedTalks ==
    ASSUME IInv, Protocol, StartJob
    PROVE  \E c \in Clients : (server' = "up" => Connected(c)') /\ WillTalk(c)'
  <1>1. PICK q \in NextRunJob, n \in DOMAIN client_cs :
          /\ n \in ConnOf(firstjob[q])
          /\ SendMsg([c \in HeldClients \cup {client_cs[n].socket} |->
               IF c = client_cs[n].socket
               THEN Reply("RUNJOB", job[firstjob[q]].dependency_errorlevel)
               ELSE Reply("NEWJOB_OK", 0)])
    BY DEF StartJob, ConnOf
  <1>2. PICK c, m : /\ c = client_cs[n].socket
                    /\ m = Reply("RUNJOB", job[firstjob[q]].dependency_errorlevel)
    OBVIOUS
  <1>3. UNCHANGED <<client_cs, pc>>
    BY DEF StartJob, LoopAgain
  <1>4. c \in Clients /\ to_client[c] \in Seq(ServerMsg)
    <2>1. c \in Clients
      BY <1>2, ConnsType DEF IInv
    <2>. QED  BY <2>1 DEF IInv, TypeOK, SocketsTypeOK
  <1>5. pc[c] # "closed" => to_client'[c] = Append(to_client[c], m)
    BY <1>1, <1>2, <1>4 DEF SendMsg
  <1>6. m.type = "RUNJOB"
    BY <1>2 DEF Reply
  <1>7. pc[c] # "closed" => Coming(c, "RUNJOB")'
    <2> DEFINE tc == to_client[c]
    <2>1. /\ Len(tc) + 1 \in DOMAIN Append(tc, m)
          /\ Append(tc, m)[Len(tc) + 1] = m
      BY <1>4
    <2>. QED  BY <1>5, <1>6, <2>1 DEF Coming
  <1>8. server' = "up" => Connected(c)'
    BY <1>2, <1>3 DEF Connected
  <1>. QED  BY <1>3, <1>4, <1>7, <1>8 DEF WillTalk

(* Every step keeps the server awake or somebody about to wake it.         *)
LEMMA NextWoken ==
    IInv /\ PInv /\ Woken /\ [Next]_vars => Woken'
  <1> SUFFICES ASSUME IInv, PInv, Woken, [Next]_vars, Dozes' PROVE Woken'
    BY DEF Woken
  <1>1. TypeOK /\ JobsTypeOK
    BY DEF IInv, TypeOK
  <1>2. CASE UNCHANGED vars
    BY <1>2 DEF vars, jobsVars, queueVars, loopVars, socketVars, Woken, Dozes,
       Runnable, Connected, WillTalk, Coming
  <1>3. CASE Select
    BY <1>3 DEF Select, Dozes
  <1>4. ASSUME NEW k, ClientRead(k) PROVE FALSE
    BY <1>1, <1>4, ServingIsAwake DEF Dozes
  <1>5. CASE StartJob
    <2>1. server = "up"
      BY <1>5 DEF StartJob, ScanOver
    <2>. QED  BY <1>5, <2>1, StartedTalks DEF PInv, Woken, Dozes
  <1>6. CASE NothingToRun
    <2>1. PICK p \in DOMAIN firstjob : Runnable(p)
      BY <1>6 DEF NothingToRun, Dozes, Runnable, jobsVars, queueVars
    <2>2. busy_slots < max_slots
      BY <1>6 DEF NothingToRun, Dozes, jobsVars
    <2>. QED  BY <1>1, <1>6, <2>1, <2>2, SomeJobIsNext DEF NothingToRun
  <1>7. ASSUME NEW c \in Clients,
               \/ ClientProcess(c) \/ Killed(c)
               \/ \E cmd \in CommandLines : Connect(c, cmd)
        PROVE  Woken'
    <2>1. server = "up"
      BY <1>7, ClientsLeaveTables DEF Dozes
    <2>. QED  BY <1>1, <1>7, <2>1, ClientTalks
  <1>. QED  BY <1>2, <1>3, <1>4, <1>5, <1>6, <1>7, ConstantsAssumption
            DEF Next, ServerLoop

(* The server does not sleep beside a job that it could start while only   *)
(* the end of some command can wake it, although it starts one job in a    *)
(* round and waits without a timeout.                                      *)
THEOREM JobsStartPromptly == Spec => []PromptStart
  <1>1. Init => Woken
    <2>1. DOMAIN <<>> = {}
      BY EmptySeq
    <2>. QED  BY <2>1 DEF Init, Woken, Dozes
  <1>2. Spec => []Woken
    BY <1>1, NextWoken, ProtocolHolds, PTL DEF Spec
  <1>3. Woken => PromptStart
    BY DEF Woken, Dozes, PromptStart
  <1>. QED  BY <1>2, <1>3, PTL

-----------------------------------------------------------------------------
(* Nobody is forgotten.                                                    *)

(* The command lines in use are among those that the users may type.       *)
OnlyTyped == \A c \in Clients : command[c] \in CommandLines \cup {NoCommand}

(* What select has reported of a connection stays true until it is served. *)
StillReadable ==
    server = "up" =>
    \A x \in Conns : x.socket \in readset => Readable(x.socket)

(* The server has read that the client waits.                              *)
Waits(c) ==
    /\ pc[c] = "wait_answer"
    /\ command[c].request = "WAITJOB"
    /\ to_server[c] = <<>>

(* The client has its answer, or is on the list of a job that can end.     *)
Heeded(c) ==
    \/ to_client[c] # <<>>
    \/ \E n \in first_notify : n.socket = c /\ n.jobid \in Range(firstjob)

(* A message to a client that is there arrives.                            *)
LEMMA AppendNotEmpty ==
    ASSUME NEW S, NEW s \in Seq(S), NEW e
    PROVE  Append(s, e) # <<>>
  <1>1. s \in Seq(S \cup {e}) /\ e \in S \cup {e}
    OBVIOUS
  <1>2. Len(Append(s, e)) = Len(s) + 1 /\ Len(s) \in Nat /\ Len(<<>>) = 0
    BY <1>1, AppendProperties, LenProperties
  <1>. QED  BY <1>2

(* A waiter that is not the client being served.                           *)
LEMMA KeptWaiter ==
    ASSUME TypeOK, NEW k, NEW out, NEW S, Served(k, out, S),
           S \subseteq {client_cs[k].socket},
           \A n \in first_notify :
             n.socket # client_cs[k].socket /\ n.jobid \in Range(firstjob) =>
               \/ n \in first_notify' /\ n.jobid \in Range(firstjob')
               \/ n.socket \in DOMAIN out,
           NEW c \in Clients, c # client_cs[k].socket,
           Waits(c) => Heeded(c), Waits(c)'
    PROVE  Heeded(c)'
  <1>1. /\ pc'[c] = pc[c] /\ command'[c] = command[c]
        /\ to_server'[c] = to_server[c]
        /\ c \notin DOMAIN out => to_client'[c] = to_client[c]
        /\ c \in DOMAIN out /\ pc[c] # "closed" =>
             to_client'[c] = Append(to_client[c], out[c])
    BY ServedClient
  <1>2. pc[c] # "closed" /\ Heeded(c)
    BY <1>1 DEF Waits
  <1>3. to_client[c] \in Seq(ServerMsg)
    BY DEF TypeOK, SocketsTypeOK
  <1>4. CASE c \in DOMAIN out
    <2>1. to_client'[c] # <<>>
      BY <1>1, <1>2, <1>3, <1>4, AppendNotEmpty
    <2>. QED  BY <2>1 DEF Heeded
  <1>5. CASE c \notin DOMAIN out
    BY <1>1, <1>2, <1>5 DEF Heeded
  <1>. QED  BY <1>4, <1>5

(* What a waiter loses, it loses for an answer, if nobody uses -r.         *)
LEMMA ServedOthers ==
    ASSUME IInv, NEW k, ClientRead(k), ~RemoveQueued(k), server' = "up"
    PROVE  \E out, S :
             /\ Served(k, out, S) /\ S \subseteq {client_cs[k].socket}
             /\ \A n \in first_notify :
                  n.socket # client_cs[k].socket /\ n.jobid \in Range(firstjob) =>
                    \/ n \in first_notify' /\ n.jobid \in Range(firstjob')
                    \/ n.socket \in DOMAIN out
  <1>0. TypeOK /\ JobsInv /\ JobsTypeOK
    BY DEF IInv, JobsInv
  <1>1. CASE NewjobNokFault(k) \/ FinishFault(k) \/ UrgentFault(k)
    <2>1. \A keep, waited : FinishFaults(keep, waited) \subseteq Faults
      BY DEF FinishFaults, Faults
    <2>2. CASE NewjobNokFault(k)
      <3>. QED  BY <2>1, <2>2 DEF NewjobNokFault, Die, Faults
    <2>4. CASE FinishFault(k)
      <3>. QED  BY <2>1, <2>4 DEF FinishFault, Die, Faults
    <2>5. CASE UrgentFault(k)
      <3>. QED  BY <2>5 DEF UrgentFault, Die
    <2>. QED  BY <1>1, <2>2, <2>4, <2>5
  <1>2. CASE EndJob(k) \/ JobClientDisappeared(k)
    <2>1. PICK e \in Int, st \in Done, S \in SUBSET {client_cs[k].socket} :
            /\ Served(k, WaitjobOk(client_cs[k].jobid, e), S)
            /\ \E q \in InQueue(client_cs[k].jobid) : JobFinished(q, e, st)
      <3>1. CASE EndJob(k)
        <4>1. PICK m : m = Head(to_server[client_cs[k].socket])
          OBVIOUS
        <4>2. m \in ClientMsg
          BY <1>0, <3>1, <4>1, TurnType DEF EndJob, Serve
        <4>3. PICK e, st : /\ e = m.errorlevel
                           /\ st = IF m.skipped THEN "SKIPPED" ELSE "FINISHED"
          OBVIOUS
        <4>4. e \in Int /\ st \in Done
          BY <4>2, <4>3 DEF ClientMsg, Done
        <4>5. /\ Served(k, WaitjobOk(client_cs[k].jobid, e), {})
              /\ \E q \in InQueue(client_cs[k].jobid) : JobFinished(q, e, st)
          BY <3>1, <4>1, <4>3 DEF EndJob
        <4>. QED  BY <4>4, <4>5
      <3>2. CASE JobClientDisappeared(k)
        <4>1. /\ Served(k, WaitjobOk(client_cs[k].jobid, -1),
                        {client_cs[k].socket})
              /\ \E q \in InQueue(client_cs[k].jobid) :
                   JobFinished(q, -1, "FINISHED")
          BY <3>2 DEF JobClientDisappeared
        <4>2. -1 \in Int /\ "FINISHED" \in Done
          BY DEF Done
        <4>. QED  BY <4>1, <4>2
      <3>. QED  BY <1>2, <3>1, <3>2
    <2>2. PICK q \in InQueue(client_cs[k].jobid) : JobFinished(q, e, st)
      BY <2>1
    <2>3. PICK j : j = client_cs[k].jobid
      OBVIOUS
    <2>4. q \in DOMAIN firstjob /\ firstjob[q] = j
      BY <2>2, <2>3 DEF InQueue
    <2>5. Range(firstjob') = Range(firstjob) \ {j}
      BY <1>0, <2>2, <2>4, JobFinishedQueue
    <2>6. first_notify' = {n \in first_notify : n.jobid # j}
      BY <2>2, <2>4 DEF JobFinished
    <2>7. PICK out : out = WaitjobOk(j, e)
      OBVIOUS
    <2>8. ASSUME NEW n \in first_notify, n.jobid = j
          PROVE  n.socket \in DOMAIN out
      <3>1. n.socket \in Clients /\ n = [socket |-> n.socket, jobid |-> j]
        BY <1>0, <2>8 DEF JobsTypeOK, Notify
      <3>2. n.socket \in Waiters(j)
        BY <2>8, <3>1 DEF Waiters
      <3>3. DOMAIN out = Waiters(j)
        BY <2>7 DEF WaitjobOk
      <3>. QED  BY <3>2, <3>3
    <2>9. Served(k, out, S)
      BY <2>1, <2>3, <2>7
    <2>. QED  BY <2>5, <2>6, <2>8, <2>9
  <1>3. CASE ~(\/ NewjobNokFault(k) \/ FinishFault(k) \/ UrgentFault(k)
               \/ EndJob(k) \/ JobClientDisappeared(k))
    <2>1. \E out, S : Served(k, out, S) /\ S \subseteq {client_cs[k].socket}
      <3>1. CASE \/ Newjob(k) \/ NewjobNok(k) \/ GetLogdir(k) \/ RunjobOk(k)
                 \/ ClientDisappeared(k) \/ RemoveFinished(k)
        <4>1. \E out, S : Served(k, out, S) /\ (S = {} \/ S = {client_cs[k].socket})
          <5>1. CASE Newjob(k)
            BY <5>1 DEF Newjob
          <5>2. CASE NewjobNok(k)
            BY <5>2 DEF NewjobNok
          <5>3. CASE ClientDisappeared(k)
            BY <5>3 DEF ClientDisappeared
          <5>. QED  BY <3>1, <5>1, <5>2, <5>3
                    DEF GetLogdir, RunjobOk, RemoveFinished
        <4>. QED  BY <4>1
      <3>2. CASE \/ RemoveRefused(k) \/ WaitQueued(k) \/ WaitAnswered(k)
                 \/ MoveUrgent(k) \/ UrgentRefused(k) \/ SwapJobs(k)
        <4>1. \E out : Served(k, out, {})
          BY <3>2 DEF RemoveRefused, WaitQueued, WaitAnswered, MoveUrgent,
             UrgentRefused, SwapJobs
        <4>. QED  BY <4>1
      <3>3. CASE \/ SwapRefused(k) \/ ClearFinished(k) \/ SetMaxSlots(k)
                 \/ KillServer(k) \/ List(k) \/ Query(k)
        BY <3>3 DEF SwapRefused, ClearFinished, SetMaxSlots, KillServer, List,
           Query
      <3>. QED  BY <1>3, <3>1, <3>2, <3>3 DEF ClientRead
    <2>2. \A n \in first_notify :
            n.socket # client_cs[k].socket => n \in first_notify'
      BY <1>3 DEF ClientRead, Newjob, NewjobNok, GetLogdir, RunjobOk,
         ClientDisappeared, RemoveFinished, RemoveRefused, WaitQueued,
         WaitAnswered, MoveUrgent, UrgentRefused, SwapJobs, SwapRefused,
         ClearFinished, SetMaxSlots, KillServer, List, Query, jobsVars
    <2>3. Range(firstjob) \subseteq Range(firstjob')
      <3>1. CASE Newjob(k)
        <4>1. firstjob' = Append(firstjob, jobids) /\ jobids \in JobIds
          BY <3>1 DEF Newjob
        <4>. QED  BY <1>0, <4>1, NewIdUnused, AppendIsInjective
                  DEF JobsInv, JobsTypeOK, QueueConsistent, Consistent
      <3>2. CASE MoveUrgent(k) \/ SwapJobs(k)
        BY <1>0, <3>2, MoveUrgentStep, SwapJobsStep, QueueKept
      <3>3. CASE ~(Newjob(k) \/ MoveUrgent(k) \/ SwapJobs(k))
        BY <1>3, <3>3 DEF ClientRead, NewjobNok, GetLogdir, RunjobOk,
           ClientDisappeared, RemoveFinished, RemoveRefused, WaitQueued,
           WaitAnswered, UrgentRefused, SwapRefused, ClearFinished,
           SetMaxSlots, KillServer, List, Query, jobsVars, queueVars
      <3>. QED  BY <3>1, <3>2, <3>3
    <2>. QED  BY <2>1, <2>2, <2>3
  <1>. QED  BY <1>1, <1>2, <1>3

(* The client being served waits only if it has just asked to.             *)
LEMMA ServedSelf ==
    ASSUME IInv, Protocol, StillReadable, NEW k, ClientRead(k),
           ~RemoveQueued(k), server' = "up",
           NEW s, s = client_cs[k].socket, Waits(s)'
    PROVE  Heeded(s)'
  <1>0. TypeOK /\ JobsInv /\ JobsTypeOK
    BY DEF IInv, JobsInv
  <1>1. PICK x : x = client_cs[k] /\ s = x.socket
    OBVIOUS
  <1>2. Turn(k)
    BY DEF ClientRead, Newjob, NewjobNok, NewjobNokFault, GetLogdir, RunjobOk,
           EndJob, JobClientDisappeared, ClientDisappeared, FinishFault,
           RemoveQueued, RemoveFinished, RemoveRefused, WaitQueued,
           WaitAnswered, MoveUrgent, UrgentRefused, UrgentFault, SwapJobs,
           SwapRefused, ClearFinished, SetMaxSlots, KillServer, List, Query,
           Serve, EndOfStream
  <1>3. /\ s \in Clients /\ x \in Conns /\ Link(x)
        /\ to_server[s] # <<>> /\ Head(to_server[s]).type \in Requests =>
             command[s].request = Head(to_server[s]).type
        /\ to_server[s] # <<>> /\ Head(to_server[s]).type \in
                                    {"GET_LOGDIR", "RUNJOB_OK", "ENDJOB"} =>
             JobLink(pc[s], to_server[s], to_client[s], job[x.jobid].state)
    BY <1>1, <1>2, TurnFacts
  <1>4. PICK out, S : Served(k, out, S)
    BY ServedOthers
  <1>5. pc[s] = "wait_answer" /\ command[s].request = "WAITJOB"
    BY <1>1, <1>3, <1>4, ServedWaits DEF NobodyNewWaits, Waits
  <1>6. to_server[s] # <<>>
    <2>1. s \in readset /\ server = "up"
      BY <1>1, <1>2 DEF Turn
    <2>2. Readable(s)
      BY <1>1, <1>3, <2>1 DEF StillReadable
    <2>. QED  BY <1>5, <2>2 DEF Readable
  <1>7. ~(Head(to_server[s]).type \in {"GET_LOGDIR", "RUNJOB_OK", "ENDJOB"})
    BY <1>3, <1>5, <1>6
       DEF JobLink, HoldingLink, QueuedLink, RunningLink
  <1>8. ~(Head(to_server[s]).type \in Requests \ {"WAITJOB"})
    BY <1>3, <1>5, <1>6
  <1>9. WaitQueued(k) \/ WaitAnswered(k)
    <2>1. \A type : Serve(k, type) => Head(to_server[s]).type = type
      BY <1>1 DEF Serve
    <2>2. ~EndOfStream(k)
      BY <1>1, <1>6 DEF EndOfStream
    <2>3. \A type \in (Requests \ {"WAITJOB"}) \cup
                        {"GET_LOGDIR", "RUNJOB_OK", "ENDJOB"} : ~Serve(k, type)
      BY <1>7, <1>8, <2>1
    <2>. QED  BY <2>2, <2>3
         DEF ClientRead, Newjob, NewjobNok, NewjobNokFault, GetLogdir, RunjobOk,
           EndJob, JobClientDisappeared, ClientDisappeared, FinishFault,
           RemoveQueued, RemoveFinished, RemoveRefused, MoveUrgent,
           UrgentRefused, UrgentFault, SwapJobs, SwapRefused, ClearFinished,
           SetMaxSlots, KillServer, List, Query, Requests, OneWay, Queries
  <1>10. CASE WaitQueued(k)
    <2>1. PICK q \in Named(firstjob, command[s].jobid) :
            first_notify' = first_notify \cup
                              {[socket |-> s, jobid |-> firstjob[q]]}
      BY <1>1, <1>10 DEF WaitQueued
    <2>2. q \in DOMAIN firstjob /\ firstjob' = firstjob
      BY <1>0, <1>10, LenProperties DEF JobsTypeOK, Named, WaitQueued, queueVars
    <2>3. firstjob[q] \in Range(firstjob')
      BY <2>2 DEF Range
    <2>4. PICK n : n = [socket |-> s, jobid |-> firstjob[q]]
      OBVIOUS
    <2>5. n \in first_notify' /\ n.socket = s /\ n.jobid = firstjob[q]
      BY <2>1, <2>4
    <2>. QED  BY <2>3, <2>5 DEF Heeded
  <1>11. CASE WaitAnswered(k)
    <2>1. PICK m : Served(k, To(s, m), {})
      BY <1>1, <1>11 DEF WaitAnswered
    <2>2. s \in DOMAIN To(s, m)
      BY DEF To
    <2>3. PICK e : to_client'[s] = Append(to_client[s], e)
      <3>1. PICK told : told = To(s, m)
        OBVIOUS
      <3>2. Served(k, told, {}) /\ s \in DOMAIN told /\ pc[s] # "closed"
        BY <1>5, <2>1, <2>2, <3>1
      <3>3. SendMsg(told)
        BY ONLY <3>2 DEF Served
      <3>4. to_client'[s] = Append(to_client[s], told[s])
        BY ONLY <1>3, <3>2, <3>3 DEF SendMsg
      <3>. QED  BY <3>4
    <2>4. to_client[s] \in Seq(ServerMsg)
      BY <1>0, <1>3 DEF TypeOK, SocketsTypeOK
    <2>. QED  BY <1>1, <2>3, <2>4, AppendNotEmpty DEF Heeded
  <1>. QED  BY <1>9, <1>10, <1>11

(* The hypothesis of the last theorem: no ts -r is typed.                  *)
NobodyRemoves == \A cmd \in CommandLines : cmd.request # "REMOVEJOB"

(* A step of the server was one while it was up.                           *)
LEMMA ServingTurn ==
    ASSUME NEW k, ClientRead(k)
    PROVE  Turn(k) /\ server = "up"
  BY DEF ClientRead, Newjob, NewjobNok, NewjobNokFault, GetLogdir, RunjobOk,
         EndJob, JobClientDisappeared, ClientDisappeared, FinishFault,
         RemoveQueued, RemoveFinished, RemoveRefused, WaitQueued,
         WaitAnswered, MoveUrgent, UrgentRefused, UrgentFault, SwapJobs,
         SwapRefused, ClearFinished, SetMaxSlots, KillServer, List, Query,
         Serve, EndOfStream, Turn

(* No request to remove a job is served then.                              *)
LEMMA NotRemoved ==
    ASSUME NobodyRemoves, IInv, Protocol, OnlyTyped, NEW k
    PROVE  ~RemoveQueued(k)
  <1>1. SUFFICES ASSUME RemoveQueued(k) PROVE FALSE
    OBVIOUS
  <1>2. PICK s : s = client_cs[k].socket
    OBVIOUS
  <1>3. Turn(k) /\ to_server[s] # <<>> /\ Head(to_server[s]).type = "REMOVEJOB"
    BY <1>1, <1>2 DEF RemoveQueued, Serve
  <1>4. s \in Clients /\ command[s].request = "REMOVEJOB"
    BY <1>2, <1>3, TurnFacts DEF Requests
  <1>. QED  BY <1>4 DEF NobodyRemoves, OnlyTyped, NoCommand

(* The commands that are in use.                                           *)
LEMMA NextTyped ==
    ASSUME IInv, OnlyTyped, [Next]_vars
    PROVE  OnlyTyped'
  <1>0. TypeOK
    BY DEF IInv
  <1>1. ASSUME UNCHANGED command PROVE OnlyTyped'
    BY <1>1 DEF OnlyTyped
  <1>2. ASSUME NEW k, ClientRead(k) PROVE OnlyTyped'
    <2>1. CASE NewjobNokFault(k) \/ FinishFault(k) \/ UrgentFault(k)
      BY <1>1, <2>1 DEF NewjobNokFault, FinishFault, UrgentFault, Die, socketVars
    <2>2. CASE ~(NewjobNokFault(k) \/ FinishFault(k) \/ UrgentFault(k))
      <3>1. PICK out, S : Served(k, out, S)
        <4>1. CASE WaitAnswered(k)
          BY <4>1 DEF WaitAnswered
        <4>2. CASE EndJob(k) \/ JobClientDisappeared(k)
          BY <4>2 DEF EndJob, JobClientDisappeared
        <4>3. CASE ~(WaitAnswered(k) \/ EndJob(k) \/ JobClientDisappeared(k))
          BY <1>2, <2>2, <4>3, OtherAnswers DEF ClientRead
        <4>. QED  BY <4>1, <4>2, <4>3
      <3>. QED  BY <3>1, ServedWaits DEF OnlyTyped
    <2>. QED  BY <2>1, <2>2
  <1>3. CASE Select \/ StartJob \/ NothingToRun \/ UNCHANGED vars
    BY <1>1, <1>3 DEF Select, StartJob, NothingToRun, LoopAgain, vars, socketVars
  <1>4. ASSUME NEW c \in Clients,
               \/ ClientProcess(c) \/ Killed(c)
               \/ \E cmd \in CommandLines : Connect(c, cmd)
        PROVE  OnlyTyped'
    <2>1. command'[c] \in {command[c], NoCommand} \cup CommandLines
      <3>1. CASE \E cmd \in CommandLines : Connect(c, cmd)
        BY <1>0, <3>1 DEF Connect, TypeOK, SocketsTypeOK
      <3>2. CASE ClientProcess(c) \/ Killed(c)
        <4>1. CASE WaitNewjobOk(c) \/ Runjob(c) \/ RunjobSkip(c) \/ RunChild(c)
          BY <4>1 DEF WaitNewjobOk, Runjob, RunjobSkip, RunChild, Receive
        <4>2. CASE \/ NewjobRejected(c) \/ ReceiveAnswer(c) \/ EndOfJob(c)
                   \/ EndOfSkippedJob(c) \/ ConnectionClosed(c) \/ Killed(c)
          <5>1. Exit(c)
            BY <4>2 DEF NewjobRejected, ReceiveAnswer, EndOfJob,
               EndOfSkippedJob, ConnectionClosed, Killed
          <5>. QED  BY <1>0, <5>1 DEF Exit, TypeOK, SocketsTypeOK
        <4>. QED  BY <3>2, <4>1, <4>2 DEF ClientProcess
      <3>. QED  BY <1>4, <3>1, <3>2
    <2>2. \A d \in Clients \ {c} : command'[d] = command[d]
      BY <1>0, <1>4, OtherClients
    <2>. QED  BY <2>1, <2>2 DEF OnlyTyped
  <1>. QED  BY <1>2, <1>3, <1>4, ConstantsAssumption DEF Next, ServerLoop

(* What a client does to its own connection.                               *)
LEMMA ClientStays ==
    ASSUME TypeOK, NEW c \in Clients,
           \/ ClientProcess(c) \/ Killed(c)
           \/ \E cmd \in CommandLines : Connect(c, cmd)
    PROVE  /\ pc[c] # "closed"
           /\ to_server[c] # <<>> => to_server'[c] # <<>>
           /\ pc'[c] = "wait_answer" => to_server'[c] # <<>>
  <1>0. to_server[c] \in Seq(ClientMsg)
    BY DEF TypeOK, SocketsTypeOK
  <1>1. ASSUME NEW m, SendToServer(c, m), to_server[c] # <<>>
        PROVE  to_server'[c] # <<>>
    <2>1. to_server'[c] = to_server[c] \/ to_server'[c] = Append(to_server[c], m)
      BY <1>1 DEF SendToServer, TypeOK, SocketsTypeOK
    <2>. QED  BY <1>0, <1>1, <2>1, AppendNotEmpty
  <1>2. CASE \E cmd \in CommandLines : Connect(c, cmd)
    <2>1. PICK m : to_server' = [to_server EXCEPT ![c] = <<m>>]
      BY <1>2 DEF Connect
    <2>2. to_server'[c] = <<m>>
      BY <2>1 DEF TypeOK, SocketsTypeOK
    <2>3. pc[c] # "closed"
      BY <1>2 DEF Connect
    <2>. QED  BY <2>2, <2>3
  <1>3. CASE WaitNewjobOk(c) \/ Runjob(c) \/ RunjobSkip(c) \/ RunChild(c)
    <2>1. pc[c] # "closed" /\ pc'[c] # "wait_answer"
      BY <1>3 DEF WaitNewjobOk, Runjob, RunjobSkip, RunChild, Receive,
                  TypeOK, SocketsTypeOK
    <2>2. \/ to_server' = to_server
          \/ \E m : SendToServer(c, m)
      BY <1>3 DEF WaitNewjobOk, Runjob, RunjobSkip, RunChild
    <2>. QED  BY <1>1, <2>1, <2>2
  <1>4. CASE EndOfSkippedJob(c)
    <2>1. pc[c] # "closed" /\ Exit(c)
      BY <1>4 DEF EndOfSkippedJob
    <2>2. pc'[c] # "wait_answer"
      BY <2>1 DEF Exit, TypeOK, SocketsTypeOK
    <2>3. \E m : SendToServer(c, m)
      BY <1>4 DEF EndOfSkippedJob
    <2>. QED  BY <1>1, <2>1, <2>2, <2>3
  <1>5. CASE EndOfJob(c)
    <2>1. pc[c] # "closed" /\ Exit(c)
      BY <1>5 DEF EndOfJob
    <2>2. pc'[c] # "wait_answer"
      BY <2>1 DEF Exit, TypeOK, SocketsTypeOK
    <2>3. \E m : SendToServer(c, m)
      BY <1>5 DEF EndOfJob
    <2>. QED  BY <1>1, <2>1, <2>2, <2>3
  <1>6. CASE NewjobRejected(c) \/ ReceiveAnswer(c) \/ ConnectionClosed(c) \/ Killed(c)
    <2>1. pc[c] # "closed" /\ Exit(c) /\ UNCHANGED to_server
      BY <1>6 DEF NewjobRejected, ReceiveAnswer, ConnectionClosed, Killed
    <2>2. pc'[c] # "wait_answer"
      BY <2>1 DEF Exit, TypeOK, SocketsTypeOK
    <2>. QED  BY <2>1, <2>2
  <1>. QED  BY <1>2, <1>3, <1>4, <1>5, <1>6 DEF ClientProcess

(* No step but a new connection brings a socket into client_cs.            *)
LEMMA OldConns ==
    ASSUME IInv, Wired, NEW k, ClientRead(k)
    PROVE  \A y \in Conns' : \E x \in Conns : y.socket = x.socket
  <1>0. client_cs \in Seq(Connection) /\ IsInjective(client_cs)
    BY DEF IInv, TypeOK, ConnectionsTypeOK, Wired
  <1>1. k \in DOMAIN client_cs
    BY ServingTurn DEF Turn
  <1>2. CASE UNCHANGED client_cs
    BY <1>2 DEF Conns
  <1>3. CASE \E n \in DOMAIN client_cs : client_cs' = RemoveAt(client_cs, n)
    <2>1. PICK n \in DOMAIN client_cs : client_cs' = RemoveAt(client_cs, n)
      BY <1>3
    <2>2. Conns' \subseteq Conns
      BY <1>0, <2>1, RemoveAtInjective DEF Conns
    <2>. QED  BY <2>2
  <1>4. ASSUME NEW y, client_cs' = [client_cs EXCEPT ![k] = y],
               y.socket = client_cs[k].socket
        PROVE  \A z \in Conns' : \E x \in Conns : z.socket = x.socket
    <2>1. /\ DOMAIN client_cs' = DOMAIN client_cs
          /\ \A n \in DOMAIN client_cs :
               client_cs'[n] = IF n = k THEN y ELSE client_cs[n]
      BY <1>4
    <2>. QED  BY <1>1, <1>4, <2>1 DEF Range, Conns
  <1>5. CASE Newjob(k)
    <2>1. PICK y : y = [socket |-> client_cs[k].socket, hasjob |-> TRUE,
                        jobid |-> jobids]
      OBVIOUS
    <2>2. client_cs' = [client_cs EXCEPT ![k] = y]
      BY <1>5, <2>1 DEF Newjob
    <2>. QED  BY <1>4, <2>1, <2>2
  <1>6. CASE EndJob(k)
    <2>1. PICK y : y = [client_cs[k] EXCEPT !.hasjob = FALSE]
      OBVIOUS
    <2>2. client_cs' = [client_cs EXCEPT ![k] = y]
      BY <1>6, <2>1 DEF EndJob, ForgetJob
    <2>3. client_cs[k] \in Connection
      BY <1>0, <1>1
    <2>. QED  BY <1>4, <2>1, <2>2, <2>3 DEF Connection
  <1>7. CASE \/ NewjobNok(k) \/ JobClientDisappeared(k) \/ ClientDisappeared(k)
             \/ List(k)
    BY <1>1, <1>3, <1>7 DEF NewjobNok, JobClientDisappeared, ClientDisappeared,
       List
  <1>8. CASE RemoveQueued(k)
    BY <1>3, <1>8 DEF RemoveQueued, ConnOf
  <1>9. CASE \/ NewjobNokFault(k) \/ GetLogdir(k) \/ RunjobOk(k)
             \/ FinishFault(k) \/ RemoveFinished(k) \/ RemoveRefused(k)
             \/ WaitQueued(k) \/ WaitAnswered(k) \/ MoveUrgent(k)
             \/ UrgentRefused(k) \/ UrgentFault(k) \/ SwapJobs(k)
             \/ SwapRefused(k) \/ ClearFinished(k) \/ SetMaxSlots(k)
             \/ KillServer(k) \/ Query(k)
    <2>1. UNCHANGED client_cs
      BY <1>9 DEF NewjobNokFault, GetLogdir, RunjobOk, FinishFault,
         RemoveFinished, RemoveRefused, WaitQueued, WaitAnswered, MoveUrgent,
         UrgentRefused, UrgentFault, SwapJobs, SwapRefused, ClearFinished,
         SetMaxSlots, KillServer, Query, Die
    <2>. QED  BY <1>2, <2>1
  <1>. QED  BY <1>5, <1>6, <1>7, <1>8, <1>9 DEF ClientRead

(* Nothing but its turn makes a connection unreadable again.               *)
LEMMA NextReadable ==
    ASSUME NobodyRemoves, IInv, PInv, OnlyTyped, StillReadable, [Next]_vars
    PROVE  StillReadable'
  <1>0. TypeOK
    BY DEF IInv
  <1>1. CASE UNCHANGED vars
    BY <1>1 DEF vars, loopVars, socketVars, StillReadable, Readable, Conns
  <1>2. CASE Select
    <2>1. readset' \subseteq {c \in Clients : Readable(c)}
      BY <1>2 DEF Select
    <2>2. UNCHANGED <<to_server, pc>>
      BY <1>2 DEF Select
    <2>. QED  BY <2>1, <2>2 DEF StillReadable, Readable
  <1>3. CASE StartJob \/ NothingToRun
    BY <1>3 DEF StartJob, NothingToRun, LoopAgain, StillReadable
  <1>4. ASSUME NEW k, ClientRead(k), server' = "up"
        PROVE  StillReadable'
    <2>1. Turn(k) /\ server = "up" /\ Wired /\ ~RemoveQueued(k)
      BY <1>4, ServingTurn, NotRemoved DEF PInv, Protocol
    <2>2. PICK out, S : /\ Served(k, out, S)
                        /\ S \subseteq {client_cs[k].socket}
      BY <1>4, <2>1, ServedOthers
    <2>3. ASSUME NEW c \in Clients, c \in readset', Readable(c)
          PROVE  Readable(c)'
      <3>1. c \in readset /\ c # client_cs[k].socket /\ c \notin S
        BY <2>2, <2>3 DEF Served
      <3>. QED  BY <2>2, <2>3, <3>1, ServedClient DEF Readable
    <2>4. ASSUME NEW y \in Conns', y.socket \in readset'
          PROVE  Readable(y.socket)'
      <3>1. PICK x \in Conns : x.socket = y.socket
        BY <1>4, <2>1, OldConns
      <3>2. y.socket \in readset
        BY <2>2, <2>4 DEF Served
      <3>3. y.socket \in Clients /\ Readable(y.socket)
        BY <1>0, <2>1, <3>1, <3>2, ConnsType DEF StillReadable
      <3>4. PICK c \in Clients : c = y.socket
        BY <3>3
      <3>. QED  BY <2>3, <2>4, <3>3, <3>4 DEF Readable
    <2>. QED  BY <2>4 DEF StillReadable, Readable
  <1>5. ASSUME NEW c \in Clients,
               \/ ClientProcess(c) \/ Killed(c)
               \/ \E cmd \in CommandLines : Connect(c, cmd)
        PROVE  StillReadable'
    <2>1. UNCHANGED <<client_cs, server, readset>>
      BY <1>5, ClientsLeaveTables
    <2>2. ASSUME NEW d \in Clients, Readable(d)
          PROVE  Readable(d)'
      <3>1. CASE d = c
        BY <1>0, <1>5, <2>2, <3>1, ClientStays DEF Readable
      <3>2. CASE d # c
        BY <1>0, <1>5, <2>2, <3>2, OtherClients DEF Readable
      <3>. QED  BY <3>1, <3>2
    <2>3. \A x \in Conns : x.socket \in Clients
      BY <1>0, ConnsType
    <2>. QED  BY <2>1, <2>2, <2>3 DEF StillReadable, Readable, Conns
  <1>6. CASE server' # "up"
    BY <1>6 DEF StillReadable
  <1>. QED  BY <1>1, <1>2, <1>3, <1>4, <1>5, <1>6, ConstantsAssumption
            DEF Next, ServerLoop

(* Whoever waits is heeded, as long as the server is up.                   *)
LEMMA NextHeeded ==
    ASSUME NobodyRemoves, IInv, PInv, OnlyTyped, StillReadable,
           NoForgottenWaiter, [Next]_vars, server' = "up",
           NEW c \in Clients, Waits(c)'
    PROVE  Heeded(c)'
  <1>0. TypeOK
    BY DEF IInv
  <1>1. server = "up"
    BY ClientsLeaveTables, ServingTurn, ConstantsAssumption
       DEF Next, ServerLoop, Select, StartJob, NothingToRun, ScanOver, vars,
           loopVars
  <1>2. Waits(c) => Heeded(c)
    BY <1>1 DEF NoForgottenWaiter, Waits, Heeded
  <1>3. CASE \/ Select \/ NothingToRun \/ UNCHANGED vars
    BY <1>2, <1>3
       DEF Select, NothingToRun, LoopAgain, vars, jobsVars, queueVars,
           socketVars, Waits, Heeded
  <1>4. CASE StartJob
    <2>1. PICK out : SendMsg(out)
      BY <1>4 DEF StartJob
    <2>2. UNCHANGED <<firstjob, first_notify, pc, command, to_server>>
      BY <1>4 DEF StartJob, LoopAgain
    <2>3. to_client[c] \in Seq(ServerMsg)
      BY <1>0 DEF TypeOK, SocketsTypeOK
    <2>4. to_client[c] # <<>> => to_client'[c] # <<>>
      BY <2>1, <2>3, AppendNotEmpty DEF SendMsg
    <2>. QED  BY <1>2, <2>2, <2>4 DEF Waits, Heeded
  <1>5. ASSUME NEW k, ClientRead(k)
        PROVE  Heeded(c)'
    <2>1. Protocol /\ ~RemoveQueued(k)
      BY <1>1, <1>5, NotRemoved DEF PInv
    <2>2. CASE c = client_cs[k].socket
      BY <1>5, <2>1, <2>2, ServedSelf
    <2>3. CASE c # client_cs[k].socket
      <3>1. PICK out, S :
              /\ Served(k, out, S) /\ S \subseteq {client_cs[k].socket}
              /\ \A n \in first_notify :
                   n.socket # client_cs[k].socket /\ n.jobid \in Range(firstjob) =>
                     \/ n \in first_notify' /\ n.jobid \in Range(firstjob')
                     \/ n.socket \in DOMAIN out
        BY <1>5, <2>1, ServedOthers
      <3>. QED  BY <1>0, <1>2, <2>3, <3>1, KeptWaiter
    <2>. QED  BY <2>2, <2>3
  <1>6. ASSUME NEW d \in Clients,
               \/ ClientProcess(d) \/ Killed(d)
               \/ \E cmd \in CommandLines : Connect(d, cmd)
        PROVE  Heeded(c)'
    <2>1. c # d
      BY <1>0, <1>6, ClientStays DEF Waits
    <2>2. /\ pc'[c] = pc[c] /\ command'[c] = command[c]
          /\ to_server'[c] = to_server[c] /\ to_client'[c] = to_client[c]
      BY <1>0, <1>6, <2>1, OtherClients
    <2>3. UNCHANGED <<firstjob, first_notify>>
      BY <1>6, ClientsLeaveTables DEF jobsVars, queueVars
    <2>. QED  BY <1>2, <2>2, <2>3 DEF Waits, Heeded
  <1>. QED  BY <1>3, <1>4, <1>5, <1>6, ConstantsAssumption DEF Next, ServerLoop

(* A client waiting for a job, whose request the server has read, has its  *)
(* answer or is on the notify list of a job that can still end, if nobody  *)
(* removes jobs.  With -r the waiter of a removed job is forgotten,        *)
(* because s_remove_job calls check_notify_list for job 0 instead of the   *)
(* job that it removes.                                                    *)
THEOREM WaitersAreHeeded ==
    ASSUME \A cmd \in CommandLines : cmd.request # "REMOVEJOB"
    PROVE  Spec => []NoForgottenWaiter
  <1>0. NobodyRemoves
    BY DEF NobodyRemoves
  <1> DEFINE WInv == OnlyTyped /\ StillReadable /\ NoForgottenWaiter
  <1>1. Init => WInv
    <2>1. Init => OnlyTyped
      BY DEF Init, OnlyTyped
    <2>2. Init => StillReadable
      BY DEF Init, StillReadable
    <2>3. Init => NoForgottenWaiter
      BY DEF Init, NoForgottenWaiter
    <2>. QED  BY <2>1, <2>2, <2>3
  <1>2. IInv /\ PInv /\ WInv /\ [Next]_vars => WInv'
    <2>1. ASSUME IInv, PInv, WInv, [Next]_vars
          PROVE  NoForgottenWaiter'
      BY <1>0, <2>1, NextHeeded DEF NoForgottenWaiter, Waits, Heeded
    <2>. QED  BY <1>0, <2>1, NextTyped, NextReadable
  <1>. QED  BY <1>1, <1>2, ProtocolHolds, PTL DEF Spec

-----------------------------------------------------------------------------
(* After the jobs they depend on.                                          *)

(* What of struct Job is about dependencies: what was known stays known.   *)
SameDeps(r, s) ==
    /\ r.depend_on = s.depend_on
    /\ s.notify_errorlevel_to \subseteq r.notify_errorlevel_to
    /\ r.dependency_errorlevel = 0 => s.dependency_errorlevel = 0

(* What a step does to the dependencies of jobs: none is new in the queue, *)
(* and the dependents of a job that leaves it hear how it has ended.       *)
DependKept ==
    \A x \in Range(firstjob') :
        x \in Range(firstjob) /\ SameDeps(job'[x], job[x])

EndTold ==
    \A d \in Range(firstjob) \ Range(firstjob') :
        \/ outcome'[d] = {0}
        \/ \A x \in job[d].notify_errorlevel_to \cap Range(firstjob') :
             job'[x].dependency_errorlevel # 0

(* Telling a result.                                                       *)
LEMMA NotifyErrorlevelDeps ==
    ASSUME JobsTypeOK, NEW j \in JobIds, NEW e, NEW x \in JobIds
    PROVE  /\ SameDeps(NotifyErrorlevel(j, e)[x], job[x])
           /\ e # 0 /\ x \in job[j].notify_errorlevel_to =>
                NotifyErrorlevel(j, e)[x].dependency_errorlevel # 0
  <1>1. job[x] \in Job
    BY DEF JobsTypeOK
  <1>2. PICK y : y = NotifyErrorlevel(j, e)[x]
    OBVIOUS
  <1>3. \/ y = job[x] /\ ~(e # 0 /\ x \in job[j].notify_errorlevel_to)
        \/ y = [job[x] EXCEPT !.dependency_errorlevel = 1]
    BY <1>2 DEF NotifyErrorlevel
  <1>4. /\ SameDeps(y, job[x])
        /\ e # 0 /\ x \in job[j].notify_errorlevel_to =>
             y.dependency_errorlevel # 0
    BY <1>1, <1>3 DEF Job, SameDeps
  <1>. QED  BY <1>2, <1>4

(* Submitting a job.                                                       *)
LEMMA WithNewJobDeps ==
    ASSUME JobsTypeOK, NEW c, NEW new, NEW st, NEW lastq, NEW lastf,
           NEW x \in JobIds \ {new}
    PROVE  /\ SameDeps(WithNewJob(c, new, st, lastq, lastf)[x], job[x])
           /\ x \in DependOn(c, new, lastq, lastf) \cap Range(firstjob) =>
                new \in WithNewJob(c, new, st, lastq, lastf)[x].notify_errorlevel_to
  <1>1. job[x] \in Job
    BY DEF JobsTypeOK
  <1>2. PICK y : y = WithNewJob(c, new, st, lastq, lastf)[x]
    OBVIOUS
  <1>3. \/ /\ y = job[x]
           /\ x \notin DependOn(c, new, lastq, lastf) \cap Range(firstjob)
        \/ y = [job[x] EXCEPT !.notify_errorlevel_to = @ \cup {new}]
    BY <1>2 DEF WithNewJob
  <1>4. /\ SameDeps(y, job[x])
        /\ x \in DependOn(c, new, lastq, lastf) \cap Range(firstjob) =>
             new \in y.notify_errorlevel_to
    BY <1>1, <1>3 DEF Job, SameDeps
  <1>. QED  BY <1>2, <1>4

(* A step that leaves the queue and the dependencies alone.                *)
LEMMA SameQueueDeps ==
    ASSUME JobsInv, Range(firstjob') = Range(firstjob),
           \A x \in Range(firstjob) : SameDeps(job'[x], job[x])
    PROVE  DependKept /\ EndTold
  BY DEF DependKept, EndTold

(* job_finished.                                                           *)
LEMMA JobFinishedDeps ==
    ASSUME JobsInv, NEW q \in DOMAIN firstjob, NEW e \in Int, NEW st \in Done,
           JobFinished(q, e, st)
    PROVE  DependKept /\ EndTold
  <1>1. PICK j : j = firstjob[q]
    OBVIOUS
  <1>2. /\ j \in Range(firstjob) /\ Range(firstjob') = Range(firstjob) \ {j}
        /\ Range(firstjob) \subseteq JobIds /\ JobsTypeOK
    BY <1>1, JobFinishedQueue, RangeOfSeq DEF JobsInv, JobsTypeOK
  <1>3. PICK told : told = NotifyErrorlevel(j, e)
    OBVIOUS
  <1>4. PICK finished :
          job' = Sweep([told EXCEPT ![j].state = st, ![j].errorlevel = e],
                       firstjob', finished)
    BY <1>1, <1>3 DEF JobFinished
  <1>5. told \in [JobIds -> Job]
    BY <1>2, <1>3, NotifyErrorlevelTable
  <1>6. \A x \in Range(firstjob') : job'[x] = told[x]
    BY <1>2, <1>4, <1>5 DEF Sweep
  <1>7. outcome'[j] = {e}
    BY <1>1, <1>2 DEF JobFinished, JobsTypeOK
  <1>8. DependKept
    BY <1>2, <1>3, <1>6, NotifyErrorlevelDeps DEF DependKept
  <1>9. EndTold
    BY <1>2, <1>3, <1>6, <1>7, NotifyErrorlevelDeps DEF EndTold
  <1>. QED  BY <1>8, <1>9

(* s_remove_job of a queued job.                                           *)
LEMMA RemoveQueuedDeps ==
    ASSUME TypeOK, JobsInv, NEW k, RemoveQueued(k)
    PROVE  DependKept /\ EndTold
  <1>1. JobsTypeOK /\ QueueConsistent
    BY DEF JobsInv
  <1>2. PICK q \in Named(firstjob, command[client_cs[k].socket].jobid) :
          /\ firstjob' = RemoveAt(firstjob, q)
          /\ job' = Sweep(NotifyErrorlevel(firstjob[q], -1), firstjob',
                          first_finished_job)
    BY DEF RemoveQueued
  <1>3. q \in DOMAIN firstjob /\ firstjob[q] \in JobIds
    BY <1>1, <1>2, LenProperties DEF JobsTypeOK, Named
  <1>4. PICK j, told : j = firstjob[q] /\ told = NotifyErrorlevel(j, -1)
    OBVIOUS
  <1>5. /\ Range(firstjob') = Range(firstjob) \ {j}
        /\ Range(firstjob) \subseteq JobIds
    BY <1>1, <1>2, <1>3, <1>4, RemoveAtInjective, RangeOfSeq
       DEF JobsTypeOK, QueueConsistent, Consistent
  <1>6. \A x \in Range(firstjob') : job'[x] = told[x]
    BY <1>2, <1>4, <1>5 DEF Sweep
  <1>7. \A x \in JobIds :
          /\ SameDeps(told[x], job[x])
          /\ x \in job[j].notify_errorlevel_to =>
               told[x].dependency_errorlevel # 0
    BY <1>1, <1>3, <1>4, NotifyErrorlevelDeps
  <1>8. DependKept
    BY <1>5, <1>6, <1>7 DEF DependKept
  <1>9. EndTold
    BY <1>5, <1>6, <1>7 DEF EndTold
  <1>. QED  BY <1>8, <1>9

(* s_remove_job of a result.                                               *)
LEMMA RemoveFinishedDeps ==
    ASSUME JobsInv, NEW k, RemoveFinished(k)
    PROVE  DependKept /\ EndTold
  <1>1. JobsTypeOK /\ QueueConsistent
    BY DEF JobsInv
  <1>2. PICK f, q, finished :
          /\ f = first_finished_job
          /\ q \in Named(f, command[client_cs[k].socket].jobid)
          /\ job' = Sweep(NotifyErrorlevel(f[q], -1), firstjob, finished)
    BY DEF RemoveFinished
  <1>3. f[q] \in JobIds /\ UNCHANGED firstjob
    BY <1>1, <1>2, LenProperties DEF JobsTypeOK, Named, RemoveFinished
  <1>4. \A x \in Range(firstjob) :
          x \in JobIds /\ job'[x] = NotifyErrorlevel(f[q], -1)[x]
    BY <1>1, <1>2, ListedJobs DEF Sweep
  <1>. QED  BY <1>1, <1>3, <1>4, NotifyErrorlevelDeps, SameQueueDeps

(* A job that is rejected leaves the queue alone.                          *)
LEMMA NewjobNokDeps ==
    ASSUME TypeOK, JobsInv, NEW k, NewjobNok(k)
    PROVE  DependKept /\ EndTold
  <1>1. JobsTypeOK /\ QueueConsistent /\ jobids \in JobIds
    BY DEF JobsInv, NewjobNok
  <1>2. PICK c, new, finished : c = command[client_cs[k].socket] /\ new = jobids
          /\ \E lastq \in LastId(Range(firstjob)),
                lastf \in LastId(Range(first_finished_job)) :
               job' = Sweep([WithNewJob(c, new, "FINISHED", lastq, lastf)
                               EXCEPT ![new].errorlevel = -1], firstjob, finished)
    BY DEF NewjobNok
  <1>3. PICK lastq \in LastId(Range(firstjob)),
             lastf \in LastId(Range(first_finished_job)) :
          job' = Sweep([WithNewJob(c, new, "FINISHED", lastq, lastf)
                          EXCEPT ![new].errorlevel = -1], firstjob, finished)
    BY <1>2
  <1>4. PICK t : t = WithNewJob(c, new, "FINISHED", lastq, lastf)
    OBVIOUS
  <1>5. DOMAIN t = JobIds /\ new \notin Range(firstjob)
    BY <1>1, <1>2, <1>4, NewIdUnused DEF WithNewJob
  <1>6. \A x \in Range(firstjob) : x \in JobIds /\ job'[x] = t[x]
    BY <1>1, <1>3, <1>4, <1>5, ListedJobs DEF Sweep
  <1>7. \A x \in Range(firstjob) : SameDeps(t[x], job[x])
    BY <1>1, <1>4, <1>5, <1>6, WithNewJobDeps
  <1>. QED  BY <1>6, <1>7, SameQueueDeps DEF NewjobNok

(* client_read adds no job to the queue but with Newjob.                   *)
LEMMA ClientReadDeps ==
    ASSUME IInv, Protocol, NEW k, ClientRead(k), ~Newjob(k)
    PROVE  DependKept /\ EndTold
  <1>0. TypeOK /\ JobsInv /\ JobsTypeOK /\ JobsInv' /\ ServedEffect
    BY ClientReadJobs DEF IInv, JobsInv
  <1>1. \A x \in JobIds : SameDeps(job[x], job[x])
    BY DEF SameDeps
  <1>2. ASSUME UNCHANGED job, Range(firstjob') = Range(firstjob)
        PROVE  DependKept /\ EndTold
    <2>1. \A x \in Range(firstjob) : x \in JobIds
      BY <1>0, RangeOfSeq DEF JobsTypeOK
    <2>. QED  BY <1>0, <1>1, <1>2, <2>1, SameQueueDeps
  <1>3. CASE EndJob(k) \/ JobClientDisappeared(k)
    <2>1. PICK q \in DOMAIN firstjob, e \in Int, st \in Done : JobFinished(q, e, st)
      <3>1. CASE JobClientDisappeared(k)
        BY <3>1 DEF JobClientDisappeared, InQueue, Done
      <3>2. CASE EndJob(k)
        <4>1. PICK ts : ts = to_server[client_cs[k].socket]
          OBVIOUS
        <4>2. Turn(k) /\ ts # <<>>
          BY <3>2, <4>1 DEF EndJob, Serve
        <4>3. ts \in Seq(ClientMsg)
          BY <4>1, <4>2, TurnFacts
        <4>4. Head(ts) \in ClientMsg
          BY <4>2, <4>3, HeadTailProperties
        <4>. QED  BY <3>2, <4>1, <4>4 DEF EndJob, InQueue, Done, ClientMsg
      <3>. QED  BY <1>3, <3>1, <3>2
    <2>. QED  BY <1>0, <2>1, JobFinishedDeps
  <1>4. CASE MoveUrgent(k) \/ SwapJobs(k)
    <2>1. Quiet /\ UNCHANGED job
      BY <1>0, <1>4, MoveUrgentStep, SwapJobsStep DEF MoveUrgent, SwapJobs
    <2>. QED  BY <1>0, <1>2, <2>1, QueueKept
  <1>5. CASE ClearFinished(k)
    <2>1. \A x \in Range(firstjob) : x \in JobIds /\ job'[x] = job[x]
      BY <1>0, <1>5, RangeOfSeq DEF JobsTypeOK, ClearFinished, Sweep
    <2>. QED  BY <1>0, <1>1, <1>5, <2>1, SameQueueDeps DEF ClearFinished
  <1>6. CASE \/ NewjobNokFault(k) \/ GetLogdir(k) \/ RunjobOk(k)
             \/ ClientDisappeared(k) \/ FinishFault(k) \/ RemoveRefused(k)
             \/ WaitQueued(k) \/ WaitAnswered(k) \/ UrgentRefused(k)
             \/ UrgentFault(k) \/ SwapRefused(k) \/ SetMaxSlots(k)
             \/ KillServer(k) \/ List(k) \/ Query(k)
    <2>1. UNCHANGED <<job, firstjob>>
      BY <1>6 DEF NewjobNokFault, GetLogdir, RunjobOk, ClientDisappeared,
         FinishFault, RemoveRefused, WaitQueued, WaitAnswered, UrgentRefused,
         UrgentFault, SwapRefused, SetMaxSlots, KillServer, List, Query, Die,
         jobsVars, queueVars
    <2>. QED  BY <1>2, <2>1
  <1>. QED  BY <1>0, <1>3, <1>4, <1>5, <1>6, RemoveQueuedDeps,
            RemoveFinishedDeps, NewjobNokDeps DEF ClientRead

-----------------------------------------------------------------------------
(* The hypotheses: the queue is never full, so that no client is held ...  *)
NobodyHeld == HeldJobs = {}

(* ... and -W is not followed by a -d, which would replace its list.       *)
SuccessOfNamed == \A cmd \in CommandLines : cmd.require_elevel => -1 \notin cmd.depend_on

(* The client was told to run its command, and will; or also: told to run  *)
(* it without a failed dependency.                                         *)
Told(c) ==
    \/ pc[c] \in {"wait_logdir", "running"}
    \/ /\ pc[c] \in {"wait_newjob_ok", "wait_server_commands"}
       /\ Coming(c, "RUNJOB")

WillRun(c) ==
    \/ pc[c] \in {"wait_logdir", "running"}
    \/ /\ pc[c] \in {"wait_newjob_ok", "wait_server_commands"}
       /\ \E n \in DOMAIN to_client[c] :
            to_client[c][n].type = "RUNJOB" /\ to_client[c][n].val = 0

(* A job depends on older jobs only.                                       *)
DependOnOlder ==
    \A x \in Range(firstjob) : \A d \in job[x].depend_on : ~(d >= jobids)

(* What a job was told to wait for and is in the queue, it waits for.      *)
Inherited ==
    \A y \in Conns : y.hasjob =>
      Predecessors(y.socket, y.jobid) \cap Range(firstjob)
        \subseteq job[y.jobid].depend_on

(* A running job waits for nothing.                                        *)
StartedInTime ==
    \A x \in JobIds : job[x].state = "RUNNING" =>
                        job[x].depend_on \cap Range(firstjob) = {}

(* Only the client of a running job has been told so.                      *)
ToldRunning ==
    \A y \in Conns : y.hasjob /\ Told(y.socket) => job[y.jobid].state = "RUNNING"

DInv == DependOnOlder /\ Inherited /\ StartedInTime /\ ToldRunning

(* A job of -W that has heard of no failure will hear of the jobs it names *)
(* that are in the queue; the others have ended well.                      *)
WillHear(j, d) == d \in Range(firstjob) /\ j \in job[d].notify_errorlevel_to

Heard ==
    \A y \in Conns :
      /\ y.hasjob /\ command[y.socket].require_elevel
      /\ job[y.jobid].dependency_errorlevel = 0
      => \A d \in Predecessors(y.socket, y.jobid) :
           outcome[d] = {0} \/ WillHear(y.jobid, d)

(* The client of such a job will run its command only after success.       *)
Cleared ==
    \A y \in Conns :
      y.hasjob /\ command[y.socket].require_elevel /\ WillRun(y.socket)
      => \A d \in Predecessors(y.socket, y.jobid) : outcome[d] = {0}

-----------------------------------------------------------------------------
(* A job was submitted after what it depends on.                           *)
LEMMA PredecessorsOlder ==
    ASSUME TypeOK, NEW c \in Clients, NEW j \in JobIds,
           NEW d \in Predecessors(c, j)
    PROVE  d \in JobIds /\ d < j
  <1>1. command[c].depend_on \subseteq Int /\ j \in Int
    BY DEF TypeOK, SocketsTypeOK, CommandLine, JobIds
  <1>. QED  BY <1>1 DEF Predecessors

(* A connection keeps its job and its command line, until the client loses *)
(* its server.                                                             *)
CommandKept(y) == command'[y.socket] \in {command[y.socket], NoCommand}

ConnsKept ==
    \A y \in Conns' : y.hasjob => y \in Conns /\ CommandKept(y)

(* Without a command line there are no predecessors.                       *)
LEMMA SamePredecessors ==
    ASSUME NEW y, CommandKept(y), NEW j
    PROVE  /\ Predecessors(y.socket, j)' \subseteq Predecessors(y.socket, j)
           /\ command'[y.socket].require_elevel =>
                /\ command[y.socket].require_elevel
                /\ Predecessors(y.socket, j)' = Predecessors(y.socket, j)
  <1>1. CASE command'[y.socket] = command[y.socket]
    BY <1>1 DEF Predecessors
  <1>2. CASE command'[y.socket] = NoCommand
    BY <1>2 DEF Predecessors, NoCommand
  <1>. QED  BY <1>1, <1>2 DEF CommandKept

(* A step that keeps the connections and the dependencies.                 *)
LEMMA DependStep ==
    ASSUME IInv, JobsInv', Wired', ConnsKept, DependKept, Effect
    PROVE  /\ DependOnOlder => DependOnOlder'
           /\ Inherited => Inherited'
           /\ StartedInTime /\ NoStart => StartedInTime'
  <1>1. \A y \in Conns' : y.hasjob => y.jobid \in Range(firstjob')
    BY DEF Wired
  <1>2. \A x \in Range(firstjob') :
          x \in Range(firstjob) /\ job'[x].depend_on = job[x].depend_on
    BY DEF DependKept, SameDeps
  <1>3. DependOnOlder => DependOnOlder'
    <2>1. jobids \in Nat /\ (jobids' = jobids \/ jobids' = jobids + 1)
      BY DEF IInv, JobsInv, JobsTypeOK, Effect, ServedEffect, Quiet, Submits,
             Rejects, Ends, Starts
    <2>2. \A x \in Range(firstjob) : \A d \in job[x].depend_on : d \in Int
      <3>1. \A x \in Range(firstjob) : job[x] \in Job
        BY RangeOfSeq DEF IInv, JobsInv, JobsTypeOK
      <3>. QED  BY <3>1 DEF Job
    <2>. QED  BY <1>2, <2>1, <2>2 DEF DependOnOlder
  <1>4. Inherited => Inherited'
    <2>1. SUFFICES ASSUME Inherited, NEW y \in Conns', y.hasjob,
                          NEW d \in Predecessors(y.socket, y.jobid)',
                          d \in Range(firstjob')
                   PROVE  d \in job'[y.jobid].depend_on
      BY DEF Inherited
    <2>2. y \in Conns /\ d \in Predecessors(y.socket, y.jobid)
      BY <2>1, SamePredecessors DEF ConnsKept
    <2>. QED  BY <1>1, <1>2, <2>1, <2>2 DEF Inherited
  <1>5. StartedInTime /\ NoStart => StartedInTime'
    <2>1. \A x \in JobIds : job'[x].state = "RUNNING" => x \in Range(firstjob')
      BY DEF JobsInv, QueueConsistent, Consistent, Live
    <2>. QED  BY <1>2, <2>1 DEF StartedInTime, NoStart
  <1>. QED  BY <1>3, <1>4, <1>5

(* ... and the news.                                                       *)
LEMMA HeardStep ==
    ASSUME JobsInv, Wired', ConnsKept, DependKept, EndTold, OutcomesStay, Heard
    PROVE  Heard'
  <1>1. SUFFICES ASSUME NEW y \in Conns', y.hasjob,
                        command'[y.socket].require_elevel,
                        job'[y.jobid].dependency_errorlevel = 0,
                        NEW d \in Predecessors(y.socket, y.jobid)',
                        outcome'[d] # {0}
                 PROVE  WillHear(y.jobid, d)'
    BY DEF Heard
  <1>2. /\ y \in Conns /\ y.jobid \in Range(firstjob')
        /\ command[y.socket].require_elevel
        /\ d \in Predecessors(y.socket, y.jobid) /\ d \in JobIds
    BY <1>1, SamePredecessors DEF ConnsKept, Wired, Predecessors
  <1>3. job[y.jobid].dependency_errorlevel = 0 /\ outcome[d] # {0}
    BY <1>1, <1>2 DEF DependKept, SameDeps, OutcomesStay
  <1>4. d \in Range(firstjob) /\ y.jobid \in job[d].notify_errorlevel_to
    BY <1>1, <1>2, <1>3 DEF Heard, WillHear
  <1>5. d \in Range(firstjob')
    BY <1>1, <1>2, <1>4 DEF EndTold
  <1>. QED  BY <1>4, <1>5 DEF DependKept, SameDeps, WillHear

-----------------------------------------------------------------------------
(* The steps of the clients.                                               *)

(* A client is told nothing by its own steps, and stays told.              *)
LEMMA OwnStepTold ==
    ASSUME TypeOK, NEW c \in Clients,
           \/ ClientProcess(c) \/ Killed(c)
           \/ \E cmd \in CommandLines : Connect(c, cmd)
    PROVE  /\ Told(c)' => Told(c)
           /\ WillRun(c)' /\ command'[c].require_elevel =>
                WillRun(c) \/ command'[c].depend_on = {}
  <1>0. to_client[c] \in Seq(ServerMsg) /\ pc[c] \in ClientStates
    BY DEF TypeOK, SocketsTypeOK
  <1>1. CASE \/ NewjobRejected(c) \/ ReceiveAnswer(c) \/ EndOfJob(c)
             \/ EndOfSkippedJob(c) \/ ConnectionClosed(c) \/ Killed(c)
    <2>1. Exit(c)
      BY <1>1 DEF NewjobRejected, ReceiveAnswer, EndOfJob, EndOfSkippedJob,
         ConnectionClosed, Killed
    <2>2. pc'[c] \in {"closed", "idle"}
      BY <2>1 DEF Exit, TypeOK, SocketsTypeOK
    <2>. QED  BY <2>2 DEF Told, WillRun
  <1>2. CASE \E cmd \in CommandLines : Connect(c, cmd)
    <2>1. /\ pc'[c] \in {"wait_newjob_ok", "closed", "wait_answer"}
          /\ to_client'[c] = <<>>
      BY <1>2 DEF Connect, TypeOK, SocketsTypeOK
    <2>2. DOMAIN to_client'[c] = {}
      BY <2>1, EmptySeq
    <2>. QED  BY <2>1, <2>2 DEF Told, WillRun, Coming
  <1>3. CASE WaitNewjobOk(c)
    <2>1. PICK tc : tc = to_client[c]
      OBVIOUS
    <2>2. /\ pc[c] = "wait_newjob_ok" /\ pc'[c] = "wait_server_commands"
          /\ to_client'[c] = Tail(tc) /\ tc \in Seq(ServerMsg) /\ tc # <<>>
      BY <1>0, <1>3, <2>1 DEF WaitNewjobOk, Receive, TypeOK, SocketsTypeOK
    <2>3. \A n \in DOMAIN Tail(tc) : \E m \in DOMAIN tc : Tail(tc)[n] = tc[m]
      <3>1. /\ Len(tc) \in Nat /\ DOMAIN tc = 1 .. Len(tc)
            /\ Tail(tc) \in Seq(ServerMsg) /\ Len(Tail(tc)) = Len(tc) - 1
            /\ \A m \in 1 .. (Len(tc) - 1) : Tail(tc)[m] = tc[m + 1]
        BY <2>2, HeadTailProperties, LenProperties
      <3>2. DOMAIN Tail(tc) = 1 .. (Len(tc) - 1)
        BY <3>1, LenProperties
      <3>. QED  BY <3>1, <3>2
    <2>. QED  BY <2>1, <2>2, <2>3 DEF Told, WillRun, Coming
  <1>4. CASE Runjob(c)
    <2>1. PICK tc : tc = to_client[c]
      OBVIOUS
    <2>2. /\ pc[c] = "wait_server_commands" /\ tc # <<>> /\ tc \in Seq(ServerMsg)
          /\ Head(tc).type = "RUNJOB" /\ command' = command
          /\ command[c].require_elevel => \/ command[c].depend_on = {}
                                         \/ Head(tc).val = 0
      BY <1>0, <1>4, <2>1 DEF Runjob, Receive, Skips
    <2>3. 1 \in DOMAIN tc /\ tc[1] = Head(tc)
      BY <2>2, HeadTailProperties, LenProperties, EmptySeq
    <2>4. Told(c)
      BY <2>1, <2>2, <2>3 DEF Told, Coming
    <2>5. command[c].require_elevel => WillRun(c) \/ command[c].depend_on = {}
      BY <2>1, <2>2, <2>3 DEF WillRun
    <2>. QED  BY <2>2, <2>4, <2>5
  <1>5. CASE RunjobSkip(c)
    <2>1. pc'[c] = "skipped"
      BY <1>5 DEF RunjobSkip, Receive, TypeOK, SocketsTypeOK
    <2>. QED  BY <2>1 DEF Told, WillRun
  <1>6. CASE RunChild(c)
    BY <1>6 DEF RunChild, Told, WillRun
  <1>. QED  BY <1>1, <1>2, <1>3, <1>4, <1>5, <1>6 DEF ClientProcess

(* Whoever types a new command has no job.                                 *)
LEMMA ClientConnsKept ==
    ASSUME IInv, PInv, NEW c \in Clients,
           \/ ClientProcess(c) \/ Killed(c)
           \/ \E cmd \in CommandLines : Connect(c, cmd)
    PROVE  ConnsKept
  <1>0. TypeOK
    BY DEF IInv
  <1>1. Conns' = Conns
    BY ClientsLeaveTables DEF Conns
  <1>2. ASSUME NEW y \in Conns, y.hasjob
        PROVE  CommandKept(y)
    <2>1. CASE y.socket # c
      <3>1. y.socket \in Clients \ {c}
        BY <1>0, <2>1, ConnsType
      <3>. QED  BY <1>0, <3>1, OtherClients DEF CommandKept
    <2>2. CASE y.socket = c /\ \E cmd \in CommandLines : Connect(c, cmd)
      <3>1. pc[c] = "idle" /\ server = "up"
        BY <2>2 DEF Connect
      <3>2. JobLink(pc[c], to_server[c], to_client[c], job[y.jobid].state)
        BY <1>2, <2>2, <3>1 DEF PInv, Protocol, Linked, Link
      <3>. QED  BY <3>1, <3>2
                DEF JobLink, HoldingLink, QueuedLink, RunningLink
    <2>3. CASE y.socket = c /\ (ClientProcess(c) \/ Killed(c))
      <3>1. CASE WaitNewjobOk(c) \/ Runjob(c) \/ RunjobSkip(c) \/ RunChild(c)
        BY <2>3, <3>1 DEF WaitNewjobOk, Runjob, RunjobSkip, RunChild, Receive,
           CommandKept
      <3>2. CASE \/ NewjobRejected(c) \/ ReceiveAnswer(c) \/ EndOfJob(c)
                 \/ EndOfSkippedJob(c) \/ ConnectionClosed(c) \/ Killed(c)
        <4>1. Exit(c)
          BY <3>2 DEF NewjobRejected, ReceiveAnswer, EndOfJob,
             EndOfSkippedJob, ConnectionClosed, Killed
        <4>. QED  BY <1>0, <2>3, <4>1 DEF Exit, CommandKept, TypeOK, SocketsTypeOK
      <3>. QED  BY <2>3, <3>1, <3>2 DEF ClientProcess
    <2>. QED  BY <2>1, <2>2, <2>3
  <1>. QED  BY <1>1, <1>2 DEF ConnsKept

(* A step of a client.                                                     *)
LEMMA ClientDepends ==
    ASSUME IInv, PInv, PInv', DInv, NEW c \in Clients,
           \/ ClientProcess(c) \/ Killed(c)
           \/ \E cmd \in CommandLines : Connect(c, cmd)
    PROVE  /\ DInv'
           /\ Heard /\ Cleared => Heard' /\ Cleared'
  <1>0. TypeOK /\ ConnsKept
    BY ClientConnsKept DEF IInv
  <1>1. /\ UNCHANGED <<job, firstjob, jobids, outcome, client_cs>>
        /\ Conns' = Conns
    BY ClientsLeaveTables DEF Conns, jobsVars, queueVars
  <1>2. \A y \in Conns : y.hasjob => CommandKept(y)
    BY <1>0, <1>1 DEF ConnsKept
  <1>3. DependOnOlder' /\ StartedInTime'
    BY <1>1 DEF DInv, DependOnOlder, StartedInTime
  <1>4. Inherited'
    BY <1>1, <1>2, SamePredecessors DEF DInv, Inherited
  <1>5. ASSUME NEW y \in Conns, y.hasjob
        PROVE  /\ Told(y.socket)' => Told(y.socket)
               /\ WillRun(y.socket)' /\ command'[y.socket].require_elevel =>
                    WillRun(y.socket) \/ command'[y.socket].depend_on = {}
    <2>1. PICK s : s = y.socket
      OBVIOUS
    <2>2. s \in Clients
      BY <1>0, <1>5, <2>1, ConnsType
    <2>3. CASE s = c
      BY <1>0, <2>1, <2>3, OwnStepTold
    <2>4. CASE s # c
      <3>1. pc'[s] = pc[s] /\ to_client'[s] = to_client[s]
        BY <1>0, <2>2, <2>4, OtherClients
      <3>. QED  BY <2>1, <3>1 DEF Told, WillRun, Coming
    <2>. QED  BY <2>3, <2>4
  <1>6. ToldRunning'
    BY <1>1, <1>5 DEF DInv, ToldRunning
  <1>7. Heard => Heard'
    BY <1>1, <1>2, SamePredecessors DEF Heard, WillHear
  <1>8. Cleared => Cleared'
    <2>1. SUFFICES ASSUME Cleared, NEW y \in Conns, y.hasjob,
                          command'[y.socket].require_elevel, WillRun(y.socket)',
                          NEW d \in Predecessors(y.socket, y.jobid)'
                   PROVE  outcome[d] = {0}
      BY <1>1 DEF Cleared
    <2>2. command'[y.socket].depend_on # {}
      BY <2>1 DEF Predecessors
    <2>3. WillRun(y.socket)
      BY <1>5, <2>1, <2>2
    <2>. QED  BY <1>2, <2>1, <2>3, SamePredecessors DEF Cleared
  <1>. QED  BY <1>3, <1>4, <1>6, <1>7, <1>8 DEF DInv

-----------------------------------------------------------------------------
(* The steps of the server.                                                *)

(* Who has been told is in the protocol.                                   *)
LEMMA LinkedTold ==
    ASSUME TypeOK, Linked
    PROVE  ToldRunning
  <1>1. SUFFICES ASSUME NEW y \in Conns, y.hasjob, Told(y.socket)
                 PROVE  job[y.jobid].state = "RUNNING"
    BY DEF ToldRunning
  <1>2. PICK c, tc, st : /\ c = y.socket /\ tc = to_client[c]
                         /\ st = job[y.jobid].state
    OBVIOUS
  <1>3. c \in Clients /\ tc \in Seq(ServerMsg) /\ JobLink(pc[c], to_server[c], tc, st)
    BY <1>1, <1>2, ConnsType DEF TypeOK, SocketsTypeOK, Linked, Link
  <1>4. Coming(c, "RUNJOB") <=> "RUNJOB" \in Types(tc)
    BY <1>2 DEF Coming, Types
  <1>5. /\ tc = <<>> => Types(tc) = {}
        /\ \A t : One(tc, t) => Types(tc) = {t}
    BY <1>3, StreamTypes
  <1>. QED  BY <1>1, <1>2, <1>3, <1>4, <1>5
            DEF JobLink, HoldingLink, QueuedLink, Told

(* No handler sends RUNJOB.                                                *)
LEMMA NoRunjob ==
    ASSUME NEW k, ClientRead(k),
           ~(NewjobNokFault(k) \/ FinishFault(k) \/ UrgentFault(k))
    PROVE  \E out, S : /\ Served(k, out, S)
                       /\ \A c \in DOMAIN out : out[c].type # "RUNJOB"
  <1>1. CASE WaitAnswered(k)
    <2>1. PICK v : \/ Served(k, To(client_cs[k].socket, Reply("WAITJOB_OK", v)), {})
                   \/ Served(k, To(client_cs[k].socket, Reply("LIST_LINE", 0)), {})
      BY <1>1 DEF WaitAnswered
    <2>2. \A c, m : m.type # "RUNJOB" =>
            \A d \in DOMAIN To(c, m) : To(c, m)[d].type # "RUNJOB"
      BY DEF To
    <2>3. Reply("WAITJOB_OK", v).type # "RUNJOB" /\ Reply("LIST_LINE", 0).type # "RUNJOB"
      BY DEF Reply
    <2>. QED  BY <2>1, <2>2, <2>3
  <1>2. CASE EndJob(k) \/ JobClientDisappeared(k)
    <2>1. PICK j, e, S : Served(k, WaitjobOk(j, e), S)
      BY <1>2 DEF EndJob, JobClientDisappeared
    <2>2. \A c \in DOMAIN WaitjobOk(j, e) : WaitjobOk(j, e)[c].type # "RUNJOB"
      BY DEF WaitjobOk, Reply
    <2>. QED  BY <2>1, <2>2
  <1>3. CASE ~(WaitAnswered(k) \/ EndJob(k) \/ JobClientDisappeared(k))
    <2>1. PICK out, S : Served(k, out, S) /\ OtherAnswer(out)
      BY <1>3, OtherAnswers DEF ClientRead
    <2>2. \A c \in DOMAIN out : out[c].type # "RUNJOB"
      <3>1. CASE out = Nothing
        BY <3>1, ToWhom
      <3>2. ASSUME NEW c,
                   NEW type \in {"NEWJOB_OK", "NEWJOB_NOK", "LOGDIR", "ANSWER",
                                 "LIST_LINE"},
                   out = To(c, Reply(type, 0))
            PROVE  \A d \in DOMAIN out : out[d].type # "RUNJOB"
        BY <3>2 DEF To, Reply
      <3>. QED  BY <2>1, <3>1, <3>2 DEF OtherAnswer
    <2>. QED  BY <2>1, <2>2
  <1>. QED  BY <1>1, <1>2, <1>3

(* So nobody will run a command because of one.                            *)
LEMMA ServedRuns ==
    ASSUME TypeOK, NEW k, NEW out, NEW S, Served(k, out, S),
           \A c \in DOMAIN out : out[c].type # "RUNJOB",
           NEW c \in Clients, WillRun(c)'
    PROVE  WillRun(c)
  <1>1. pc'[c] \in {pc[c], "idle"}
    BY DEF Served, CloseSockets
  <1>2. PICK tc, m : tc = to_client[c] /\ m = out[c]
    OBVIOUS
  <1>3. tc \in Seq(ServerMsg)
    BY <1>2 DEF TypeOK, SocketsTypeOK
  <1>4. \/ to_client'[c] = tc
        \/ to_client'[c] = Append(tc, m) /\ m.type # "RUNJOB"
    BY <1>2 DEF Served, SendMsg
  <1>5. \A n \in DOMAIN Append(tc, m) :
          (n \in DOMAIN tc /\ Append(tc, m)[n] = tc[n]) \/ Append(tc, m)[n] = m
    BY <1>3, LenProperties
  <1>. QED  BY <1>1, <1>2, <1>4, <1>5 DEF WillRun

(* No handler gives a connection a job, except Newjob.                     *)
LEMMA ClientReadConns ==
    ASSUME IInv, Wired, NEW k, ClientRead(k), ~Newjob(k)
    PROVE  ConnsKept
  <1>0. /\ client_cs \in Seq(Connection) /\ IsInjective(client_cs)
        /\ k \in DOMAIN client_cs
    BY ServingTurn DEF IInv, TypeOK, ConnectionsTypeOK, Wired, Turn
  <1>1. \A y \in Conns' : y.hasjob => y \in Conns
    <2>1. CASE \E n \in DOMAIN client_cs : client_cs' = RemoveAt(client_cs, n)
      BY <1>0, <2>1, RemoveAtInjective DEF Conns
    <2>2. CASE EndJob(k)
      <3>1. PICK z : z = [client_cs[k] EXCEPT !.hasjob = FALSE]
        OBVIOUS
      <3>2. z.hasjob = FALSE
        BY <1>0, <3>1 DEF Connection
      <3>3. client_cs' = [client_cs EXCEPT ![k] = z]
        BY <2>2, <3>1 DEF EndJob, ForgetJob
      <3>4. \A n \in DOMAIN client_cs' :
              n \in DOMAIN client_cs /\ client_cs'[n] \in {z, client_cs[n]}
        BY <3>3
      <3>. QED  BY <3>2, <3>4 DEF Conns, Range
    <2>3. CASE \/ NewjobNok(k) \/ JobClientDisappeared(k) \/ ClientDisappeared(k)
               \/ List(k) \/ RemoveQueued(k)
      BY <1>0, <2>1, <2>3 DEF NewjobNok, JobClientDisappeared,
         ClientDisappeared, List, RemoveQueued, ConnOf
    <2>4. CASE \/ NewjobNokFault(k) \/ GetLogdir(k) \/ RunjobOk(k)
               \/ FinishFault(k) \/ RemoveFinished(k) \/ RemoveRefused(k)
               \/ WaitQueued(k) \/ WaitAnswered(k) \/ MoveUrgent(k)
               \/ UrgentRefused(k) \/ UrgentFault(k) \/ SwapJobs(k)
               \/ SwapRefused(k) \/ ClearFinished(k) \/ SetMaxSlots(k)
               \/ KillServer(k) \/ Query(k)
      BY <2>4 DEF NewjobNokFault, GetLogdir, RunjobOk, FinishFault,
         RemoveFinished, RemoveRefused, WaitQueued, WaitAnswered, MoveUrgent,
         UrgentRefused, UrgentFault, SwapJobs, SwapRefused, ClearFinished,
         SetMaxSlots, KillServer, Query, Die, Conns
    <2>. QED  BY <2>2, <2>3, <2>4 DEF ClientRead
  <1>2. ASSUME NEW y \in Conns' PROVE y.hasjob => CommandKept(y)
    <2>1. CASE NewjobNokFault(k) \/ FinishFault(k) \/ UrgentFault(k)
      BY <2>1 DEF NewjobNokFault, FinishFault, UrgentFault, Die, socketVars,
         CommandKept
    <2>2. CASE ~(NewjobNokFault(k) \/ FinishFault(k) \/ UrgentFault(k))
      <3>1. PICK out, S : Served(k, out, S)
        BY <2>2, NoRunjob
      <3>2. ASSUME y.hasjob PROVE y.socket \in Clients
        BY <1>1, <3>2, ConnsType DEF IInv
      <3>. QED  BY <3>1, <3>2, ServedWaits DEF CommandKept
    <2>. QED  BY <2>1, <2>2
  <1>. QED  BY <1>1, <1>2 DEF ConnsKept

(* client_read, for the jobs that are there.                               *)
LEMMA ClientReadDepends ==
    ASSUME IInv, Protocol, Protocol', TypeOK', DInv, NoResultYet,
           NEW k, ClientRead(k), ~Newjob(k)
    PROVE  /\ DInv'
           /\ Heard /\ Cleared => Heard' /\ Cleared'
  <1>1. JobsInv' /\ NoStart /\ Effect /\ JobsInv /\ TypeOK
    BY ClientReadJobs DEF Effect, IInv
  <1>2. ConnsKept /\ DependKept /\ EndTold /\ OutcomesStay /\ Wired'
    BY <1>1, ClientReadConns, ClientReadDeps, OutcomeStays DEF Protocol
  <1>3. ToldRunning'
    BY LinkedTold, PTL DEF Protocol
  <1>4. DInv'
    BY <1>1, <1>2, <1>3, DependStep DEF DInv
  <1>5. Heard => Heard'
    BY <1>1, <1>2, HeardStep
  <1>6. Cleared => Cleared'
    <2>1. SUFFICES ASSUME Cleared, NEW y \in Conns', y.hasjob,
                          command'[y.socket].require_elevel, WillRun(y.socket)',
                          NEW d \in Predecessors(y.socket, y.jobid)'
                   PROVE  outcome'[d] = {0}
      BY DEF Cleared
    <2>2. /\ y \in Conns /\ command[y.socket].require_elevel
          /\ d \in Predecessors(y.socket, y.jobid) /\ d \in JobIds
      <3>1. d \in JobIds
        BY <2>1 DEF Predecessors
      <3>2. y \in Conns /\ CommandKept(y)
        BY <1>2, <2>1 DEF ConnsKept
      <3>. QED  BY <2>1, <3>1, <3>2, SamePredecessors
    <2>3. PICK s : s = y.socket
      OBVIOUS
    <2>4. s \in Clients
      BY <1>1, <2>2, <2>3, ConnsType
    <2>5. WillRun(s)
      <3>1. CASE NewjobNokFault(k) \/ FinishFault(k) \/ UrgentFault(k)
        BY <2>1, <2>3, <3>1 DEF NewjobNokFault, FinishFault, UrgentFault, Die,
           socketVars, WillRun
      <3>2. CASE ~(NewjobNokFault(k) \/ FinishFault(k) \/ UrgentFault(k))
        BY <1>1, <2>1, <2>3, <2>4, <3>2, NoRunjob, ServedRuns
      <3>. QED  BY <3>1, <3>2
    <2>. QED  BY <1>2, <2>1, <2>2, <2>3, <2>5 DEF Cleared, OutcomesStay
  <1>. QED  BY <1>4, <1>5, <1>6

(* StartJob: the job that is started waits for nothing, since nobody is    *)
(* held, and its client hears what the job has heard.                      *)
LEMMA StartJobDepends ==
    ASSUME IInv, Protocol, Protocol', TypeOK', NobodyHeld, DInv, StartJob
    PROVE  /\ DInv'
           /\ Heard /\ Cleared => Heard' /\ Cleared'
  <1>0. /\ TypeOK /\ JobsInv /\ JobsTypeOK /\ JobsInv' /\ Wired /\ Wired'
        /\ \E j \in JobIds : Starts(j)
    BY StartJobStep DEF IInv, JobsInv, Protocol
  <1>1. PICK q \in NextRunJob, n \in DOMAIN client_cs :
          /\ n \in ConnOf(firstjob[q])
          /\ job' = [x \in JobIds |->
               IF x = firstjob[q] THEN [job[x] EXCEPT !.state = "RUNNING"]
               ELSE IF x \in HeldJobs
               THEN [job[x] EXCEPT !.state = "QUEUED"] ELSE job[x]]
          /\ SendMsg([c \in HeldClients \cup {client_cs[n].socket} |->
               IF c = client_cs[n].socket
               THEN Reply("RUNJOB", job[firstjob[q]].dependency_errorlevel)
               ELSE Reply("NEWJOB_OK", 0)])
    BY DEF StartJob, ConnOf
  <1>2. PICK j, s, m :
          /\ j = firstjob[q] /\ s = client_cs[n].socket
          /\ m = Reply("RUNJOB", job[j].dependency_errorlevel)
    OBVIOUS
  <1>3. /\ UNCHANGED <<firstjob, client_cs, pc, command, outcome, jobids>>
        /\ Conns' = Conns
    BY DEF StartJob, LoopAgain, Conns
  <1>4. /\ j \in JobIds /\ j \in Range(firstjob)
        /\ \A d \in job[j].depend_on \cap JobIds :
             job[d].state \notin {"QUEUED", "RUNNING"}
    BY <1>0, <1>1, <1>2, LenProperties
       DEF NextRunJob, Runnable, JobsTypeOK, Range
  <1>5. job[j].depend_on \cap Range(firstjob) = {}
    <2>1. \A d \in Range(firstjob) : d \in JobIds /\ job[d].state \in Live
      BY <1>0, ListedJobs DEF JobsInv
    <2>2. \A d \in JobIds : job[d].state # "HOLDING_CLIENT"
      BY DEF NobodyHeld, HeldJobs
    <2>. QED  BY <1>4, <2>1, <2>2 DEF Live
  <1>6. \A x \in JobIds : job'[x] = IF x = j THEN [job[x] EXCEPT !.state = "RUNNING"]
                                    ELSE job[x]
    BY <1>1, <1>2 DEF NobodyHeld
  <1>7. \A x \in JobIds : SameDeps(job'[x], job[x])
    <2>1. \A r \in Job : LET t == [r EXCEPT !.state = "RUNNING"]
                         IN  SameDeps(t, r) /\ SameDeps(r, r)
      BY DEF Job, SameDeps
    <2>2. \A x \in JobIds : job[x] \in Job
      BY <1>0 DEF JobsTypeOK
    <2>. QED  BY <1>6, <2>1, <2>2
  <1>8. DependKept /\ EndTold
    <2>1. \A x \in Range(firstjob) : x \in JobIds
      BY <1>0, RangeOfSeq DEF JobsTypeOK
    <2>. QED  BY <1>0, <1>3, <1>7, <2>1, SameQueueDeps
  <1>9. ConnsKept /\ OutcomesStay /\ Effect
    BY <1>0, <1>3 DEF ConnsKept, CommandKept, OutcomesStay, Effect
  <1>10. ToldRunning'
    BY LinkedTold, PTL DEF Protocol
  <1>11. StartedInTime'
    <2>1. SUFFICES ASSUME NEW x \in JobIds, job'[x].state = "RUNNING"
                   PROVE  job'[x].depend_on \cap Range(firstjob) = {}
      BY <1>3 DEF StartedInTime
    <2>2. job'[x].depend_on = job[x].depend_on
      BY <1>7 DEF SameDeps
    <2>3. CASE x = j
      BY <1>5, <2>2, <2>3
    <2>4. CASE x # j
      BY <1>6, <2>1, <2>2, <2>4 DEF DInv, StartedInTime
    <2>. QED  BY <2>3, <2>4
  <1>12. DInv'
    BY <1>0, <1>8, <1>9, <1>10, <1>11, DependStep DEF DInv
  <1>13. Heard => Heard'
    BY <1>0, <1>8, <1>9, HeardStep
  <1>14. Heard /\ Cleared => Cleared'
    <2>1. SUFFICES ASSUME Heard, Cleared, NEW y \in Conns, y.hasjob,
                          command[y.socket].require_elevel, WillRun(y.socket)',
                          NEW d \in Predecessors(y.socket, y.jobid)
                   PROVE  outcome[d] = {0}
      BY <1>3 DEF Cleared, Predecessors
    <2>2. CASE WillRun(y.socket)
      BY <2>1, <2>2 DEF Cleared
    <2>3. CASE ~WillRun(y.socket)
      <3>1. PICK c, tc, out : /\ c = y.socket /\ tc = to_client[c]
              /\ out = IF c = s THEN m ELSE Reply("NEWJOB_OK", 0)
        OBVIOUS
      <3>2. c \in Clients /\ tc \in Seq(ServerMsg)
        BY <1>0, <2>1, <3>1, ConnsType DEF TypeOK, SocketsTypeOK
      <3>3. to_client'[c] = tc \/ to_client'[c] = Append(tc, out)
        <4>1. \/ to_client'[c] = to_client[c]
              \/ to_client'[c] = Append(to_client[c],
                    IF c = s THEN m ELSE Reply("NEWJOB_OK", 0))
          BY <1>1, <1>2, <3>2 DEF SendMsg
        <4>. QED  BY <3>1, <4>1
      <3>4. \A e \in DOMAIN Append(tc, out) :
              \/ e \in DOMAIN tc /\ Append(tc, out)[e] = tc[e]
              \/ Append(tc, out)[e] = out
        BY <3>2, LenProperties
      <3>5. out.type = "RUNJOB" /\ out.val = 0
        <4>1. WillRun(c)' /\ ~WillRun(c) /\ pc'[c] = pc[c]
          BY <1>3, <2>1, <2>3, <3>1
        <4>2. PICK tc2 : tc2 = to_client'[c]
          OBVIOUS
        <4>3. \/ pc[c] \in {"wait_logdir", "running"}
              \/ /\ pc[c] \in {"wait_newjob_ok", "wait_server_commands"}
                 /\ \E e \in DOMAIN tc2 : tc2[e].type = "RUNJOB" /\ tc2[e].val = 0
          BY <4>1, <4>2 DEF WillRun
        <4>4. PICK e \in DOMAIN tc2 : tc2[e].type = "RUNJOB" /\ tc2[e].val = 0
          BY <4>1, <4>3 DEF WillRun
        <4>5. ~(e \in DOMAIN tc /\ tc2[e] = tc[e])
          BY <3>1, <4>1, <4>3, <4>4 DEF WillRun
        <4>. QED  BY <3>3, <3>4, <4>2, <4>4, <4>5
      <3>6. c = s /\ job[j].dependency_errorlevel = 0
        BY <1>2, <3>1, <3>5 DEF Reply
      <3>7. y.jobid = j
        <4>1. client_cs[n] \in Conns /\ client_cs[n].jobid = j
          BY <1>1, <1>2 DEF ConnOf, Conns, Range
        <4>2. PICK x : x = client_cs[n]
          OBVIOUS
        <4>3. x \in Conns /\ x.socket = y.socket /\ x.jobid = j
          BY <1>2, <3>1, <3>6, <4>1, <4>2
        <4>4. \A u, v \in Conns : u.socket = v.socket => u = v
          BY <1>0 DEF Wired
        <4>5. x = y
          BY <2>1, <4>3, <4>4
        <4>. QED  BY <4>3, <4>5
      <3>8. d \notin Range(firstjob)
        BY <1>5, <2>1, <3>7 DEF DInv, Inherited
      <3>. QED  BY <2>1, <3>6, <3>7, <3>8 DEF Heard, WillHear
    <2>. QED  BY <2>2, <2>3
  <1>. QED  BY <1>12, <1>13, <1>14

(* What the record of a new job says about its dependencies.               *)
LEMMA NewJobDependsOn ==
    ASSUME JobsTypeOK, QueueConsistent, LastEnded, jobids \in JobIds,
           NEW c \in CommandLine,
           NEW lastq \in LastId(Range(firstjob)),
           NEW lastf \in LastId(Range(first_finished_job))
    PROVE  /\ \A d \in DependOn(c, jobids, lastq, lastf) : ~(d >= jobids)
           /\ \A d \in {x \in c.depend_on : x < jobids} :
                /\ d # -1 => d \in DependOn(c, jobids, lastq, lastf)
                /\ d = -1 /\ jobids - 1 \in Range(firstjob) =>
                     jobids - 1 \in DependOn(c, jobids, lastq, lastf)
  <1>1. /\ \A x \in Range(firstjob) \cup Range(first_finished_job) :
             x \in Nat /\ x < jobids
        /\ jobids \in Nat /\ c.depend_on \subseteq Int
    <2>1. \A x \in JobIds : x \in Nat
      BY DEF JobIds
    <2>2. jobids \in Nat /\ c.depend_on \subseteq Int
      BY DEF JobsTypeOK, CommandLine
    <2>3. \A x \in Range(firstjob) \cup Range(first_finished_job) :
            x \in JobIds /\ ~(x >= jobids)
      BY ListedJobs
    <2>4. \A x \in Nat : ~(x >= jobids) => x < jobids
      BY <2>2
    <2>. QED  BY <2>1, <2>2, <2>3, <2>4
  <1>2. /\ lastq \in Int /\ lastq < jobids
        /\ lastf \in Int /\ lastf < jobids
        /\ \A x \in Range(firstjob) : lastq \in Range(firstjob) /\ x <= lastq
    BY <1>1 DEF LastId
  <1>3. \A d \in DependOn(c, jobids, lastq, lastf) : ~(d >= jobids)
    BY <1>1, <1>2 DEF DependOn
  <1>4. ASSUME NEW d \in {x \in c.depend_on : x < jobids}, d # -1
        PROVE  d \in DependOn(c, jobids, lastq, lastf)
    BY <1>4 DEF DependOn
  <1>5. ASSUME -1 \in c.depend_on, jobids - 1 \in Range(firstjob)
        PROVE  jobids - 1 \in DependOn(c, jobids, lastq, lastf)
    <2>1. lastq = jobids - 1
      BY <1>1, <1>2, <1>5
    <2>2. LastIsQueued(lastq)
      BY <1>1, <1>5, <2>1 DEF LastIsQueued, LastEnded, JobsTypeOK
    <2>3. -1 < jobids
      BY <1>1
    <2>. QED  BY <1>5, <2>1, <2>2, <2>3 DEF DependOn
  <1>. QED  BY <1>3, <1>4, <1>5

(* ... and about the results that were there.                              *)
LEMMA NewJobHeard ==
    ASSUME JobsTypeOK, Recorded, NEW c, NEW new, -1 \notin c.depend_on,
           NEW lastq, NEW lastf, ~DependencyFailed(c, new, lastq, lastf),
           NEW d \in {x \in c.depend_on : x < new}
    PROVE  d \in Range(firstjob) \/ outcome[d] = {0}
  <1>1. d # -1
    OBVIOUS
  <1>. QED  BY <1>1 DEF DependencyFailed, Recorded

(* Newjob: the new job is told of what ended, and the queued jobs it names *)
(* will tell it how they end.                                              *)
LEMMA NewjobDepends ==
    ASSUME IInv, JobsInv', Protocol, Protocol', TypeOK', DInv,
           LastEnded, Recorded, NEW k, Newjob(k)
    PROVE  /\ DInv'
           /\ SuccessOfNamed /\ OnlyTyped /\ Heard /\ Cleared =>
                Heard' /\ Cleared'
  <1>0. /\ TypeOK /\ JobsTypeOK /\ QueueConsistent /\ JobsInv /\ Wired /\ Wired'
        /\ Turn(k)
    BY ServingTurn DEF IInv, JobsInv, Protocol, ClientRead
  <1>1. PICK s, new, c, y0 :
          /\ s = client_cs[k].socket /\ new = jobids /\ c = command[s]
          /\ y0 = [socket |-> s, hasjob |-> TRUE, jobid |-> new]
    OBVIOUS
  <1>2. /\ new \in JobIds /\ new \notin Range(firstjob) /\ s \in Clients
        /\ c \in CommandLine /\ jobids' = new + 1
        /\ UNCHANGED <<outcome, command>>
        /\ firstjob' = Append(firstjob, new)
        /\ client_cs' = [client_cs EXCEPT ![k] = y0]
        /\ k \in DOMAIN client_cs
    <2>1. s \in Clients /\ k \in DOMAIN client_cs
      BY <1>0, <1>1, TurnFacts
    <2>2. new \in JobIds
      BY <1>1 DEF Newjob
    <2>3. c \in CommandLine
      BY <1>0, <1>1, <2>1 DEF TypeOK, SocketsTypeOK
    <2>4. UNCHANGED command
      BY <1>0 DEF Newjob, Served, CloseSockets, TypeOK, SocketsTypeOK
    <2>. QED  BY <1>0, <1>1, <2>1, <2>2, <2>3, <2>4, NewIdUnused DEF Newjob
  <1>3. Range(firstjob') = Range(firstjob) \cup {new}
    BY <1>0, <1>2, AppendIsInjective DEF JobsTypeOK, QueueConsistent, Consistent
  <1>4. PICK st \in {"QUEUED", "HOLDING_CLIENT"},
             lastq \in LastId(Range(firstjob)),
             lastf \in LastId(Range(first_finished_job)) :
          job' = WithNewJob(c, new, st, lastq, lastf)
    BY <1>1 DEF Newjob
  <1>5. \A x \in JobIds \ {new} :
          /\ SameDeps(job'[x], job[x])
          /\ job'[x].state = job[x].state
          /\ x \in DependOn(c, new, lastq, lastf) \cap Range(firstjob) =>
               new \in job'[x].notify_errorlevel_to
    <2>1. st \in Live \cup Done /\ new = jobids
      BY <1>1 DEF Live
    <2>2. \A x \in JobIds \ {new} : job'[x].state = job[x].state
      BY <1>0, <1>2, <1>4, <2>1, WithNewJobTable
    <2>. QED  BY <1>0, <1>4, <2>2, WithNewJobDeps
  <1>6. /\ job'[new].depend_on = DependOn(c, new, lastq, lastf)
        /\ job'[new].dependency_errorlevel = 0 =>
             ~DependencyFailed(c, new, lastq, lastf)
        /\ job'[new].state # "RUNNING"
    BY <1>2, <1>4 DEF WithNewJob
  <1>7. /\ \A d \in DependOn(c, new, lastq, lastf) : ~(d >= new)
        /\ \A d \in {x \in c.depend_on : x < new} :
             /\ d # -1 => d \in DependOn(c, new, lastq, lastf)
             /\ d = -1 /\ new - 1 \in Range(firstjob) =>
                  new - 1 \in DependOn(c, new, lastq, lastf)
    BY <1>0, <1>1, <1>2, NewJobDependsOn
  <1>8. \A y \in Conns' : y = y0 \/ y \in Conns
    <2>1. \A n \in DOMAIN client_cs' :
            n \in DOMAIN client_cs /\ client_cs'[n] \in {y0, client_cs[n]}
      BY <1>2
    <2>. QED  BY <2>1 DEF Conns, Range
  <1>9. y0.socket = s /\ y0.jobid = new
    BY <1>1
  <1>10. \A x \in Range(firstjob) : x \in JobIds /\ x # new
    BY <1>0, <1>2, RangeOfSeq DEF JobsTypeOK
  <1>11. new \in Nat /\ \A x \in JobIds : x \in Nat
    BY <1>2 DEF JobIds
  <1>12. ASSUME NEW y \in Conns, y.hasjob
         PROVE  /\ y.jobid \in Range(firstjob) /\ y.socket \in Clients
                /\ Predecessors(y.socket, y.jobid)' = Predecessors(y.socket, y.jobid)
                /\ \A d \in Predecessors(y.socket, y.jobid) : d \in JobIds /\ d # new
    <2>1. y.jobid \in Range(firstjob) /\ y.socket \in Clients
      BY <1>0, <1>12, ConnsType DEF Wired
    <2>2. y.jobid \in JobIds /\ ~(y.jobid >= new)
      BY <1>0, <1>1, <2>1, ListedJobs
    <2>3. \A d \in Predecessors(y.socket, y.jobid) : d \in JobIds /\ d < y.jobid
      BY <1>0, <2>1, <2>2, PredecessorsOlder
    <2>4. \A d \in Predecessors(y.socket, y.jobid) : d \in JobIds /\ d # new
      BY <1>11, <2>2, <2>3
    <2>5. Predecessors(y.socket, y.jobid)' = Predecessors(y.socket, y.jobid)
      BY <1>2 DEF Predecessors
    <2>. QED  BY <2>1, <2>4, <2>5
  <1>13. ASSUME NEW d \in Predecessors(s, new)'
         PROVE  /\ d \in JobIds /\ d # new
                /\ d \in Range(firstjob) => d \in DependOn(c, new, lastq, lastf)
                /\ -1 \notin c.depend_on => d \in {x \in c.depend_on : x < new}
    <2>1. PICK e \in {x \in c.depend_on : x < new} :
            d = (IF e = -1 THEN new - 1 ELSE e) /\ d \in JobIds
      BY <1>1, <1>2, <1>13 DEF Predecessors
    <2>2. d # new
      BY <1>11, <2>1
    <2>3. d \in Range(firstjob) => d \in DependOn(c, new, lastq, lastf)
      BY <1>7, <2>1
    <2>. QED  BY <2>1, <2>2, <2>3
  <1>14. DependOnOlder'
    <2>1. SUFFICES ASSUME NEW x \in Range(firstjob'), NEW d \in job'[x].depend_on
                   PROVE  ~(d >= jobids')
      BY DEF DependOnOlder
    <2>2. d \in Int /\ (~(d >= new) => ~(d >= new + 1))
      <3>1. x \in JobIds
        BY <1>2, <1>3, <1>10
      <3>2. job'[x] \in Job
        BY <3>1 DEF JobsInv, JobsTypeOK
      <3>3. d \in Int
        BY <2>1, <3>2 DEF Job
      <3>. QED  BY <1>11, <3>3
    <2>3. ~(d >= new)
      <3>1. CASE x = new
        BY <1>6, <1>7, <2>1, <3>1
      <3>2. CASE x # new
        BY <1>1, <1>3, <1>5, <1>10, <2>1, <3>2 DEF DInv, DependOnOlder, SameDeps
      <3>. QED  BY <3>1, <3>2
    <2>. QED  BY <1>2, <2>2, <2>3
  <1>15. Inherited'
    <2>1. SUFFICES ASSUME NEW y \in Conns', y.hasjob,
                          NEW d \in Predecessors(y.socket, y.jobid)',
                          d \in Range(firstjob')
                   PROVE  d \in job'[y.jobid].depend_on
      BY DEF Inherited
    <2>2. CASE y = y0
      <3>1. d \in Predecessors(s, new)'
        BY <1>9, <2>1, <2>2
      <3>. QED  BY <1>3, <1>6, <1>9, <1>13, <2>1, <2>2, <3>1
    <2>3. CASE y \in Conns
      <3>1. /\ d \in Predecessors(y.socket, y.jobid) /\ d # new
            /\ y.jobid \in Range(firstjob)
        BY <1>12, <2>1, <2>3
      <3>2. d \in job[y.jobid].depend_on
        BY <1>3, <2>1, <2>3, <3>1 DEF DInv, Inherited
      <3>. QED  BY <1>5, <1>10, <3>1, <3>2 DEF SameDeps
    <2>. QED  BY <1>8, <2>1, <2>2, <2>3
  <1>16. StartedInTime'
    <2>1. SUFFICES ASSUME NEW x \in JobIds, job'[x].state = "RUNNING",
                          NEW d \in job'[x].depend_on, d \in Range(firstjob')
                   PROVE  FALSE
      BY DEF StartedInTime
    <2>2. x # new /\ job[x].state = "RUNNING" /\ d \in job[x].depend_on
      BY <1>5, <1>6, <2>1 DEF SameDeps
    <2>3. x \in Range(firstjob)
      BY <1>0, <2>2 DEF QueueConsistent, Consistent, Live
    <2>4. ~(d >= new) /\ d \notin Range(firstjob)
      BY <1>1, <2>2, <2>3 DEF DInv, DependOnOlder, StartedInTime
    <2>5. d = new
      BY <1>3, <2>1, <2>4
    <2>. QED  BY <1>11, <2>4, <2>5
  <1>17. ToldRunning'
    BY LinkedTold, PTL DEF Protocol
  <1>18. DInv'
    BY <1>14, <1>15, <1>16, <1>17 DEF DInv
  <1>19. ASSUME SuccessOfNamed, OnlyTyped, Heard PROVE Heard'
    <2>1. SUFFICES ASSUME NEW y \in Conns', y.hasjob,
                          command[y.socket].require_elevel,
                          job'[y.jobid].dependency_errorlevel = 0,
                          NEW d \in Predecessors(y.socket, y.jobid)',
                          outcome[d] # {0}
                   PROVE  WillHear(y.jobid, d)'
      BY <1>2 DEF Heard
    <2>2. CASE y = y0
      <3>1. d \in Predecessors(s, new)' /\ c.require_elevel
        BY <1>1, <1>9, <2>1, <2>2
      <3>2. -1 \notin c.depend_on
        BY <1>1, <1>2, <1>19, <3>1 DEF SuccessOfNamed, OnlyTyped, NoCommand
      <3>3. d \in JobIds /\ d # new /\ d \in {x \in c.depend_on : x < new}
        BY <1>13, <3>1, <3>2
      <3>4. ~DependencyFailed(c, new, lastq, lastf)
        BY <1>6, <1>9, <2>1, <2>2
      <3>5. d \in Range(firstjob)
        BY <1>0, <2>1, <3>2, <3>3, <3>4, NewJobHeard
      <3>6. d \in DependOn(c, new, lastq, lastf)
        BY <1>13, <3>1, <3>5
      <3>. QED  BY <1>3, <1>5, <1>9, <2>2, <3>3, <3>5, <3>6 DEF WillHear
    <2>3. CASE y \in Conns
      <3>1. /\ d \in Predecessors(y.socket, y.jobid) /\ d \in JobIds /\ d # new
            /\ y.jobid \in Range(firstjob)
        BY <1>12, <2>1, <2>3
      <3>2. job[y.jobid].dependency_errorlevel = 0
        BY <1>5, <1>10, <2>1, <3>1 DEF SameDeps
      <3>3. WillHear(y.jobid, d)
        BY <1>19, <2>1, <2>3, <3>1, <3>2 DEF Heard
      <3>. QED  BY <1>3, <1>5, <3>1, <3>3 DEF WillHear, SameDeps
    <2>. QED  BY <1>8, <2>1, <2>2, <2>3
  <1>20. ASSUME Cleared PROVE Cleared'
    <2>1. SUFFICES ASSUME NEW y \in Conns', y.hasjob,
                          command[y.socket].require_elevel, WillRun(y.socket)',
                          NEW d \in Predecessors(y.socket, y.jobid)'
                   PROVE  outcome[d] = {0}
      BY <1>2 DEF Cleared
    <2>2. CASE y = y0
      <3>1. Told(y.socket)'
        BY <2>1 DEF Told, WillRun, Coming
      <3>2. job'[y.jobid].state = "RUNNING"
        BY <1>17, <2>1, <3>1 DEF ToldRunning
      <3>. QED  BY <1>6, <1>9, <2>2, <3>2
    <2>3. CASE y \in Conns
      <3>1. PICK z : z = y.socket
        OBVIOUS
      <3>2. z \in Clients /\ WillRun(z)'
        BY <1>12, <2>1, <2>3, <3>1
      <3>3. PICK m : m = Reply("NEWJOB_OK", 0)
        OBVIOUS
      <3>4. PICK out : /\ Served(k, out, {})
                       /\ out = Nothing \/ out = To(s, m)
        BY <1>1, <3>3 DEF Newjob
      <3>5. \A a \in DOMAIN out : out[a].type # "RUNJOB"
        <4>1. CASE out = Nothing
          BY <4>1, ToWhom
        <4>2. CASE out = To(s, m)
          BY <3>3, <4>2 DEF To, Reply
        <4>. QED  BY <3>4, <4>1, <4>2
      <3>6. WillRun(z)
        BY <1>0, <3>2, <3>4, <3>5, ServedRuns
      <3>7. d \in Predecessors(y.socket, y.jobid)
        BY <1>12, <2>1, <2>3
      <3>. QED  BY <1>20, <2>1, <2>3, <3>1, <3>6, <3>7 DEF Cleared
    <2>. QED  BY <1>8, <2>1, <2>2, <2>3
  <1>. QED  BY <1>18, <1>19, <1>20

(* A step that only adds connections without jobs.                         *)
LEMMA TablesKept ==
    ASSUME UNCHANGED <<job, firstjob, jobids, outcome, to_client, pc, command>>,
           \A y \in Conns' : y.hasjob => y \in Conns
    PROVE  /\ DInv => DInv'
           /\ Heard /\ Cleared => Heard' /\ Cleared'
  <1>1. DInv => DInv'
    <2>1. DependOnOlder /\ StartedInTime => DependOnOlder' /\ StartedInTime'
      BY DEF DependOnOlder, StartedInTime
    <2>2. Inherited => Inherited'
      BY DEF Inherited, Predecessors
    <2>3. ToldRunning => ToldRunning'
      BY DEF ToldRunning, Told, Coming
    <2>. QED  BY <2>1, <2>2, <2>3 DEF DInv
  <1>2. Heard => Heard'
    BY DEF Heard, WillHear, Predecessors
  <1>3. Cleared => Cleared'
    BY DEF Cleared, WillRun, Predecessors
  <1>. QED  BY <1>1, <1>2, <1>3

(* What the proofs about results know.                                     *)
ResultsKnown == LastEnded /\ Recorded /\ NoResultYet

(* Every step, as long as nobody is held.                                  *)
LEMMA NextDepends ==
    ASSUME IInv, PInv, NobodyHeld, ResultsKnown, DInv, [Next]_vars
    PROVE  /\ DInv'
           /\ SuccessOfNamed /\ OnlyTyped /\ Heard /\ Cleared =>
                Heard' /\ Cleared'
  <1>0. TypeOK /\ TypeOK' /\ JobsInv' /\ PInv'
    BY NextInv, NextPInv DEF IInv
  <1>1. ASSUME UNCHANGED <<job, firstjob, jobids, outcome, to_client, pc, command>>,
               \A y \in Conns' : y.hasjob => y \in Conns
        PROVE  /\ DInv'
               /\ Heard /\ Cleared => Heard' /\ Cleared'
    BY <1>1, TablesKept
  <1>2. CASE UNCHANGED vars
    BY <1>1, <1>2 DEF vars, jobsVars, queueVars, loopVars, socketVars, Conns
  <1>3. CASE Select
    <2>1. UNCHANGED <<job, firstjob, jobids, outcome, to_client, pc, command>>
      BY <1>3 DEF Select, jobsVars, queueVars
    <2>2. PICK a : a = [socket |-> Head(backlog), hasjob |-> FALSE, jobid |-> -1]
      OBVIOUS
    <2>3. client_cs' \in {client_cs, Append(client_cs, a)} /\ ~a.hasjob
      BY <1>3, <2>2 DEF Select
    <2>4. client_cs \in Seq(Connection)
      BY <1>0 DEF TypeOK, ConnectionsTypeOK
    <2>5. \A y \in Conns' : y \in Conns \/ y = a
      BY <2>3, <2>4, LenProperties DEF Conns, Range
    <2>. QED  BY <1>1, <2>1, <2>3, <2>5
  <1>4. CASE NothingToRun
    BY <1>1, <1>4 DEF NothingToRun, LoopAgain, jobsVars, queueVars, Conns
  <1>5. ASSUME server = "up", ServerLoop
        PROVE  Protocol /\ Protocol'
    BY <1>0, <1>5, ServerProtocol DEF PInv
  <1>6. CASE StartJob
    <2>1. Protocol /\ Protocol'
      BY <1>5, <1>6 DEF StartJob, ScanOver, ServerLoop
    <2>. QED  BY <1>0, <1>6, <2>1, StartJobDepends
  <1>7. ASSUME NEW k, ClientRead(k), ServerLoop
        PROVE  /\ DInv'
               /\ SuccessOfNamed /\ OnlyTyped /\ Heard /\ Cleared =>
                    Heard' /\ Cleared'
    <2>1. Protocol /\ Protocol'
      BY <1>5, <1>7, ServingTurn
    <2>2. CASE Newjob(k)
      BY <1>0, <2>1, <2>2, NewjobDepends DEF ResultsKnown
    <2>3. CASE ~Newjob(k)
      BY <1>0, <1>7, <2>1, <2>3, ClientReadDepends DEF ResultsKnown
    <2>. QED  BY <2>2, <2>3
  <1>8. ASSUME NEW c \in Clients,
               \/ ClientProcess(c) \/ Killed(c)
               \/ \E cmd \in CommandLines : Connect(c, cmd)
        PROVE  /\ DInv'
               /\ Heard /\ Cleared => Heard' /\ Cleared'
    BY <1>0, <1>8, ClientDepends
  <1>. QED  BY <1>2, <1>3, <1>4, <1>6, <1>7, <1>8, ConstantsAssumption
            DEF Next, ServerLoop

(* In the beginning there are no jobs.                                     *)
LEMMA InitDepends == Init => DInv /\ Heard /\ Cleared
  <1>1. SUFFICES ASSUME Init PROVE DInv /\ Heard /\ Cleared
    OBVIOUS
  <1>2. Conns = {} /\ Range(firstjob) = {}
    BY <1>1, EmptySeq DEF Init, Conns, Range
  <1>3. \A x \in JobIds : job[x].state # "RUNNING"
    BY <1>1 DEF Init, NoJob
  <1>. QED  BY <1>2, <1>3 DEF DInv, DependOnOlder, Inherited, StartedInTime,
            ToldRunning, Heard, Cleared

(* Whose command executes was started.                                     *)
LEMMA ExecutingRuns ==
    ASSUME IInv, PInv, DInv, NEW n \in DOMAIN client_cs, Executing(n)
    PROVE  LET y == client_cs[n]
           IN  /\ y \in Conns /\ y.hasjob /\ pc[y.socket] = "running"
               /\ Predecessors(y.socket, y.jobid) \cap Range(firstjob) = {}
  <1>1. PICK y : y = client_cs[n]
    OBVIOUS
  <1>2. y \in Conns /\ y.hasjob /\ pc[y.socket] = "running"
    BY <1>1, ConnsType DEF IInv, Executing
  <1>3. job[y.jobid].state = "RUNNING"
    BY <1>2 DEF DInv, ToldRunning, Told
  <1>4. y.jobid \in JobIds
    BY <1>2, ListedJobs DEF PInv, Wired, IInv, JobsInv
  <1>5. Predecessors(y.socket, y.jobid) \cap Range(firstjob) = {}
    BY <1>2, <1>3, <1>4 DEF DInv, Inherited, StartedInTime
  <1>. QED  BY <1>1, <1>2, <1>5

(* The invariant, while nobody is held.                                    *)
LEMMA DependsHold == Spec /\ []NobodyHeld => []DInv
  <1>1. IInv /\ PInv /\ NobodyHeld /\ ResultsKnown /\ DInv /\ [Next]_vars => DInv'
    BY NextDepends
  <1>2. ResultsInv /\ NoResultYet => ResultsKnown
    BY DEF ResultsInv, ResultsKnown
  <1>3. Init => DInv
    BY InitDepends
  <1>. QED  BY <1>1, <1>2, <1>3, ProtocolHolds, ResultsHold, ResultsComeOnce,
            PTL DEF Spec

(* A command submitted with -d, -D or -W executes only when no job that it *)
(* was told to wait for is in the queue, whatever was submitted, removed,  *)
(* moved or has failed meanwhile, as long as the queue holds no client     *)
(* back: next_run_job waits for the queued and the running jobs only, so   *)
(* that what depends on a job that is held may overtake it.                *)
THEOREM JobsWaitForOthers == Spec /\ []NobodyHeld => []DependencyOrder
  <1>1. IInv /\ PInv /\ DInv => DependencyOrder
    BY ExecutingRuns DEF DependencyOrder
  <1>. QED  BY <1>1, DependsHold, ProtocolHolds, PTL

(* A command submitted with -W executes only if every job that it names    *)
(* has ended with result 0, whichever way the result came: from the list   *)
(* of results when the job was submitted, or by notify_errorlevel when the *)
(* other ended, was removed or lost its client.  Besides, -W is not        *)
(* followed by -d, which replaces the list by "the last job", and that is  *)
(* not always the job with the id before.                                  *)
THEOREM SuccessIsAwaited ==
    ASSUME \A cmd \in CommandLines : cmd.require_elevel => -1 \notin cmd.depend_on
    PROVE  Spec /\ []NobodyHeld => []RunsOnlyAfterSuccess
  <1>0. SuccessOfNamed
    BY DEF SuccessOfNamed
  <1> DEFINE CInv == OnlyTyped /\ Heard /\ Cleared
  <1>1. IInv /\ PInv /\ NobodyHeld /\ ResultsKnown /\ DInv /\ CInv /\ [Next]_vars
          => CInv'
    <2>1. ASSUME IInv, PInv, NobodyHeld, ResultsKnown, DInv, CInv, [Next]_vars
          PROVE  CInv'
      <3>1. OnlyTyped'
        BY <2>1, NextTyped
      <3>2. Heard' /\ Cleared'
        BY <1>0, <2>1, NextDepends
      <3>. QED  BY <3>1, <3>2
    <2>. QED  BY <2>1
  <1>2. ResultsInv /\ NoResultYet => ResultsKnown
    BY DEF ResultsInv, ResultsKnown
  <1>3. Init => CInv
    <2>1. Init => OnlyTyped
      BY DEF Init, OnlyTyped
    <2>. QED  BY <2>1, InitDepends
  <1>4. IInv /\ PInv /\ DInv /\ CInv => RunsOnlyAfterSuccess
    <2>1. SUFFICES ASSUME IInv, PInv, DInv, CInv,
                          NEW n \in DOMAIN client_cs, Executing(n),
                          command[client_cs[n].socket].require_elevel
                   PROVE  \A d \in Predecessors(client_cs[n].socket,
                                                client_cs[n].jobid) :
                            outcome[d] = {0}
      BY DEF RunsOnlyAfterSuccess
    <2>2. PICK y : y = client_cs[n]
      OBVIOUS
    <2>3. y \in Conns /\ y.hasjob /\ WillRun(y.socket)
      BY <2>1, <2>2, ExecutingRuns DEF WillRun
    <2>. QED  BY <2>1, <2>2, <2>3 DEF Cleared
  <1>. QED  BY <1>1, <1>2, <1>3, <1>4, DependsHold, ProtocolHolds, ResultsHold,
            ResultsComeOnce, PTL DEF Spec
=============================================================================
