----------------------------- MODULE GpuProofs -----------------------------
(***************************************************************************)
(* Proofs of the safety properties of Gpu, for any GPUs, command lines and *)
(* limits, and any number of jobs.                                         *)
(***************************************************************************)
EXTENDS Gpu, ListLemmas, TLAPS

(* struct Job.                                                             *)
Job == [state: InList \cup {"NONE"}, num_gpus: Nat, wait_free_gpus: BOOLEAN,
        gpu_ids: SUBSET Int, num_slots: Nat, depend_on: SUBSET JobIds,
        announced: BOOLEAN]

(* Types, as far as the proof needs them.                                  *)
Types ==
    /\ firstjob \in Seq(JobIds)
    /\ job \in [JobIds -> Job]
    /\ jobids \in 0 .. JobIdBound
    /\ used_gpus \subseteq Gpus

(* The ids not given out yet are those of no job.                          *)
Unused == \A j \in JobIds : j >= jobids => job[j].state = "NONE"

(* A job that may have GPUs of the server's choice and asked for none has  *)
(* none.                                                                   *)
NoneAsked ==
    \A j \in JobIds :
        job[j].wait_free_gpus /\ job[j].num_gpus = 0 => job[j].gpu_ids = {}

(* As long as nothing was recycled the GPUs of the running jobs are        *)
(* marked.  Without this the next choice could take them again.            *)
Marked ==
    ~recycled =>
    \A j \in JobIds : job[j].state = "RUNNING" => job[j].gpu_ids \subseteq used_gpus

IInv == Types /\ Unused /\ NoneAsked /\ Marked /\ NoGpuLeak /\ AllocatedApart

-----------------------------------------------------------------------------
(* The empty tables satisfy the invariant.                                 *)
LEMMA InitIInv == Init => IInv
  <1> SUFFICES ASSUME Init PROVE IInv
    OBVIOUS
  <1>1. NoJob \in Job
    BY DEF NoJob, Job
  <1>. QED  BY <1>1, GpuAssumption DEF Init, IInv, Types, Unused, NoneAsked,
            Marked, NoGpuLeak, AllocatedApart, NoJob

(* A job leaves the queue with its GPUs, or without if it has not run.     *)
LEMMA LeaveStep ==
    ASSUME IInv, NEW j \in JobIds, EndJob(j) \/ ClientDisappeared(j) \/ RemoveJob(j)
    PROVE  IInv'
  <1>1. NoJob \in Job
    BY DEF NoJob, Job
  <1>2. Types'
    <2>1. PICK q \in DOMAIN firstjob : firstjob' = RemoveAt(firstjob, q)
      BY DEF EndJob, ClientDisappeared, RemoveJob, JobFinished, InQueue
    <2>2. firstjob' \in Seq(JobIds)
      BY <2>1, RemoveAtSeq DEF IInv, Types
    <2>. QED  BY <1>1, <2>2 DEF IInv, Types, EndJob, ClientDisappeared, RemoveJob,
              JobFinished, BroadcastFreeGpus, poolVars
  <1>3. job' = [job EXCEPT ![j] = NoJob]
    BY DEF EndJob, ClientDisappeared, RemoveJob, JobFinished
  <1>4. Unused' /\ NoneAsked'
    BY <1>3 DEF IInv, Types, Unused, NoneAsked, NoJob, EndJob, ClientDisappeared,
       RemoveJob, JobFinished
  <1>5. CASE RemoveJob(j)
    BY <1>2, <1>3, <1>4, <1>5 DEF IInv, Types, NoJob, Marked, NoGpuLeak,
       AllocatedApart, RemoveJob, poolVars
  <1>6. CASE JobFinished(j)
    <2>1. NoGpuLeak'
      BY <1>3, <1>6 DEF IInv, Types, NoJob, NoGpuLeak, JobFinished,
         BroadcastFreeGpus
    <2>2. ~recycled' => ~recycled /\ (job[j].gpu_ids \cap Gpus = {} \/ job[j].state = "RUNNING")
      BY <1>6 DEF JobFinished
    <2>3. AllocatedApart'
      BY <1>3, <2>2 DEF IInv, Types, NoJob, AllocatedApart
    <2>4. Marked'
      <3>1. used_gpus' = used_gpus \ job[j].gpu_ids
        BY <1>6 DEF JobFinished, BroadcastFreeGpus
      <3>. QED  BY <1>3, <2>2, <3>1 DEF IInv, Types, NoJob, AllocatedApart, Marked
    <2>. QED  BY <1>2, <1>4, <2>1, <2>3, <2>4 DEF IInv
  <1>. QED  BY <1>5, <1>6 DEF EndJob, ClientDisappeared

(* A job is submitted: with the next id, not running.                      *)
LEMMA NewjobStep ==
    ASSUME IInv, NEW c \in CommandLines, Newjob(c)
    PROVE  IInv'
  <1> DEFINE new == job'[jobids]
  <1>1. /\ jobids \in JobIds /\ jobids' = jobids + 1
        /\ \A x \in JobIds : x # jobids => job'[x] = job[x]
        /\ UNCHANGED poolVars
    BY DEF Newjob, IInv, Types
  <1>2. c \in CommandLine
    BY GpuAssumption
  <1>3. new \in Job
    BY <1>1, <1>2 DEF Newjob, CommandLine, Job, IInv, Types, Accepted, InList,
       Waiting
  <1>4. /\ new.state # "RUNNING"
        /\ new.wait_free_gpus /\ new.num_gpus = 0 => new.gpu_ids = {}
    BY <1>1 DEF Newjob, Accepted, IInv, Types
  <1>5. Types'
    <2>1. firstjob' \in Seq(JobIds)
      BY <1>1, AppendProperties DEF Newjob, IInv, Types
    <2>2. job' \in [JobIds -> Job]
      BY <1>1, <1>3 DEF Newjob, IInv, Types
    <2>3. jobids' \in 0 .. JobIdBound
      BY <1>1, GpuAssumption DEF JobIds
    <2>. QED  BY <1>1, <2>1, <2>2, <2>3 DEF IInv, Types, poolVars
  <1>6. Unused' /\ NoneAsked'
    BY <1>1, <1>4 DEF IInv, Types, Unused, NoneAsked, JobIds
  <1>7. Marked' /\ NoGpuLeak' /\ AllocatedApart'
    <2>1. \A x \in JobIds : /\ job'[x].state = "RUNNING" <=> job[x].state = "RUNNING"
                            /\ job[x].state = "RUNNING" => job'[x] = job[x]
      <3>1. job[jobids].state = "NONE"
        BY <1>1 DEF IInv, Types, Unused
      <3>2. job'[jobids].state # "RUNNING"
        BY <1>4
      <3>. QED  BY <1>1, <3>1, <3>2
    <2>. QED  BY <1>1, <2>1 DEF IInv, Marked, NoGpuLeak, AllocatedApart, poolVars
  <1>. QED  BY <1>5, <1>6, <1>7 DEF IInv

(* What next_run_job writes into the gpu_ids: nothing for a running job,   *)
(* and only GPUs that are not marked.                                      *)
LEMMA ChoiceFacts ==
    ASSUME IInv, NEW last, NEW ids \in GpuChoices(last), NEW x \in JobIds
    PROVE  /\ GpuIds(ids, x) \subseteq Int
           /\ job[x].state = "RUNNING" => GpuIds(ids, x) = job[x].gpu_ids
           /\ job[x].wait_free_gpus /\ job[x].num_gpus = 0 =>
                GpuIds(ids, x) = {}
           /\ x \in Choosing(last) => /\ GpuIds(ids, x) \subseteq Gpus
                                      /\ GpuIds(ids, x) \cap used_gpus = {}
  <1>1. \A y \in Choosing(last) : /\ job[y].state \in Waiting
                                 /\ job[y].num_gpus # 0
    BY DEF Choosing, Chooses
  <1>2. DOMAIN ids = Choosing(last)
        /\ \A y \in Choosing(last) : ids[y] \subseteq FreeGpus
    BY DEF GpuChoices
  <1>3. FreeGpus \subseteq Gpus /\ FreeGpus \cap used_gpus = {} /\ Gpus \subseteq Int
    BY GpuAssumption DEF FreeGpus, GpuList, VisibleGpus, Gpus
  <1>4. job[x].gpu_ids \subseteq Int
    BY DEF IInv, Types, Job
  <1>5. CASE x \in Choosing(last)
    BY <1>1, <1>2, <1>3, <1>5 DEF GpuIds, Waiting
  <1>6. CASE x \notin Choosing(last)
    BY <1>2, <1>4, <1>6 DEF GpuIds, IInv, NoneAsked
  <1>. QED  BY <1>5, <1>6

(* GPUs are chosen for waiting jobs and none of them is started.           *)
LEMMA NothingStep ==
    ASSUME IInv, NothingToRun
    PROVE  IInv'
  <1>1. PICK ids \in GpuChoices(Len(firstjob)) :
          job' = [x \in JobIds |-> [job[x] EXCEPT !.gpu_ids = GpuIds(ids, x)]]
    BY DEF NothingToRun
  <1>2. UNCHANGED <<firstjob, jobids, used_gpus, recycled>>
    BY DEF NothingToRun, poolVars
  <1>3. \A x \in JobIds :
          /\ GpuIds(ids, x) \subseteq Int
          /\ job[x].state = "RUNNING" => GpuIds(ids, x) = job[x].gpu_ids
          /\ job[x].wait_free_gpus /\ job[x].num_gpus = 0 =>
               GpuIds(ids, x) = {}
    BY ChoiceFacts
  <1>4. \A x \in JobIds :
          /\ job'[x] \in Job
          /\ job'[x].state = job[x].state /\ job'[x].gpu_ids = GpuIds(ids, x)
          /\ job'[x].num_gpus = job[x].num_gpus
          /\ job'[x].wait_free_gpus = job[x].wait_free_gpus
    <2> SUFFICES ASSUME NEW x \in JobIds
                 PROVE  /\ job'[x] \in Job
                        /\ job'[x].state = job[x].state
                        /\ job'[x].gpu_ids = GpuIds(ids, x)
                        /\ job'[x].num_gpus = job[x].num_gpus
                        /\ job'[x].wait_free_gpus = job[x].wait_free_gpus
      OBVIOUS
    <2>1. job[x] \in Job /\ GpuIds(ids, x) \in SUBSET Int
      BY <1>3 DEF IInv, Types
    <2>2. job'[x] = [job[x] EXCEPT !.gpu_ids = GpuIds(ids, x)]
      BY <1>1
    <2>. QED  BY <2>1, <2>2 DEF Job
  <1>5. Types' /\ Unused'
    BY <1>1, <1>2, <1>4 DEF IInv, Types, Unused
  <1>6. NoneAsked'
    BY <1>3, <1>4 DEF NoneAsked
  <1>7. Marked' /\ NoGpuLeak' /\ AllocatedApart'
    BY <1>2, <1>3, <1>4 DEF IInv, Marked, NoGpuLeak, AllocatedApart
  <1>. QED  BY <1>5, <1>6, <1>7 DEF IInv

(* One job is started, with its GPUs marked.                               *)
LEMMA StartStep ==
    ASSUME IInv, StartJob
    PROVE  IInv'
  <1> DEFINE after(j, ids) ==
        [x \in JobIds |->
           [job[x] EXCEPT !.gpu_ids = GpuIds(ids, x),
                          !.state = IF x = j THEN "RUNNING"
                                    ELSE IF @ = "HOLDING_CLIENT"
                                    THEN WakeHoldClient(job[x]) ELSE @]]
  <1>1. PICK q \in NextRunJob : \E ids \in GpuChoices(q) :
          /\ job' = after(firstjob[q], ids)
          /\ used_gpus' = used_gpus \cup (GpuIds(ids, firstjob[q]) \cap Gpus)
          /\ recycled' = (recycled \/ ~job[firstjob[q]].wait_free_gpus)
    BY DEF StartJob
  <1>2. PICK ids \in GpuChoices(q) :
          /\ job' = after(firstjob[q], ids)
          /\ used_gpus' = used_gpus \cup (GpuIds(ids, firstjob[q]) \cap Gpus)
          /\ recycled' = (recycled \/ ~job[firstjob[q]].wait_free_gpus)
    BY <1>1
  <1> DEFINE j == firstjob[q]
  <1>3. j \in JobIds /\ job[j].state \in Waiting /\ q \in DOMAIN firstjob
    BY ElementOfSeq DEF IInv, Types, NextRunJob, Runnable
  <1>4. Chooses(job[j]) => j \in Choosing(q)
    BY <1>3 DEF IInv, Types, NextRunJob, Runnable, Choosing
  <1>5. UNCHANGED <<firstjob, jobids>>
    BY DEF StartJob
  <1>6. \A x \in JobIds :
          /\ GpuIds(ids, x) \subseteq Int
          /\ job[x].state = "RUNNING" => GpuIds(ids, x) = job[x].gpu_ids
          /\ job[x].wait_free_gpus /\ job[x].num_gpus = 0 =>
               GpuIds(ids, x) = {}
          /\ x \in Choosing(q) => /\ GpuIds(ids, x) \subseteq Gpus
                                  /\ GpuIds(ids, x) \cap used_gpus = {}
    BY ChoiceFacts
  <1>7. \A x \in JobIds :
          /\ job'[x] \in Job
          /\ job'[x].state = "RUNNING" <=> x = j \/ job[x].state = "RUNNING"
          /\ job'[x].state = "NONE" <=> job[x].state = "NONE"
          /\ job'[x].gpu_ids = GpuIds(ids, x)
          /\ job'[x].num_gpus = job[x].num_gpus
          /\ job'[x].wait_free_gpus = job[x].wait_free_gpus
    <2> SUFFICES ASSUME NEW x \in JobIds
                 PROVE  /\ job'[x] \in Job
                        /\ job'[x].state = "RUNNING" <=>
                              x = j \/ job[x].state = "RUNNING"
                        /\ job'[x].state = "NONE" <=> job[x].state = "NONE"
                        /\ job'[x].gpu_ids = GpuIds(ids, x)
                        /\ job'[x].num_gpus = job[x].num_gpus
                        /\ job'[x].wait_free_gpus = job[x].wait_free_gpus
      OBVIOUS
    <2> DEFINE s == IF x = j THEN "RUNNING"
                    ELSE IF job[x].state = "HOLDING_CLIENT"
                    THEN WakeHoldClient(job[x]) ELSE job[x].state
    <2>1. job[x] \in Job /\ GpuIds(ids, x) \in SUBSET Int
      BY <1>6 DEF IInv, Types
    <2>2. job'[x] = [job[x] EXCEPT !.gpu_ids = GpuIds(ids, x), !.state = s]
      BY <1>2
    <2>3. job[x].state \in InList \cup {"NONE"} /\ job[j].state \in Waiting
      BY <1>3, <2>1 DEF Job
    <2>4. /\ s \in InList \cup {"NONE"}
          /\ s = "RUNNING" <=> x = j \/ job[x].state = "RUNNING"
          /\ s = "NONE" <=> job[x].state = "NONE"
      BY <2>3 DEF WakeHoldClient, Accepted, InList, Waiting
    <2> HIDE DEF s
    <2>. QED  BY <2>1, <2>2, <2>4 DEF Job
  <1>8. Types' /\ Unused'
    BY <1>2, <1>3, <1>5, <1>6, <1>7 DEF IInv, Types, Unused
  <1>9. NoneAsked'
    BY <1>6, <1>7 DEF NoneAsked
  <1>10. /\ used_gpus' = used_gpus \cup (GpuIds(ids, j) \cap Gpus)
         /\ \A x \in JobIds : /\ job'[x].state = "RUNNING" <=>
                                   x = j \/ job[x].state = "RUNNING"
                              /\ job'[x].gpu_ids = GpuIds(ids, x)
                              /\ job[x].state = "RUNNING" =>
                                   GpuIds(ids, x) = job[x].gpu_ids
    BY <1>2, <1>6, <1>7
  <1>11. NoGpuLeak'
    BY <1>3, <1>10 DEF IInv, NoGpuLeak
  <1>12. ~recycled' => ~recycled /\ job[j].wait_free_gpus
    BY <1>2
  <1>13. ~recycled' => /\ GpuIds(ids, j) \cap used_gpus = {}
                       /\ GpuIds(ids, j) \subseteq Gpus
    <2>1. CASE job[j].num_gpus = 0
      BY <1>3, <1>6, <1>12, <2>1
    <2>2. CASE job[j].num_gpus # 0
      BY <1>3, <1>4, <1>6, <1>12, <2>2 DEF Chooses
    <2>. QED  BY <2>1, <2>2
  <1>14. Marked'
    BY <1>3, <1>10, <1>12, <1>13 DEF IInv, Marked
  <1>15. AllocatedApart'
    <2> SUFFICES ASSUME ~recycled', NEW x \in JobIds, NEW y \in JobIds, x # y,
                        job'[x].state = "RUNNING", job'[y].state = "RUNNING"
                 PROVE  job'[x].gpu_ids \cap job'[y].gpu_ids = {}
      BY DEF AllocatedApart
    <2>1. Marked /\ AllocatedApart /\ ~recycled
      BY <1>12 DEF IInv
    <2>2. CASE x # j /\ y # j
      BY <1>10, <2>1, <2>2 DEF AllocatedApart
    <2>3. CASE x = j \/ y = j
      BY <1>10, <1>13, <2>1, <2>3 DEF Marked
    <2>. QED  BY <2>2, <2>3
  <1>. QED  BY <1>8, <1>9, <1>11, <1>14, <1>15 DEF IInv

(* Every step preserves the invariant.                                     *)
LEMMA NextIInv == IInv /\ [Next]_vars => IInv'
  <1> SUFFICES ASSUME IInv, [Next]_vars PROVE IInv'
    OBVIOUS
  <1>1. ASSUME NEW j \in JobIds, RunjobOk(j) PROVE IInv'
    <2>1. \A x \in JobIds :
            /\ job'[x] \in Job /\ job'[x].state = job[x].state
            /\ job'[x].gpu_ids = job[x].gpu_ids
            /\ job'[x].num_gpus = job[x].num_gpus
            /\ job'[x].wait_free_gpus = job[x].wait_free_gpus
      <3> SUFFICES ASSUME NEW x \in JobIds
                   PROVE  /\ job'[x] \in Job /\ job'[x].state = job[x].state
                          /\ job'[x].gpu_ids = job[x].gpu_ids
                          /\ job'[x].num_gpus = job[x].num_gpus
                          /\ job'[x].wait_free_gpus = job[x].wait_free_gpus
        OBVIOUS
      <3>1. job[x] \in Job
        BY DEF IInv, Types
      <3>2. job'[x] = job[x] \/ job'[x] = [job[x] EXCEPT !.announced = TRUE]
        BY <1>1 DEF RunjobOk, IInv, Types
      <3>. QED  BY <3>1, <3>2 DEF Job
    <2>2. job' \in [JobIds -> Job] /\ UNCHANGED <<firstjob, jobids, poolVars>>
      BY <1>1, <2>1 DEF RunjobOk, IInv, Types
    <2>3. Types' /\ Unused'
      BY <2>1, <2>2 DEF IInv, Types, Unused, poolVars
    <2>4. NoneAsked' /\ Marked'
      BY <2>1, <2>2 DEF IInv, NoneAsked, Marked, poolVars
    <2>5. NoGpuLeak' /\ AllocatedApart'
      BY <2>1, <2>2 DEF IInv, NoGpuLeak, AllocatedApart, poolVars
    <2>. QED  BY <2>3, <2>4, <2>5 DEF IInv
  <1>2. ASSUME UNCHANGED <<tableVars, poolVars>> PROVE IInv'
    BY <1>2 DEF tableVars, poolVars, IInv, Types, Unused, NoneAsked, Marked,
       NoGpuLeak, AllocatedApart
  <1>3. ASSUME NEW n, SetFreePerc(n) PROVE IInv'
    BY <1>2, <1>3 DEF SetFreePerc
  <1>4. ASSUME NEW g, NEW m, Memory(g, m) PROVE IInv'
    BY <1>2, <1>4 DEF Memory
  <1>5. CASE Timeout \/ NvmlFails \/ UNCHANGED vars
    BY <1>2, <1>5 DEF Timeout, NvmlFails, vars
  <1>. QED  BY <1>1, <1>3, <1>4, <1>5, NewjobStep, LeaveStep, StartStep,
            NothingStep DEF Next, ServerRound

(* The invariant holds in every reachable state.                           *)
LEMMA Invariance == Spec => []IInv
  BY InitIInv, NextIInv, PTL DEF Spec

-----------------------------------------------------------------------------
(* No GPU stays marked without a running job that has it: every mark is    *)
(* taken back, although gpu_ids may be rewritten in every round until the  *)
(* job starts.                                                             *)
THEOREM NoLeak == Spec => []NoGpuLeak
  <1>1. IInv => NoGpuLeak
    BY DEF IInv
  <1>. QED  BY <1>1, Invariance, PTL

(* Until GPUs were named by hand or given back by a job that had not run,  *)
(* no two running jobs share a GPU, whatever NVML says of its memory.      *)
THEOREM RunningApart == Spec => []AllocatedApart
  <1>1. IInv => AllocatedApart
    BY DEF IInv
  <1>. QED  BY <1>1, Invariance, PTL
============================================================================
