-------------------------------- MODULE Gpu --------------------------------
(***************************************************************************)
(* The allocation of GPUs to jobs (gpu.c, and the GPU parts of jobs.c,     *)
(* server.c, client.c and main.c), which only the GPU build has.           *)
(*                                                                         *)
(* `ts -G n' asks for n GPUs of the server's choice, `ts -g i,j' for named *)
(* ones.  The server may give a GPU that NVML reports to have enough free  *)
(* memory and that it has not marked as in use.  The mark bridges the time *)
(* until the command has filled the memory.                                *)
(*                                                                         *)
(* Module Server has the protocol and the loop; here one handled message   *)
(* is one action, and the end of a round (next_run_job) is another.        *)
(***************************************************************************)
EXTENDS Integers, Sequences, FiniteSets, SequencesExt

CONSTANTS
    NumGpus,        \* num_total_gpus: what nvmlDeviceGetCount_v2 says
    Visible,        \* the ids of TS_VISIBLE_DEVICES, or all of them
    CommandLines,   \* the command lines that submit jobs
    Percentages,    \* the arguments of --set_gpu_free_perc
    FreeMemory,     \* how much memory of a GPU may be free, in per cent
    JobIdBound,     \* bound: the number of jobs ever submitted
    MaxJobs,        \* max_jobs: the queue is full with that many jobs
    MaxSlots        \* max_slots

JobIds == 0 .. (JobIdBound - 1)
Gpus   == 0 .. (NumGpus - 1)

(* struct Command_line: gpus and wait_free_gpus of -G, gpu_nums of -g, any *)
(* numbers.                                                                *)
CommandLine == [gpus: Nat, wait_free_gpus: BOOLEAN, gpu_nums: SUBSET Int,
                num_slots: Nat, depend_on: SUBSET JobIds]

ASSUME GpuAssumption ==
    /\ NumGpus \in Nat
    /\ Visible \subseteq Nat
    /\ CommandLines \subseteq CommandLine
    /\ Percentages \subseteq Int
    /\ FreeMemory \subseteq 0 .. 100 /\ 100 \in FreeMemory
    /\ JobIdBound \in Nat
    /\ MaxJobs \in Nat
    /\ MaxSlots \in Nat \ {0}

Waiting == {"QUEUED", "ALLOCATING"}
InList  == Waiting \cup {"RUNNING", "HOLDING_CLIENT"}

(* struct Job.  announced: RUNJOB_OK has come.  The state NONE is that of  *)
(* a job not yet submitted, or over.                                       *)
NoJob == [state |-> "NONE", num_gpus |-> 0, wait_free_gpus |-> TRUE,
          gpu_ids |-> {}, num_slots |-> 0, depend_on |-> {},
          announced |-> FALSE]

VARIABLES
    firstjob,         \* the queue: running, waiting and held jobs
    job,              \* the struct Job of every id
    jobids,           \* the next id
    busy_slots,
    used_gpus,        \* the GPUs with a 1 in the array of that name
    free_percentage,
    mem_free,         \* NVML: the free memory of each GPU, in per cent
    nvml,             \* NVML: its calls succeed
    awake,            \* select has returned, next_run_job is still to come
    server,           \* "up", or "fault" after a write outside used_gpus
    recycled          \* history: GPUs were given back or taken without
                      \* having been allocated

tableVars == <<firstjob, job, jobids, busy_slots>>
poolVars  == <<used_gpus, server, recycled>>
nvmlVars  == <<mem_free, nvml>>
vars      == <<tableVars, poolVars, free_percentage, nvmlVars, awake>>

(* initGPU: no GPU is marked.                                              *)
Init ==
    /\ firstjob = <<>>
    /\ job = [j \in JobIds |-> NoJob]
    /\ jobids = 0
    /\ busy_slots = 0
    /\ used_gpus = {}
    /\ server = "up"
    /\ free_percentage = 90
    /\ mem_free = [g \in Gpus |-> 100]
    /\ nvml = TRUE
    /\ awake = FALSE
    /\ recycled = FALSE

-----------------------------------------------------------------------------
(* gpu.c                                                                   *)

(* getVisibleGpus, as getGpuList uses it: ids beyond the last GPU are      *)
(* skipped.                                                                *)
VisibleGpus == Visible \cap Gpus

(* getGpuList returns a list and not NULL.                                 *)
HaveGpuList == nvml /\ Visible # {}

(* getGpuList: the visible GPUs with enough free memory.                   *)
GpuList == {g \in VisibleGpus : mem_free[g] > free_percentage}

(* A plausible mistake: the marks are not looked at.                       *)
FreeGpusByMemory == GpuList

(* Of those, the ones that isInUse does not exclude.                       *)
FreeGpus == GpuList \ used_gpus

-----------------------------------------------------------------------------
(* jobs.c: a message about a job is handled.  Every one of them has woken  *)
(* the server, so next_run_job follows.                                    *)

(* A job that has not to wait for a place in the queue.                    *)
Accepted(num_gpus) == IF num_gpus # 0 THEN "ALLOCATING" ELSE "QUEUED"

(* s_newjob.  The ids of -g come with the message as they were typed,      *)
(* those of -G are -1 until they are chosen.                               *)
Newjob(c) ==
    /\ jobids \in JobIds
    /\ job' = [job EXCEPT ![jobids] =
         [state |-> IF Len(firstjob) + 1 < MaxJobs
                    THEN Accepted(c.gpus) ELSE "HOLDING_CLIENT",
          num_gpus |-> c.gpus,
          wait_free_gpus |-> c.wait_free_gpus,
          gpu_ids |-> IF c.wait_free_gpus THEN {-1 : n \in 1 .. c.gpus}
                      ELSE c.gpu_nums,
          num_slots |-> c.num_slots,
          depend_on |-> {d \in c.depend_on : d < jobids},
          announced |-> FALSE]]
    /\ firstjob' = Append(firstjob, jobids)
    /\ jobids' = jobids + 1
    /\ awake' = TRUE
    /\ UNCHANGED <<busy_slots, poolVars, free_percentage, nvmlVars>>

(* RUNJOB_OK of a running job.                                             *)
RunjobOk(j) ==
    /\ job[j].state = "RUNNING" /\ ~job[j].announced
    /\ job' = [job EXCEPT ![j].announced = TRUE]
    /\ awake' = TRUE
    /\ UNCHANGED <<firstjob, jobids, busy_slots, poolVars, free_percentage,
                   nvmlVars>>

(* What becomes of the server when it sets used_gpus[id] for these ids: it *)
(* has no check of the bounds, and a write outside the array is without    *)
(* effect on this module's state, or the end of the server.                *)
AfterWrite(ids) == IF ids \subseteq Gpus THEN {"up"} ELSE {"up", "fault"}

(* A plausible mistake: the GPUs stay marked.                              *)
BroadcastFreeGpusNot(j) == used_gpus

(* broadcastFreeGpus for a job that leaves the queue through job_finished, *)
(* whatever its state is.                                                  *)
BroadcastFreeGpus(j) == used_gpus \ job[j].gpu_ids

(* busy_slots after job_finished.                                          *)
SlotsFreed(j) == IF job[j].state = "RUNNING"
                 THEN busy_slots - job[j].num_slots ELSE busy_slots

(* findjob: where the job is in the queue, as a set of at most one.        *)
InQueue(j) == {q \in DOMAIN firstjob : firstjob[q] = j}

(* job_finished: GPUs and slots are given back.                            *)
JobFinished(j) ==
    /\ used_gpus' = BroadcastFreeGpus(j)
    /\ server' \in AfterWrite(job[j].gpu_ids)
    /\ recycled' = (recycled \/ (job[j].gpu_ids \cap Gpus # {} /\
                     (job[j].state # "RUNNING" \/ ~job[j].wait_free_gpus)))
    /\ busy_slots' = SlotsFreed(j)
    /\ \E q \in InQueue(j) : firstjob' = RemoveAt(firstjob, q)
    /\ job' = [job EXCEPT ![j] = NoJob]
    /\ awake' = TRUE
    /\ UNCHANGED <<jobids, free_percentage, nvmlVars>>

(* ENDJOB.                                                                 *)
EndJob(j) ==
    /\ job[j].state = "RUNNING" /\ job[j].announced
    /\ JobFinished(j)

(* The client of a job disappears; with no slot taken job_finished would   *)
(* stop the server (FinishFault of module Server).                         *)
ClientDisappeared(j) ==
    /\ job[j].state \in InList
    /\ busy_slots > 0
    /\ JobFinished(j)

(* -r of a job that is neither running nor first: no GPU is given back.    *)
RemoveJob(j) ==
    /\ job[j].state \in InList \ {"RUNNING"}
    /\ \E q \in InQueue(j) : q > 1 /\ firstjob' = RemoveAt(firstjob, q)
    /\ job' = [job EXCEPT ![j] = NoJob]
    /\ awake' = TRUE
    /\ UNCHANGED <<jobids, busy_slots, poolVars, free_percentage, nvmlVars>>

(* s_set_free_percentage ignores what is not positive.                     *)
SetFreePerc(new_percentage) ==
    /\ free_percentage' = IF new_percentage > 0 THEN new_percentage
                          ELSE free_percentage
    /\ awake' = TRUE
    /\ UNCHANGED <<tableVars, poolVars, nvmlVars>>

-----------------------------------------------------------------------------
(* next_run_job and what server_loop does with its result.                 *)

(* The job needs GPUs of the server's choice.                              *)
Chooses(p) == p.num_gpus # 0 /\ p.wait_free_gpus

(* There are enough GPUs for it.                                           *)
EnoughGpus(p) == Chooses(p) => Cardinality(FreeGpus) >= p.num_gpus

(* The job at place q can be started.                                      *)
Runnable(q) ==
    LET p == job[firstjob[q]]
    IN  /\ HaveGpuList
        /\ p.state \in Waiting
        /\ EnoughGpus(p)
        /\ \A d \in p.depend_on : job[d].state \notin Waiting \cup {"RUNNING"}
        /\ p.num_slots <= MaxSlots - busy_slots

(* The first such place, as a set of at most one.                          *)
NextRunJob ==
    {q \in DOMAIN firstjob :
        /\ MaxSlots - busy_slots > 0
        /\ Runnable(q)
        /\ \A r \in DOMAIN firstjob : r < q => ~Runnable(r)}

(* The jobs for which GPUs are chosen on the way to the one at place last: *)
(* before it is known whether their dependencies and the slots let them    *)
(* run.                                                                    *)
Choosing(last) ==
    {firstjob[q] : q \in {r \in DOMAIN firstjob :
        /\ MaxSlots - busy_slots > 0
        /\ HaveGpuList
        /\ r <= last
        /\ job[firstjob[r]].state \in Waiting
        /\ Chooses(job[firstjob[r]])
        /\ EnoughGpus(job[firstjob[r]])}}

(* The GPUs chosen for each of them: any, as the list is shuffled.         *)
GpuChoices(last) ==
    {ids \in [Choosing(last) -> SUBSET FreeGpus] :
        \A j \in DOMAIN ids : Cardinality(ids[j]) = job[j].num_gpus}

(* The gpu_ids of job j after a choice.                                    *)
GpuIds(ids, j) == IF j \in DOMAIN ids THEN ids[j] ELSE job[j].gpu_ids

(* A plausible mistake: a held GPU job is woken as any other.              *)
WakeHoldClientQueued(p) == "QUEUED"

(* wake_hold_client.                                                       *)
WakeHoldClient(p) == Accepted(p.num_gpus)

(* The job is started with its GPUs marked, and the held clients are let   *)
(* in.                                                                     *)
StartJob ==
    /\ awake
    /\ \E q \in NextRunJob : \E ids \in GpuChoices(q) :
         LET j == firstjob[q]
         IN  /\ job' = [x \in JobIds |->
                  [job[x] EXCEPT !.gpu_ids = GpuIds(ids, x),
                                 !.state = IF x = j THEN "RUNNING"
                                           ELSE IF @ = "HOLDING_CLIENT"
                                           THEN WakeHoldClient(job[x])
                                           ELSE @]]
             /\ busy_slots' = busy_slots + job[j].num_slots
             /\ used_gpus' = used_gpus \cup (GpuIds(ids, j) \cap Gpus)
             /\ server' \in AfterWrite(GpuIds(ids, j))
             /\ recycled' = (recycled \/ ~job[j].wait_free_gpus)
    /\ awake' = FALSE
    /\ UNCHANGED <<firstjob, jobids, free_percentage, nvmlVars>>

(* No job can be started; some may have got GPUs chosen all the same.      *)
NothingToRun ==
    /\ awake
    /\ NextRunJob = {}
    /\ \E ids \in GpuChoices(Len(firstjob)) :
         job' = [x \in JobIds |->
                  [job[x] EXCEPT !.gpu_ids = GpuIds(ids, x)]]
    /\ awake' = FALSE
    /\ UNCHANGED <<firstjob, jobids, busy_slots, poolVars, free_percentage,
                   nvmlVars>>

(* s_count_allocating_jobs() > 0: select waits for 30 seconds only.        *)
Poll == \E j \in JobIds : job[j].state = "ALLOCATING"

Timeout ==
    /\ ~awake /\ Poll
    /\ awake' = TRUE
    /\ UNCHANGED <<tableVars, poolVars, free_percentage, nvmlVars>>

-----------------------------------------------------------------------------
(* The GPUs, used by the jobs and by processes that ts knows nothing of.   *)

Memory(g, m) ==
    /\ mem_free' = [mem_free EXCEPT ![g] = m]
    /\ UNCHANGED <<tableVars, poolVars, free_percentage, nvml, awake>>

NvmlFails ==
    /\ nvml' = ~nvml
    /\ UNCHANGED <<tableVars, poolVars, free_percentage, mem_free, awake>>

-----------------------------------------------------------------------------
ServerRound == server = "up" /\ (StartJob \/ NothingToRun \/ Timeout)

(* After a fault nothing is said of what happens.                          *)
Next ==
    /\ server = "up"
    /\ \/ \E c \in CommandLines : Newjob(c)
       \/ \E j \in JobIds : RunjobOk(j) \/ EndJob(j) \/ ClientDisappeared(j)
                              \/ RemoveJob(j)
       \/ \E n \in Percentages : SetFreePerc(n)
       \/ ServerRound
       \/ \E g \in Gpus : \E m \in FreeMemory : Memory(g, m)
       \/ NvmlFails

Spec == Init /\ [][Next]_vars

(* The server's thread goes on, and select returns after its timeout.      *)
(* Nothing is assumed of the users, the jobs and the GPUs.                 *)
FairSpec == Spec /\ WF_vars(ServerRound)

-----------------------------------------------------------------------------
(* A GPU marked as in use belongs to a job that is running: broadcastFree- *)
(* Gpus of a later round undoes exactly what broadcastUsedGpus did, though *)
(* the ids are kept in an array that next_run_job may rewrite.  A GPU that *)
(* stayed marked would never be given to a job again.                      *)
NoGpuLeak ==
    \A g \in used_gpus :
        \E j \in JobIds : job[j].state = "RUNNING" /\ g \in job[j].gpu_ids

(* As long as no -g job has run and no job has ended before it was         *)
(* started, the GPUs of running jobs are disjoint, although NVML may show  *)
(* their memory as free the whole time.                                    *)
AllocatedApart ==
    ~recycled =>
    \A i, j \in JobIds :
        /\ i # j
        /\ job[i].state = "RUNNING" /\ job[j].state = "RUNNING"
        => job[i].gpu_ids \cap job[j].gpu_ids = {}

(* A job that wants GPUs does not stay runnable for ever: the GPUs are     *)
(* freed by processes that send the server no message, so it has to look   *)
(* by itself, also for a job that was held before.  (A server that wrote   *)
(* outside its array may be gone.)                                         *)
GpuJobStarts ==
    \A j \in JobIds :
        ~<>[](/\ server = "up"
              /\ job[j].num_gpus # 0
              /\ \E q \in NextRunJob : firstjob[q] = j)
=============================================================================
