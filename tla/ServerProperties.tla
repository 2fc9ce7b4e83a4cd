-------------------------- MODULE ServerProperties --------------------------
(***************************************************************************)
(* What the task spooler should keep true, over the state of Server.       *)
(***************************************************************************)
EXTENDS Server

(* The slots taken, one pair for each slot of each running job of a table. *)
SlotsOf(table) ==
    UNION {{j} \X (1 .. table[j].num_slots) :
             j \in {x \in JobIds : table[x].state = "RUNNING"}}

RunningSlots == SlotsOf(job)

(* The counter busy_slots is the number of slots that the running jobs     *)
(* occupy: it is raised in next_run_job and lowered in job_finished, in    *)
(* different rounds of the loop and only for some of the states in which a *)
(* job can end (the client of a queued or held job may disappear too).     *)
SlotAccounting == busy_slots = Cardinality(RunningSlots)

(* A job is started only into slots that are free under the limit of that  *)
(* moment, also after `ts -S' has lowered the limit below what is running. *)
SlotLimit ==
    [][(\E j \in JobIds : job[j].state # "RUNNING" /\ job'[j].state = "RUNNING")
         => Cardinality(RunningSlots') <= max_slots]_vars

(* queue and finished are lists without repetitions, the jobs of the queue *)
(* are the live ones of the table, the others are those that have ended,   *)
(* and ids that were not given out yet are unused.                         *)
Consistent(queue, finished, table, ids) ==
    /\ IsInjective(queue) /\ IsInjective(finished)
    /\ \A j \in JobIds :
         /\ j \in Range(queue) <=> table[j].state \in Live
         /\ j \in Range(finished) <=> table[j].state \in Done
         /\ j >= ids => table[j].state = "NONE"

(* The two lists and the job table agree.  Every pointer operation of      *)
(* jobs.c relies on this: no job is twice in a list or in both lists, and  *)
(* a job found by one search is in the state that the search implies.      *)
QueueConsistent == Consistent(firstjob, first_finished_job, job, jobids)

(* Job 0 is in the first place as long as it is in the queue, so neither   *)
(* -u nor -U nor -r ever moves or removes it.  That is what makes the      *)
(* check_notify_list(m.u.jobid) of s_remove_job, which asks about job 0    *)
(* whatever job is removed, harmless.                                      *)
JobZeroFirst == 0 \in Range(firstjob) => firstjob[1] = 0

(* Every job of the queue has exactly one connection, the one its client   *)
(* holds, and a connection marked as having a job has one that is in the   *)
(* queue.  get_conn_of_jobid and remove_connection index with its result.  *)
JobsHaveClients ==
    /\ \A j \in Range(firstjob) : Cardinality(ConnOf(j)) = 1
    /\ \A n \in DOMAIN client_cs :
         client_cs[n].hasjob => client_cs[n].jobid \in Range(firstjob)

(* A message of this type is on its way to the client.                     *)
Coming(c, type) == \E n \in DOMAIN to_client[c] : to_client[c][n].type = type

(* The server and the client of a job agree about it.  While the job is    *)
(* RUNNING the client has been told so exactly once and has not finished;  *)
(* while it is QUEUED the client has been, or is being, told that the job  *)
(* was accepted; while it is held the client has been told nothing.  This  *)
(* is what keeps the error() calls of job_finished and s_process_runjob_ok *)
(* unreachable.                                                            *)
ClientsAgree ==
    server = "up" =>
    \A n \in DOMAIN client_cs :
        LET c  == client_cs[n].socket
            st == job[client_cs[n].jobid].state
        IN  client_cs[n].hasjob /\ pc[c] # "closed" =>
              /\ st = "RUNNING" <=>
                   \/ Coming(c, "RUNJOB")
                   \/ pc[c] \in {"wait_logdir", "running", "skipped"}
              /\ st = "QUEUED" =>
                   \/ Coming(c, "NEWJOB_OK")
                   \/ pc[c] = "wait_server_commands"
              /\ st = "HOLDING_CLIENT" =>
                   pc[c] = "wait_newjob_ok" /\ to_client[c] = <<>>

(* The messages that report on a job arrive while the job is RUNNING.  The *)
(* server stops with error() otherwise.                                    *)
ReportsAreExpected ==
    \A n \in DOMAIN client_cs :
        LET c == client_cs[n].socket
        IN  (\E m \in DOMAIN to_server[c] :
               to_server[c][m].type \in {"RUNJOB_OK", "ENDJOB"}) =>
            /\ client_cs[n].hasjob
            /\ \E q \in InQueue(client_cs[n].jobid) :
                 job[firstjob[q]].state = "RUNNING"

(* The jobs that j was submitted to run after: those of -D and -W that     *)
(* were older, and for -d the last one added before it.                    *)
Predecessors(c, j) ==
    {IF d = -1 THEN j - 1 ELSE d : d \in {x \in command[c].depend_on : x < j}}
      \cap JobIds

(* The client of connection n is executing its command.                    *)
Executing(n) == client_cs[n].hasjob /\ pc[client_cs[n].socket] = "running"

(* A command submitted with -d, -D or -W executes only when no job it was  *)
(* told to wait for is still in the queue.                                 *)
DependencyOrder ==
    \A n \in DOMAIN client_cs :
        Executing(n) =>
          Predecessors(client_cs[n].socket, client_cs[n].jobid)
            \cap Range(firstjob) = {}

(* A command submitted with -W executes only if every job it names ended   *)
(* well; a job that was skipped, removed or lost its client did not.  The  *)
(* results reach the new job by three ways (the finished list, the notify  *)
(* list, "unknown"), which this compares with what happened.               *)
RunsOnlyAfterSuccess ==
    \A n \in DOMAIN client_cs :
        LET c == client_cs[n].socket
            j == client_cs[n].jobid
        IN  Executing(n) /\ command[c].require_elevel =>
              \A d \in Predecessors(c, j) : outcome[d] = {0}

(* A client waiting for a job (-w), whose request the server has read, has *)
(* its answer or is on the notify list of a job that can still end.        *)
NoForgottenWaiter ==
    server = "up" =>
    \A c \in Clients :
        /\ pc[c] = "wait_answer"
        /\ command[c].request = "WAITJOB"
        /\ to_server[c] = <<>>
        => \/ to_client[c] # <<>>
           \/ \E n \in first_notify :
                n.socket = c /\ n.jobid \in Range(firstjob)

(* What a client waiting for job j is told is how job j ended.             *)
WaiterGetsResult ==
    \A c \in Clients :
        /\ pc[c] = "wait_answer"
        /\ command[c].request = "WAITJOB"
        /\ command[c].jobid \in JobIds
        => \A n \in DOMAIN to_client[c] :
             to_client[c][n].type = "WAITJOB_OK" =>
               outcome[command[c].jobid] = {to_client[c][n].val}

(* The list of results respects TS_MAXFINISHED, and the jobs of `ts -nf'   *)
(* that pass through it for the sake of a waiter do not stay.              *)
ResultsBounded ==
    /\ Len(first_finished_job) <= MaxFinished
    /\ \A j \in Range(first_finished_job) : job[j].should_keep_finished

(* A job that ends and whose result is to be kept is in the list of        *)
(* results right after it has ended.                                       *)
ResultStored ==
    [][\A j \in JobIds :
         /\ job[j].state \in Live /\ job[j].should_keep_finished
         /\ j \in Range(firstjob) /\ j \notin Range(firstjob')
         /\ last_finished_jobid' = j
         => j \in Range(first_finished_job')]_vars

(* A client that will send something, or close, without waiting for its    *)
(* command to end.                                                         *)
WillTalk(c) ==
    \/ to_server[c] # <<>>
    \/ pc[c] \in {"closed", "wait_logdir", "skipped"}
    \/ Coming(c, "RUNJOB")

(* The server starts one job in each round and sleeps in select without a  *)
(* timeout.  It never sleeps beside a job that could run while only the    *)
(* end of some command can wake it.                                        *)
PromptStart ==
    /\ server = "up" /\ i = 0
    /\ busy_slots < max_slots
    /\ \E q \in DOMAIN firstjob : Runnable(q)
    => \E c \in Clients : WillTalk(c)

-----------------------------------------------------------------------------
(* The abstract specification of a job's life, and how the server's tables *)
(* represent it.  A job that is held, because the queue is full, waits; a  *)
(* job that is in no list any more has ended if its id was given out.      *)
Life ==
    [j \in JobIds |->
        IF j >= jobids THEN "new"
        ELSE IF job[j].state = "RUNNING" THEN "running"
        ELSE IF job[j].state \in Live THEN "waiting" ELSE "ended"]

Size == [j \in JobIds |->
           IF job[j].state \in Live THEN job[j].num_slots ELSE 0]

Lifecycle == INSTANCE JobLifecycle
               WITH life <- Life, size <- Size, result <- outcome,
                    limit <- max_slots

(* The server implements JobLifecycle: whatever clients send, in whatever  *)
(* order they die, every job is started at most once and only into free    *)
(* slots, ends exactly once with one result, and never comes back.         *)
ImplementsLifecycle == Lifecycle!Spec

-----------------------------------------------------------------------------
(* Every ts process returns sooner or later: submitted jobs get their turn *)
(* and end, waiting clients are told, other commands are answered.         *)
ClientsReturn ==
    \A c \in Clients : pc[c] # "idle" ~> (pc[c] = "idle" \/ server # "up")
=============================================================================
