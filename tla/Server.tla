------------------------------- MODULE Server -------------------------------
(***************************************************************************)
(* The task spooler: one server process (server.c, jobs.c) and the `ts'    *)
(* client processes that talk to it over a Unix stream socket (client.c,   *)
(* execute.c, main.c).                                                     *)
(*                                                                         *)
(* Every `ts' invocation is a process with one connection.  `ts command'   *)
(* keeps its process and its connection until its job ends, because it is  *)
(* the client that runs the job when the server says RUNJOB.  The server   *)
(* is a single thread: it selects, serves at most one message of every     *)
(* connection that was readable, then starts at most one job, and selects  *)
(* again.  Clients send, exit and die between any two of those steps.      *)
(*                                                                         *)
(* This is the CPU build: the ALLOCATING state and the GPU tables are not  *)
(* part of this module.                                                    *)
(***************************************************************************)
EXTENDS Integers, Sequences, FiniteSets, SequencesExt

CONSTANTS
    Clients,          \* ts processes; a client's name is also its socket
    Mortal,           \* the clients that may be killed at any moment
    CommandLines,     \* the command lines the users may type
    ExitCodes,        \* how a command may end (result.errorlevel)
    JobIdBound,       \* bound: the number of jobs ever submitted
    MaxDescriptors,   \* max_descriptors: TS_MAXCONN or the system's limit
    MaxFinished,      \* get_max_finished_jobs(): TS_MAXFINISHED or 1000
    InitSlots         \* max_slots at the start: TS_SLOTS or 1

JobIds == 0 .. (JobIdBound - 1)

(* max_jobs: the queue is full when it holds that many jobs.               *)
max_jobs == MaxDescriptors - 5

(* Requests that the client sends and then closes, without an answer.      *)
OneWay == {"KILL_SERVER", "CLEAR_FINISHED", "SET_MAX_SLOTS"}

(* Requests the server answers without changing anything.                  *)
Queries == {"GET_MAX_SLOTS", "COUNT_RUNNING", "GET_STATE", "LAST_ID"}

Requests == OneWay \cup Queries \cup
    {"NEWJOB", "LIST", "REMOVEJOB", "WAITJOB", "URGENT", "SWAP_JOBS"}

(* struct Command_line, as far as the server or the protocol depends on    *)
(* it.  depend_on is the list of -d (-1), -D or -W as a set.               *)
CommandLine == [request: Requests, jobid: Int, jobid2: Int, num_slots: Nat,
                should_keep_finished: BOOLEAN, depend_on: SUBSET Int,
                require_elevel: BOOLEAN, wait_enqueuing: BOOLEAN,
                max_slots: Int]

NoCommand == [request |-> "LIST", jobid |-> -1, jobid2 |-> -1,
              num_slots |-> 1, should_keep_finished |-> TRUE,
              depend_on |-> {}, require_elevel |-> FALSE,
              wait_enqueuing |-> TRUE, max_slots |-> 1]

ASSUME ConstantsAssumption ==
    /\ IsFiniteSet(Clients)
    /\ Mortal \subseteq Clients
    /\ CommandLines \subseteq CommandLine
    /\ ExitCodes \subseteq Int
    /\ JobIdBound \in Nat
    /\ MaxDescriptors \in Nat \ {0}
    /\ MaxFinished \in Nat
    /\ InitSlots \in Nat \ {0}

Live == {"QUEUED", "RUNNING", "HOLDING_CLIENT"}
Done == {"FINISHED", "SKIPPED"}

(* struct Job.  Of dependency_errorlevel only "zero or not" is kept, the   *)
(* only thing ever asked of it; state "NONE" is a job in no list.          *)
Job == [state: Live \cup Done \cup {"NONE"}, num_slots: Nat,
        should_keep_finished: BOOLEAN, depend_on: SUBSET Int,
        notify_errorlevel_to: SUBSET JobIds,
        dependency_errorlevel: {0, 1}, errorlevel: Int]

NoJob == [state |-> "NONE", num_slots |-> 0, should_keep_finished |-> FALSE,
          depend_on |-> {}, notify_errorlevel_to |-> {},
          dependency_errorlevel |-> 0, errorlevel |-> 0]

(* The points where the server process stops by a failed check (error())   *)
(* or by an invalid memory access.                                         *)
Faults == {"busy_slots", "new_finished_job", "check_notify_list",
           "destroy_finished_job", "s_move_urgent"}

(* struct Msg of client to server, and of server to client.                *)
ClientMsg == [type: Requests \cup {"GET_LOGDIR", "RUNJOB_OK", "ENDJOB"},
              errorlevel: Int, skipped: BOOLEAN]
ServerMsg == [type: {"NEWJOB_OK", "NEWJOB_NOK", "RUNJOB", "LOGDIR",
                     "WAITJOB_OK", "ANSWER", "LIST_LINE"}, val: Int]

(* struct Client_conn, and struct Notify.                                  *)
Connection == [socket: Clients, hasjob: BOOLEAN, jobid: Int]
Notify == [socket: Clients, jobid: JobIds]

VARIABLES
    \* jobs.c
    firstjob,              \* the queue: running, queued and held jobs
    first_finished_job,    \* the list of stored results
    job,                   \* the struct Job of every id
    busy_slots, max_slots, jobids, last_errorlevel, last_finished_jobid,
    first_notify,          \* the clients waiting for a job (-w)
    \* server.c
    server,                \* "up", "ended" or the fault that stopped it
    client_cs,             \* the connections, in order of acceptance
    readset,               \* what select reported and is still unserved
    i,                     \* 0: in select; n: the scan goes on at index n
    keep_loop,
    \* sockets
    backlog,               \* connections the server has not accepted yet
    to_server, to_client,  \* bytes in flight on each connection
    \* clients
    pc, command,
    \* history
    outcome                \* {} or {errorlevel}: how each job ended

queueVars   == <<firstjob, first_finished_job, job, jobids, outcome>>
resultVars  == <<last_errorlevel, last_finished_jobid>>
jobsVars    == <<queueVars, resultVars, busy_slots, max_slots, first_notify>>
loopVars    == <<server, client_cs, readset, i, keep_loop>>
socketVars  == <<backlog, to_server, to_client, pc, command>>
vars        == <<jobsVars, loopVars, socketVars>>

ClientStates == {"idle", "wait_newjob_ok", "wait_server_commands",
                 "wait_logdir", "running", "skipped", "wait_answer", "closed"}

(* The tables of jobs.c.                                                   *)
JobsTypeOK ==
    /\ firstjob \in Seq(JobIds)
    /\ first_finished_job \in Seq(JobIds)
    /\ job \in [JobIds -> Job]
    /\ busy_slots \in Nat
    /\ max_slots \in Nat \ {0}
    /\ jobids \in 0 .. JobIdBound
    /\ last_errorlevel \in Int
    /\ last_finished_jobid \in Int
    /\ first_notify \subseteq Notify
    /\ outcome \in [JobIds -> SUBSET Int]

(* The array client_cs with the max_descriptors entries that server_main   *)
(* has allocated.                                                          *)
ConnectionsTypeOK ==
    /\ client_cs \in Seq(Connection)
    /\ Len(client_cs) <= MaxDescriptors
    /\ keep_loop \in BOOLEAN

(* The rest of the loop's state, the sockets and the clients.              *)
SocketsTypeOK ==
    /\ server \in {"up", "ended"} \cup Faults
    /\ readset \subseteq Clients
    /\ i \in Nat
    /\ backlog \in Seq(Clients)
    /\ to_server \in [Clients -> Seq(ClientMsg)]
    /\ to_client \in [Clients -> Seq(ServerMsg)]
    /\ pc \in [Clients -> ClientStates]
    /\ command \in [Clients -> CommandLine]

(* Type correctness.  Among other things busy_slots never gets negative,   *)
(* and client_cs is never written beyond its end.                          *)
TypeOK == JobsTypeOK /\ ConnectionsTypeOK /\ SocketsTypeOK

Init ==
    /\ firstjob = <<>>
    /\ first_finished_job = <<>>
    /\ job = [j \in JobIds |-> NoJob]
    /\ busy_slots = 0
    /\ max_slots = InitSlots
    /\ jobids = 0
    /\ last_errorlevel = 0
    /\ last_finished_jobid = 0
    /\ first_notify = {}
    /\ server = "up"
    /\ client_cs = <<>>
    /\ readset = {}
    /\ i = 0
    /\ keep_loop = TRUE
    /\ backlog = <<>>
    /\ to_server = [c \in Clients |-> <<>>]
    /\ to_client = [c \in Clients |-> <<>>]
    /\ pc = [c \in Clients |-> "idle"]
    /\ command = [c \in Clients |-> NoCommand]
    /\ outcome = [j \in JobIds |-> {}]

-----------------------------------------------------------------------------
(* Sockets.                                                                *)

(* recv on c's socket returns at once: there is a message, or the client   *)
(* has closed its end and everything before that has been read.            *)
Readable(c) == to_server[c] # <<>> \/ pc[c] = "closed"

Connected(c) ==
    /\ server = "up"
    /\ \/ c \in Range(backlog)
       \/ \E n \in DOMAIN client_cs : client_cs[n].socket = c

Message(type, errorlevel, skipped) ==
    [type |-> type, errorlevel |-> errorlevel, skipped |-> skipped]

(* val is an errorlevel; the ids and texts that answers carry are only     *)
(* printed by the client and are left out.                                 *)
Reply(type, val) == [type |-> type, val |-> val]

(* send_msg: out gives the message for each client in its domain.  A       *)
(* message to a client that has closed its end is lost with a warning.     *)
SendMsg(out) ==
    to_client' = [c \in Clients |->
        IF c \in DOMAIN out /\ pc[c] # "closed"
        THEN Append(to_client[c], out[c]) ELSE to_client[c]]

(* The server's end of the sockets in S is closed; a client that had       *)
(* already exited leaves nothing behind.                                   *)
CloseSockets(S) ==
    /\ pc' = [c \in Clients |->
         IF c \in S /\ pc[c] = "closed" THEN "idle" ELSE pc[c]]
    /\ command' = [c \in Clients |->
         IF c \in S /\ pc[c] = "closed" THEN NoCommand ELSE command[c]]

-----------------------------------------------------------------------------
(* The frame of the server loop.                                           *)

(* The scan of server_loop stands at connection k, which is readable.      *)
Turn(k) ==
    /\ server = "up"
    /\ i # 0
    /\ k \in DOMAIN client_cs
    /\ k >= i
    /\ client_cs[k].socket \in readset
    /\ \A n \in DOMAIN client_cs :
         n >= i /\ n < k => client_cs[n].socket \notin readset

(* client_read finds a message of this type on connection k.               *)
Serve(k, type) ==
    /\ Turn(k)
    /\ to_server[client_cs[k].socket] # <<>>
    /\ Head(to_server[client_cs[k].socket]).type = type

(* client_read finds the end of the stream.                                *)
EndOfStream(k) ==
    /\ Turn(k)
    /\ to_server[client_cs[k].socket] = <<>>

(* client_read is over: the message is consumed, the answers are sent, the *)
(* sockets in S are closed and the scan goes on at k + 1.                  *)
Served(k, out, S) ==
    LET s == client_cs[k].socket
    IN  /\ i' = k + 1
        /\ readset' = readset \ {s}
        /\ to_server' = [c \in Clients |->
             IF c \in S THEN <<>>
             ELSE IF c = s THEN Tail(to_server[c]) ELSE to_server[c]]
        /\ SendMsg(out)
        /\ CloseSockets(S)
        /\ UNCHANGED <<server, backlog>>

(* One message m for one client, and no message at all.                    *)
To(c, m) == [x \in {c} |-> m]
Nothing == <<>>

(* A plausible mistake: one connection more than client_cs has room for.   *)
AcceptMoreOffByOne == Len(client_cs) <= MaxDescriptors

(* The listening socket is in the select set.                              *)
AcceptMore == Len(client_cs) < MaxDescriptors

(* select, and at most one accept.  The accepted connection is not in      *)
(* readset: it is read in the next round at the earliest.                  *)
Select ==
    LET accept == backlog # <<>> /\ AcceptMore
        ready  == {c \in Clients :
                     /\ \E n \in DOMAIN client_cs : client_cs[n].socket = c
                     /\ Readable(c)}
    IN  /\ server = "up"
        /\ i = 0
        /\ accept \/ ready # {}
        /\ i' = 1
        /\ readset' = ready
        /\ client_cs' =
             IF accept
             THEN Append(client_cs, [socket |-> Head(backlog),
                                     hasjob |-> FALSE, jobid |-> -1])
             ELSE client_cs
        /\ backlog' = IF accept THEN Tail(backlog) ELSE backlog
        /\ UNCHANGED <<jobsVars, server, keep_loop, to_server, to_client,
                       pc, command>>

-----------------------------------------------------------------------------
(* The tables of jobs.c.                                                   *)

(* findjob: where the job is in the queue, as a set of at most one.        *)
InQueue(j) == {q \in DOMAIN firstjob : firstjob[q] = j}

(* The search of the commands that name a job: -1 is the last of the list. *)
Named(list, jobid) ==
    IF jobid = -1 THEN {Len(list)} \ {0}
    ELSE {q \in DOMAIN list : list[q] = jobid}

(* find_last_jobid_in_queue, find_last_stored_jobid_finished: the largest  *)
(* id, -1 if there is none; as a set of one.                               *)
LastId(S) == IF S = {} THEN {-1} ELSE {m \in S : \A x \in S : x <= m}

(* get_conn_of_jobid, as a set of at most one.                             *)
ConnOf(j) == {n \in DOMAIN client_cs :
                client_cs[n].hasjob /\ client_cs[n].jobid = j}

(* The clients on the notify list for job j.                               *)
Waiters(j) == {c \in Clients : [socket |-> c, jobid |-> j] \in first_notify}

(* A job in neither list is destroyed, or cannot be found any more.        *)
Sweep(table, queue, finished) ==
    [x \in JobIds |->
        IF x \in Range(queue) \cup Range(finished) THEN table[x] ELSE NoJob]

(* A plausible mistake: the last result heard replaces the earlier ones.   *)
NotifyErrorlevelLast(j, errorlevel) ==
    [x \in JobIds |->
        IF x \in job[j].notify_errorlevel_to
        THEN [job[x] EXCEPT !.dependency_errorlevel =
                              IF errorlevel # 0 THEN 1 ELSE 0]
        ELSE job[x]]

(* notify_errorlevel: the jobs depending on j learn its result.            *)
NotifyErrorlevel(j, errorlevel) ==
    [x \in JobIds |->
        IF errorlevel # 0 /\ x \in job[j].notify_errorlevel_to
        THEN [job[x] EXCEPT !.dependency_errorlevel = 1] ELSE job[x]]

(* Plausible mistakes: one result too many; the new result is the one that *)
(* is dropped.                                                             *)
NewFinishedJobOffByOne(j) ==
    IF Len(first_finished_job) <= MaxFinished
    THEN Append(first_finished_job, j)
    ELSE Append(Tail(first_finished_job), j)

NewFinishedJobDropped(j) ==
    IF Len(first_finished_job) < MaxFinished
    THEN Append(first_finished_job, j) ELSE first_finished_job

(* new_finished_job: the list of results with j added at its end and, if   *)
(* the list is full, without its first.  If that first is also the last,   *)
(* j is hung on the job that has just been freed and the list ends empty.  *)
NewFinishedJob(j) ==
    IF Len(first_finished_job) < MaxFinished
    THEN Append(first_finished_job, j)
    ELSE IF Len(first_finished_job) <= 1 THEN <<>>
    ELSE Append(Tail(first_finished_job), j)

(* The faults that ending a job can run into: job_finished's check of      *)
(* busy_slots; in new_finished_job, the empty list with limit 0 and the    *)
(* freed job with limit 1; the waited job that check_notify_list no longer *)
(* finds; the walk of destroy_finished_job, which advances by ++i and so   *)
(* leaves the list when the job is third or later.                         *)
FinishFaults(keep, waited) ==
    IF busy_slots <= 0 THEN {"busy_slots"}
    ELSE {f \in {"new_finished_job"} :
            (keep \/ waited) /\ MaxFinished <= 1
              /\ Len(first_finished_job) = MaxFinished}
      \cup {f \in {"check_notify_list"} :
            waited /\ MaxFinished = 1 /\ Len(first_finished_job) = 1}
      \cup {f \in {"destroy_finished_job"} :
            waited /\ ~keep /\ MaxFinished >= 3
              /\ Len(first_finished_job) >= 2}

(* Of those, the ones that cannot go well by luck.                         *)
MustFail(keep, waited) ==
    \/ busy_slots <= 0
    \/ (keep \/ waited) /\ MaxFinished = 0
    \/ waited /\ MaxFinished = 1 /\ Len(first_finished_job) = 1

(* A plausible mistake: slots are given back for a job that had none.      *)
BusySlotsAlwaysFreed(j) == busy_slots - job[j].num_slots

(* busy_slots when job j ends: only a running job had taken its slots.     *)
BusySlotsAfter(j) ==
    IF job[j].state = "RUNNING" THEN busy_slots - job[j].num_slots
    ELSE busy_slots

(* job_finished and the check_notify_list that always follows it, for the  *)
(* job at place q of the queue.  A job that is not to be kept goes through *)
(* the list of results only if somebody waits for it, and leaves it again. *)
JobFinished(q, errorlevel, state) ==
    LET j        == firstjob[q]
        keep     == job[j].should_keep_finished
        waited   == Waiters(j) # {}
        queue    == RemoveAt(firstjob, q)
        finished == IF keep THEN NewFinishedJob(j)
                    ELSE IF waited THEN Front(NewFinishedJob(j))
                    ELSE first_finished_job
        told     == NotifyErrorlevel(j, errorlevel)
    IN  /\ ~MustFail(keep, waited)
        /\ firstjob' = queue
        /\ first_finished_job' = finished
        /\ job' = Sweep([told EXCEPT ![j].state = state,
                                     ![j].errorlevel = errorlevel],
                        queue, finished)
        /\ busy_slots' = BusySlotsAfter(j)
        /\ last_errorlevel' = errorlevel
        /\ last_finished_jobid' = j
        /\ first_notify' = {n \in first_notify : n.jobid # j}
        /\ outcome' = [outcome EXCEPT ![j] = {errorlevel}]
        /\ UNCHANGED <<jobids, max_slots>>

(* Plausible mistakes: only one waiter is told; the waiters are told the   *)
(* previous result.                                                        *)
WaitjobOkOnce(j, errorlevel) ==
    [c \in {x \in Waiters(j) : x = CHOOSE w \in Waiters(j) : TRUE} |->
        Reply("WAITJOB_OK", errorlevel)]

WaitjobOkStale(j, errorlevel) ==
    [c \in Waiters(j) |-> Reply("WAITJOB_OK", last_errorlevel)]

(* What check_notify_list sends when job j has ended.                      *)
WaitjobOk(j, errorlevel) ==
    [c \in Waiters(j) |-> Reply("WAITJOB_OK", errorlevel)]

(* The server process stops at f.                                          *)
Die(f) ==
    /\ server' = f
    /\ UNCHANGED <<jobsVars, client_cs, readset, i, keep_loop, socketVars>>

-----------------------------------------------------------------------------
(* NEWJOB.                                                                 *)

(* count_not_finished_jobs() counts the new job too.                       *)
QueueFull == Len(firstjob) + 1 >= max_jobs

(* -d means the last job of the queue, unless a later one has finished.    *)
LastIsQueued(lastq) == lastq # -1 /\ ~(last_finished_jobid > lastq)

(* The dependencies the job keeps: ids of later jobs are dropped, -1 is    *)
(* replaced by the last job, queued (lastq) or else stored (lastf).        *)
DependOn(c, new, lastq, lastf) ==
    {IF d # -1 THEN d ELSE IF LastIsQueued(lastq) THEN lastq ELSE lastf :
        d \in {x \in c.depend_on : x < new}}

(* Some dependency is known to have failed already.  An unknown job counts *)
(* as failed.                                                              *)
DependencyFailed(c, new, lastq, lastf) ==
    \E d \in {x \in c.depend_on : x < new} :
        IF d = -1
        THEN /\ ~LastIsQueued(lastq)
             /\ IF last_finished_jobid < lastf
                THEN job[lastf].errorlevel # 0 ELSE last_errorlevel # 0
        ELSE /\ d \notin Range(firstjob)
             /\ d \in Range(first_finished_job) => job[d].errorlevel # 0

(* The table of jobs after s_newjob: the new job, and its id with the      *)
(* queued jobs that will have to tell it how they end.                     *)
WithNewJob(c, new, state, lastq, lastf) ==
    LET depend_on == DependOn(c, new, lastq, lastf)
    IN  [x \in JobIds |->
          IF x = new
          THEN [state |-> state, num_slots |-> c.num_slots,
                should_keep_finished |-> c.should_keep_finished,
                depend_on |-> depend_on, notify_errorlevel_to |-> {},
                dependency_errorlevel |->
                  IF DependencyFailed(c, new, lastq, lastf) THEN 1 ELSE 0,
                errorlevel |-> 0]
          ELSE IF x \in depend_on /\ x \in Range(firstjob)
          THEN [job[x] EXCEPT !.notify_errorlevel_to = @ \cup {new}]
          ELSE job[x]]

(* s_newjob; the client is told NEWJOB_OK at once, or is left without an   *)
(* answer while the queue is full.                                         *)
Newjob(k) ==
    LET s == client_cs[k].socket
    IN  /\ Serve(k, "NEWJOB")
        /\ jobids \in JobIds
        /\ QueueFull => command[s].wait_enqueuing
        /\ \E lastq \in LastId(Range(firstjob)),
              lastf \in LastId(Range(first_finished_job)) :
             job' = WithNewJob(command[s], jobids,
                       IF QueueFull THEN "HOLDING_CLIENT" ELSE "QUEUED",
                       lastq, lastf)
        /\ firstjob' = Append(firstjob, jobids)
        /\ jobids' = jobids + 1
        /\ client_cs' = [client_cs EXCEPT ![k] =
             [socket |-> s, hasjob |-> TRUE, jobid |-> jobids]]
        /\ Served(k, IF QueueFull THEN Nothing
                     ELSE To(s, Reply("NEWJOB_OK", 0)), {})
        /\ UNCHANGED <<first_finished_job, outcome, resultVars, busy_slots,
                       max_slots, first_notify, keep_loop>>

(* The queue is full and the client said -B: it is told so, and its job is *)
(* ended at once as if the client had disappeared.                         *)
NewjobNok(k) ==
    LET s        == client_cs[k].socket
        keep     == command[s].should_keep_finished
        finished == IF keep THEN NewFinishedJob(jobids)
                    ELSE first_finished_job
    IN  /\ Serve(k, "NEWJOB")
        /\ jobids \in JobIds
        /\ QueueFull /\ ~command[s].wait_enqueuing
        /\ ~MustFail(keep, FALSE)
        /\ \E lastq \in LastId(Range(firstjob)),
              lastf \in LastId(Range(first_finished_job)) :
             job' = Sweep([WithNewJob(command[s], jobids, "FINISHED",
                                      lastq, lastf)
                             EXCEPT ![jobids].errorlevel = -1],
                          firstjob, finished)
        /\ first_finished_job' = finished
        /\ jobids' = jobids + 1
        /\ last_errorlevel' = -1
        /\ last_finished_jobid' = jobids
        /\ outcome' = [outcome EXCEPT ![jobids] = {-1}]
        /\ client_cs' = RemoveAt(client_cs, k)
        /\ Served(k, To(s, Reply("NEWJOB_NOK", 0)), {s})
        /\ UNCHANGED <<firstjob, busy_slots, max_slots, first_notify,
                       keep_loop>>

(* The same, when ending the rejected job stops the server.                *)
NewjobNokFault(k) ==
    LET s == client_cs[k].socket
    IN  /\ Serve(k, "NEWJOB")
        /\ jobids \in JobIds
        /\ QueueFull /\ ~command[s].wait_enqueuing
        /\ \E f \in FinishFaults(command[s].should_keep_finished, FALSE) :
             Die(f)

-----------------------------------------------------------------------------
(* The other messages of a job's client.                                   *)

(* get_logdir, asked by a client about to run its job.                     *)
GetLogdir(k) ==
    /\ Serve(k, "GET_LOGDIR")
    /\ Served(k, To(client_cs[k].socket, Reply("LOGDIR", 0)), {})
    /\ UNCHANGED <<jobsVars, client_cs, keep_loop>>

(* s_process_runjob_ok: records the pid and the output file of a job that  *)
(* must be in the queue and RUNNING.                                       *)
RunjobOk(k) ==
    /\ Serve(k, "RUNJOB_OK")
    /\ \E q \in InQueue(client_cs[k].jobid) :
         job[firstjob[q]].state = "RUNNING"
    /\ Served(k, Nothing, {})
    /\ UNCHANGED <<jobsVars, client_cs, keep_loop>>

(* A plausible mistake: the connection keeps its job.                      *)
KeepJob(k) == client_cs

(* hasjob = 0: the connection has nothing to do with the job any more.     *)
ForgetJob(k) == [client_cs EXCEPT ![k].hasjob = FALSE]

(* ENDJOB: the client reports the result of its command.                   *)
EndJob(k) ==
    LET m == Head(to_server[client_cs[k].socket])
        j == client_cs[k].jobid
    IN  /\ Serve(k, "ENDJOB")
        /\ \E q \in InQueue(j) :
             JobFinished(q, m.errorlevel,
                         IF m.skipped THEN "SKIPPED" ELSE "FINISHED")
        /\ client_cs' = ForgetJob(k)
        /\ Served(k, WaitjobOk(j, m.errorlevel), {})
        /\ UNCHANGED keep_loop

(* clean_after_client_disappeared for a client that still has a job: the   *)
(* job ends with -1, whatever state it was in.                             *)
JobClientDisappeared(k) ==
    LET j == client_cs[k].jobid
    IN  /\ EndOfStream(k)
        /\ client_cs[k].hasjob
        /\ \E q \in InQueue(j) : JobFinished(q, -1, "FINISHED")
        /\ client_cs' = RemoveAt(client_cs, k)
        /\ Served(k, WaitjobOk(j, -1), {client_cs[k].socket})
        /\ UNCHANGED keep_loop

(* ... and for any other client, which may have been waiting for a job.    *)
ClientDisappeared(k) ==
    LET s == client_cs[k].socket
    IN  /\ EndOfStream(k)
        /\ ~client_cs[k].hasjob
        /\ first_notify' = {n \in first_notify : n.socket # s}
        /\ client_cs' = RemoveAt(client_cs, k)
        /\ Served(k, Nothing, {s})
        /\ UNCHANGED <<queueVars, resultVars, busy_slots, max_slots,
                       keep_loop>>

(* Ending the job of connection k stops the server.                        *)
FinishFault(k) ==
    LET j == client_cs[k].jobid
    IN  /\ Serve(k, "ENDJOB") \/ (EndOfStream(k) /\ client_cs[k].hasjob)
        /\ InQueue(j) # {}
        /\ \E f \in FinishFaults(job[j].should_keep_finished,
                                 Waiters(j) # {}) : Die(f)

-----------------------------------------------------------------------------
(* The commands on the queue.                                              *)

(* s_remove_job of a job of the queue that is neither running nor first.   *)
(* Its dependents see it fail and its client is cut off.  The call         *)
(* check_notify_list(m.u.jobid) in it is about job 0 and finds nothing to  *)
(* do: job 0 is never behind the first place of the queue.                 *)
RemoveQueued(k) ==
    LET s == client_cs[k].socket
    IN  /\ Serve(k, "REMOVEJOB")
        /\ \E q \in Named(firstjob, command[s].jobid) :
             LET j     == firstjob[q]
                 queue == RemoveAt(firstjob, q)
             IN  /\ q > 1
                 /\ job[j].state # "RUNNING"
                 /\ firstjob' = queue
                 /\ job' = Sweep(NotifyErrorlevel(j, -1), queue,
                                 first_finished_job)
                 /\ outcome' = [outcome EXCEPT ![j] = {-1}]
                 /\ \E n \in ConnOf(j) :
                      /\ client_cs' = RemoveAt(client_cs, n)
                      /\ Served(k, To(s, Reply("ANSWER", 0)),
                                {client_cs[n].socket})
        /\ last_errorlevel' = -1
        /\ UNCHANGED <<first_finished_job, jobids, last_finished_jobid,
                       busy_slots, max_slots, first_notify, keep_loop>>

(* s_remove_job of a stored result; its dependents see it fail now.        *)
RemoveFinished(k) ==
    LET s == client_cs[k].socket
    IN  /\ Serve(k, "REMOVEJOB")
        /\ Named(firstjob, command[s].jobid) = {}
        /\ \E q \in Named(first_finished_job, command[s].jobid) :
             LET finished == RemoveAt(first_finished_job, q)
             IN  /\ first_finished_job' = finished
                 /\ job' = Sweep(NotifyErrorlevel(first_finished_job[q], -1),
                                 firstjob, finished)
        /\ last_errorlevel' = -1
        /\ Served(k, To(s, Reply("ANSWER", 0)), {})
        /\ UNCHANGED <<firstjob, jobids, outcome, last_finished_jobid,
                       busy_slots, max_slots, first_notify, client_cs,
                       keep_loop>>

RemoveRefused(k) ==
    LET s == client_cs[k].socket
    IN  /\ Serve(k, "REMOVEJOB")
        /\ \/ \E q \in Named(firstjob, command[s].jobid) :
                q = 1 \/ job[firstjob[q]].state = "RUNNING"
           \/ /\ Named(firstjob, command[s].jobid) = {}
              /\ Named(first_finished_job, command[s].jobid) = {}
        /\ Served(k, To(s, Reply("LIST_LINE", 0)), {})
        /\ UNCHANGED <<jobsVars, client_cs, keep_loop>>

(* s_wait_job of a job that has not ended: the answer comes later.         *)
WaitQueued(k) ==
    LET s == client_cs[k].socket
    IN  /\ Serve(k, "WAITJOB")
        /\ \E q \in Named(firstjob, command[s].jobid) :
             first_notify' = first_notify \cup
                               {[socket |-> s, jobid |-> firstjob[q]]}
        /\ Served(k, Nothing, {})
        /\ UNCHANGED <<queueVars, resultVars, busy_slots, max_slots,
                       client_cs, keep_loop>>

(* s_wait_job of a stored result, or of no job at all.                     *)
WaitAnswered(k) ==
    LET s == client_cs[k].socket
        f == Named(first_finished_job, command[s].jobid)
    IN  /\ Serve(k, "WAITJOB")
        /\ Named(firstjob, command[s].jobid) = {}
        /\ \/ \E q \in f :
                Served(k, To(s, Reply("WAITJOB_OK",
                            job[first_finished_job[q]].errorlevel)), {})
           \/ f = {} /\ Served(k, To(s, Reply("LIST_LINE", 0)), {})
        /\ UNCHANGED <<jobsVars, client_cs, keep_loop>>

(* Plausible mistakes: the job is linked in twice; it overtakes the first. *)
UrgeTwice(q) ==
    [n \in DOMAIN firstjob |-> IF n = 2 THEN firstjob[q] ELSE firstjob[n]]

UrgeFirst(q) ==
    [n \in DOMAIN firstjob |->
        IF n > q THEN firstjob[n]
        ELSE IF n = 1 THEN firstjob[q] ELSE firstjob[n - 1]]

(* s_move_urgent puts the job at place q behind the first one.             *)
Urge(q) ==
    [n \in DOMAIN firstjob |->
        IF n = 1 \/ n > q THEN firstjob[n]
        ELSE IF n = 2 THEN firstjob[q] ELSE firstjob[n - 1]]

MoveUrgent(k) ==
    LET s == client_cs[k].socket
    IN  /\ Serve(k, "URGENT")
        /\ \E q \in Named(firstjob, command[s].jobid) :
             q > 1 /\ firstjob' = Urge(q)
        /\ Served(k, To(s, Reply("ANSWER", 0)), {})
        /\ UNCHANGED <<first_finished_job, job, jobids, outcome, resultVars,
                       busy_slots, max_slots, first_notify, client_cs,
                       keep_loop>>

UrgentRefused(k) ==
    LET s == client_cs[k].socket
    IN  /\ Serve(k, "URGENT")
        /\ Named(firstjob, command[s].jobid) = {} \/ Len(firstjob) = 1
        /\ Served(k, To(s, Reply("LIST_LINE", 0)), {})
        /\ UNCHANGED <<jobsVars, client_cs, keep_loop>>

(* The first job has no previous one: find_previous_job returns 0, which   *)
(* s_move_urgent dereferences.                                             *)
UrgentFault(k) ==
    /\ Serve(k, "URGENT")
    /\ 1 \in Named(firstjob, command[client_cs[k].socket].jobid)
    /\ Len(firstjob) > 1
    /\ Die("s_move_urgent")

SwapJobs(k) ==
    LET s == client_cs[k].socket
    IN  /\ Serve(k, "SWAP_JOBS")
        /\ \E q1 \in InQueue(command[s].jobid),
              q2 \in InQueue(command[s].jobid2) :
             /\ q1 > 1 /\ q2 > 1
             /\ firstjob' = [firstjob EXCEPT ![q1] = firstjob[q2],
                                             ![q2] = firstjob[q1]]
        /\ Served(k, To(s, Reply("ANSWER", 0)), {})
        /\ UNCHANGED <<first_finished_job, job, jobids, outcome, resultVars,
                       busy_slots, max_slots, first_notify, client_cs,
                       keep_loop>>

SwapRefused(k) ==
    LET s == client_cs[k].socket
    IN  /\ Serve(k, "SWAP_JOBS")
        /\ InQueue(command[s].jobid) \subseteq {1}
             \/ InQueue(command[s].jobid2) \subseteq {1}
        /\ Served(k, To(s, Reply("LIST_LINE", 0)), {})
        /\ UNCHANGED <<jobsVars, client_cs, keep_loop>>

ClearFinished(k) ==
    /\ Serve(k, "CLEAR_FINISHED")
    /\ first_finished_job' = <<>>
    /\ job' = Sweep(job, firstjob, <<>>)
    /\ Served(k, Nothing, {})
    /\ UNCHANGED <<firstjob, jobids, outcome, resultVars, busy_slots,
                   max_slots, first_notify, client_cs, keep_loop>>

(* s_set_max_slots ignores what is not positive.                           *)
SetMaxSlots(k) ==
    LET new_max_slots == command[client_cs[k].socket].max_slots
    IN  /\ Serve(k, "SET_MAX_SLOTS")
        /\ max_slots' = IF new_max_slots > 0 THEN new_max_slots ELSE max_slots
        /\ Served(k, Nothing, {})
        /\ UNCHANGED <<queueVars, resultVars, busy_slots, first_notify,
                       client_cs, keep_loop>>

(* BREAK: the round is finished, the next one is not begun.                *)
KillServer(k) ==
    /\ Serve(k, "KILL_SERVER")
    /\ keep_loop' = FALSE
    /\ Served(k, Nothing, {})
    /\ UNCHANGED <<jobsVars, client_cs>>

(* s_list and the like: the lines are sent and the server closes.          *)
List(k) ==
    /\ Serve(k, "LIST")
    /\ client_cs' = RemoveAt(client_cs, k)
    /\ Served(k, To(client_cs[k].socket, Reply("LIST_LINE", 0)),
              {client_cs[k].socket})
    /\ UNCHANGED <<jobsVars, keep_loop>>

(* The queries answered with one message, or with one line if the job they *)
(* are about does not exist.                                               *)
Query(k) ==
    /\ \E type \in Queries : Serve(k, type)
    /\ Served(k, To(client_cs[k].socket, Reply("ANSWER", 0)), {})
    /\ UNCHANGED <<jobsVars, client_cs, keep_loop>>

-----------------------------------------------------------------------------
(* The end of a round: next_run_job.                                       *)

(* The scan has passed every connection that was readable.                 *)
ScanOver ==
    /\ server = "up"
    /\ i # 0
    /\ \A n \in DOMAIN client_cs : n >= i => client_cs[n].socket \notin readset

(* Plausible mistakes: the slots a job needs are not looked at, or one     *)
(* more is asked for; a running dependency is taken for a finished one.    *)
RunnableAnySize(q) ==
    LET j == job[firstjob[q]]
    IN  /\ j.state = "QUEUED"
        /\ \A d \in j.depend_on \cap JobIds :
             job[d].state \notin {"QUEUED", "RUNNING"}

RunnableStrict(q) ==
    RunnableAnySize(q) /\ job[firstjob[q]].num_slots < max_slots - busy_slots

RunnableEarly(q) ==
    LET j == job[firstjob[q]]
    IN  /\ j.state = "QUEUED"
        /\ \A d \in j.depend_on \cap JobIds : job[d].state # "QUEUED"
        /\ j.num_slots <= max_slots - busy_slots

(* The job at place q waits for no unfinished job and fits the free slots. *)
(* A held job does not count as unfinished here.                           *)
Runnable(q) ==
    LET j == job[firstjob[q]]
    IN  /\ j.state = "QUEUED"
        /\ \A d \in j.depend_on \cap JobIds :
             job[d].state \notin {"QUEUED", "RUNNING"}
        /\ j.num_slots <= max_slots - busy_slots

(* A plausible mistake: only the first queued job is looked at.            *)
NextRunJobHeadOnly ==
    {q \in DOMAIN firstjob :
        /\ max_slots - busy_slots > 0
        /\ Runnable(q)
        /\ \A r \in DOMAIN firstjob :
             r < q => job[firstjob[r]].state # "QUEUED"}

(* next_run_job: the first runnable job of the queue, as a set of one.     *)
NextRunJob ==
    {q \in DOMAIN firstjob :
        /\ max_slots - busy_slots > 0
        /\ Runnable(q)
        /\ \A r \in DOMAIN firstjob : r < q => ~Runnable(r)}

(* Back to select, or out of the loop and end_server after -K.             *)
LoopAgain ==
    /\ i' = 0
    /\ readset' = {}
    /\ server' = IF keep_loop THEN "up" ELSE "ended"
    /\ UNCHANGED <<client_cs, keep_loop, backlog, to_server, pc, command>>

(* A plausible mistake: every job that can be found is let in again.       *)
HeldJobsAnyState == {x \in JobIds : job[x].state # "NONE"}

(* The jobs that wake_hold_client lets in, one after the other.            *)
HeldJobs == {x \in JobIds : job[x].state = "HOLDING_CLIENT"}

(* A plausible mistake: the jobs are let in and their clients not told.    *)
NoClients == {}

(* The clients that wake_hold_client finds, one after the other.           *)
HeldClients == {c \in Clients : \E x \in HeldJobs :
                  \E n \in ConnOf(x) : client_cs[n].socket = c}

(* The job is marked running and its client is told to run it; then every  *)
(* held client is let in, whatever the length of the queue.                *)
StartJob ==
    /\ ScanOver
    /\ \E q \in NextRunJob :
         LET j == firstjob[q]
         IN  \E n \in ConnOf(j) :
             LET s == client_cs[n].socket
             IN /\ job' = [x \in JobIds |->
                     IF x = j THEN [job[x] EXCEPT !.state = "RUNNING"]
                     ELSE IF x \in HeldJobs
                     THEN [job[x] EXCEPT !.state = "QUEUED"] ELSE job[x]]
                /\ busy_slots' = busy_slots + job[j].num_slots
                /\ SendMsg([c \in HeldClients \cup {s} |->
                     IF c = s
                     THEN Reply("RUNJOB", job[j].dependency_errorlevel)
                     ELSE Reply("NEWJOB_OK", 0)])
    /\ LoopAgain
    /\ UNCHANGED <<firstjob, first_finished_job, jobids, outcome, resultVars,
                   max_slots, first_notify>>

NothingToRun ==
    /\ ScanOver
    /\ NextRunJob = {}
    /\ LoopAgain
    /\ UNCHANGED <<jobsVars, to_client>>

-----------------------------------------------------------------------------
(* The clients.                                                            *)

(* A NEWJOB message that the server has not read yet.                      *)
PendingNewjob(c) == to_server[c] # <<>> /\ Head(to_server[c]).type = "NEWJOB"

(* A user types a command line: ts connects and sends its request.  The    *)
(* bound JobIdBound is on the number of jobs submitted.                    *)
Connect(c, cmd) ==
    /\ server = "up"
    /\ pc[c] = "idle"
    /\ cmd.request = "NEWJOB" =>
         jobids + Cardinality({x \in Clients : PendingNewjob(x)}) < JobIdBound
    /\ backlog' = Append(backlog, c)
    /\ to_server' = [to_server EXCEPT ![c] = <<Message(cmd.request, 0, FALSE)>>]
    /\ to_client' = [to_client EXCEPT ![c] = <<>>]
    /\ command' = [command EXCEPT ![c] = cmd]
    /\ pc' = [pc EXCEPT ![c] =
         IF cmd.request = "NEWJOB" THEN "wait_newjob_ok"
         ELSE IF cmd.request \in OneWay THEN "closed" ELSE "wait_answer"]
    /\ UNCHANGED <<jobsVars, loopVars>>

(* The client process ends and its end of the connection is closed; what   *)
(* it has sent stays readable.                                             *)
Exit(c) ==
    /\ pc' = [pc EXCEPT ![c] = IF Connected(c) THEN "closed" ELSE "idle"]
    /\ command' = [command EXCEPT ![c] = IF Connected(c) THEN @ ELSE NoCommand]
    /\ to_client' = [to_client EXCEPT ![c] = <<>>]
    /\ UNCHANGED <<jobsVars, loopVars, backlog>>

(* The client receives a message of this type and goes on in state next.   *)
Receive(c, type, next) ==
    /\ to_client[c] # <<>>
    /\ Head(to_client[c]).type = type
    /\ to_client' = [to_client EXCEPT ![c] = Tail(@)]
    /\ pc' = [pc EXCEPT ![c] = next]
    /\ UNCHANGED <<jobsVars, loopVars, backlog, command>>

(* send_msg by a client; without a server the message is lost.             *)
SendToServer(c, m) ==
    to_server' = [to_server EXCEPT ![c] = IF Connected(c) THEN Append(@, m)
                                          ELSE @]

WaitNewjobOk(c) ==
    /\ pc[c] = "wait_newjob_ok"
    /\ Receive(c, "NEWJOB_OK", "wait_server_commands")
    /\ UNCHANGED to_server

(* EXITCODE_QUEUE_FULL.                                                    *)
NewjobRejected(c) ==
    /\ pc[c] = "wait_newjob_ok"
    /\ to_client[c] # <<>>
    /\ Head(to_client[c]).type = "NEWJOB_NOK"
    /\ Exit(c)
    /\ UNCHANGED to_server

(* Whether RUNJOB makes the client skip its command (-W).                  *)
Skips(c) ==
    /\ command[c].depend_on # {}
    /\ command[c].require_elevel
    /\ Head(to_client[c]).val # 0

(* RUNJOB: run_job begins by asking for the log directory ...              *)
Runjob(c) ==
    /\ pc[c] = "wait_server_commands"
    /\ Receive(c, "RUNJOB", "wait_logdir")
    /\ ~Skips(c)
    /\ SendToServer(c, Message("GET_LOGDIR", 0, FALSE))

(* ... but a skipped command is only reported.                             *)
RunjobSkip(c) ==
    /\ pc[c] = "wait_server_commands"
    /\ Receive(c, "RUNJOB", "skipped")
    /\ Skips(c)
    /\ SendToServer(c, Message("RUNJOB_OK", 0, FALSE))

(* The command is forked and announced.                                    *)
RunChild(c) ==
    /\ pc[c] = "wait_logdir"
    /\ Receive(c, "LOGDIR", "running")
    /\ SendToServer(c, Message("RUNJOB_OK", 0, FALSE))

(* run_parent returns from wait(), the result is sent and the client exits.*)
EndOfJob(c) ==
    /\ pc[c] = "running"
    /\ \E e \in ExitCodes : SendToServer(c, Message("ENDJOB", e, FALSE))
    /\ Exit(c)

(* A plausible mistake: the end of the job is reported twice.              *)
EndOfSkippedJobTwice(c) ==
    /\ pc[c] = "skipped"
    /\ to_server' = [to_server EXCEPT ![c] =
         @ \o <<Message("ENDJOB", -1, TRUE), Message("ENDJOB", -1, TRUE)>>]
    /\ Exit(c)

(* The end of a command that was skipped.                                  *)
EndOfSkippedJob(c) ==
    /\ pc[c] = "skipped"
    /\ SendToServer(c, Message("ENDJOB", -1, TRUE))
    /\ Exit(c)

ReceiveAnswer(c) ==
    /\ pc[c] = "wait_answer"
    /\ to_client[c] # <<>>
    /\ Exit(c)
    /\ UNCHANGED to_server

(* recv returns 0: the server has closed the connection, or is gone.       *)
ConnectionClosed(c) ==
    /\ pc[c] \in {"wait_newjob_ok", "wait_server_commands", "wait_logdir",
                  "wait_answer"}
    /\ to_client[c] = <<>>
    /\ ~Connected(c)
    /\ Exit(c)
    /\ UNCHANGED to_server

(* The client is killed, wherever it is.                                   *)
Killed(c) ==
    /\ server = "up"
    /\ pc[c] \notin {"idle", "closed"}
    /\ Exit(c)
    /\ UNCHANGED to_server

-----------------------------------------------------------------------------
ClientRead(k) ==
    \/ Newjob(k) \/ NewjobNok(k) \/ NewjobNokFault(k)
    \/ GetLogdir(k) \/ RunjobOk(k) \/ EndJob(k)
    \/ JobClientDisappeared(k) \/ ClientDisappeared(k) \/ FinishFault(k)
    \/ RemoveQueued(k) \/ RemoveFinished(k) \/ RemoveRefused(k)
    \/ WaitQueued(k) \/ WaitAnswered(k)
    \/ MoveUrgent(k) \/ UrgentRefused(k) \/ UrgentFault(k)
    \/ SwapJobs(k) \/ SwapRefused(k)
    \/ ClearFinished(k) \/ SetMaxSlots(k) \/ KillServer(k)
    \/ List(k) \/ Query(k)

(* A client has one connection, so there are no more than these.           *)
Connections == 1 .. Cardinality(Clients)

ServerLoop ==
    \/ Select
    \/ \E k \in Connections : ClientRead(k)
    \/ StartJob
    \/ NothingToRun

ClientProcess(c) ==
    \/ WaitNewjobOk(c) \/ NewjobRejected(c)
    \/ Runjob(c) \/ RunjobSkip(c) \/ RunChild(c)
    \/ EndOfJob(c) \/ EndOfSkippedJob(c)
    \/ ReceiveAnswer(c) \/ ConnectionClosed(c)

Next ==
    \/ ServerLoop
    \/ \E c \in Clients : ClientProcess(c)
    \/ \E c \in Clients : \E cmd \in CommandLines : Connect(c, cmd)
    \/ \E c \in Mortal : Killed(c)

Spec == Init /\ [][Next]_vars

(* The server is one thread that runs whenever it can; a client that has   *)
(* something to do does it, and every command ends.  Nobody has to type a  *)
(* command, and nobody has to be killed.                                   *)
Fairness ==
    /\ WF_vars(ServerLoop)
    /\ \A c \in Clients : WF_vars(ClientProcess(c))

FairSpec == Spec /\ Fairness
=============================================================================
