---------------------------- MODULE ServerProofs ----------------------------
(***************************************************************************)
(* Proofs, for any number of clients, jobs, slots and connections, that    *)
(* the server's tables are well typed and consistent, that its counter of  *)
(* busy slots is exact, that it starts no job beyond the slot limit, and   *)
(* that it agrees with the clients about their jobs.                       *)
(***************************************************************************)
EXTENDS ServerProperties, ListLemmas, FiniteSetTheorems, TLAPS

(* The part of the inductive invariant that is about the tables of jobs.c. *)
(* The counter is only exact as long as a running job is always found in   *)
(* the queue, which is what QueueConsistent adds; that the occupied slots  *)
(* are finitely many makes their number meaningful.                        *)
JobsInv ==
    /\ JobsTypeOK
    /\ QueueConsistent
    /\ SlotAccounting
    /\ JobZeroFirst
    /\ IsFiniteSet(RunningSlots)

IInv == TypeOK /\ JobsInv

(* What SlotLimit says of a step.                                          *)
StartsFit ==
    (\E j \in JobIds : job[j].state # "RUNNING" /\ job'[j].state = "RUNNING")
      => Cardinality(RunningSlots') <= max_slots

(* A step that starts no job.                                              *)
NoStart ==
    \A j \in JobIds : job'[j].state = "RUNNING" => job[j].state = "RUNNING"

(* What a step does to the lives of the jobs, which is one of four things  *)
(* besides leaving them alone (where the limit may change).                *)
SameJob(x) ==
    /\ job'[x].state \in Live <=> job[x].state \in Live
    /\ job'[x].state = "RUNNING" <=> job[x].state = "RUNNING"
    /\ job[x].state \in Live => job'[x].num_slots = job[x].num_slots

Quiet ==
    /\ \A x \in JobIds : SameJob(x)
    /\ max_slots' \in Nat \ {0}
    /\ UNCHANGED <<jobids, outcome>>

Ends(j) ==
    /\ j \in JobIds
    /\ job[j].state \in Live /\ job'[j].state \notin Live
    /\ \A x \in JobIds \ {j} : SameJob(x)
    /\ \E e \in Int : outcome' = [outcome EXCEPT ![j] = {e}]
    /\ UNCHANGED <<jobids, max_slots>>

Submits ==
    /\ jobids \in JobIds
    /\ job'[jobids].state \in Live \ {"RUNNING"}
    /\ job'[jobids].num_slots \in Nat
    /\ \A x \in JobIds \ {jobids} : SameJob(x)
    /\ jobids' = jobids + 1
    /\ UNCHANGED <<outcome, max_slots>>

Rejects ==
    /\ jobids \in JobIds
    /\ job'[jobids].state \notin Live
    /\ \A x \in JobIds \ {jobids} : SameJob(x)
    /\ jobids' = jobids + 1
    /\ outcome' = [outcome EXCEPT ![jobids] = {-1}]
    /\ UNCHANGED max_slots

Starts(j) ==
    /\ j \in JobIds
    /\ job[j].state = "QUEUED" /\ job'[j].state = "RUNNING"
    /\ job'[j].num_slots = job[j].num_slots
    /\ \A x \in JobIds \ {j} : SameJob(x)
    /\ Cardinality(RunningSlots') <= max_slots
    /\ UNCHANGED <<jobids, outcome, max_slots>>

ServedEffect == Quiet \/ Submits \/ Rejects \/ \E j \in JobIds : Ends(j)

Effect == ServedEffect \/ \E j \in JobIds : Starts(j)

-----------------------------------------------------------------------------
(* Counting slots.                                                         *)

(* Two tables with the same running jobs occupy the same slots.            *)
LEMMA SlotsSame ==
    ASSUME NEW t, NEW u,
           \A x \in JobIds : t[x].state = "RUNNING" <=> u[x].state = "RUNNING",
           \A x \in JobIds : t[x].state = "RUNNING" =>
                               t[x].num_slots = u[x].num_slots
    PROVE  SlotsOf(t) = SlotsOf(u)
  BY DEF SlotsOf

(* A table u that has the running jobs of t and job j besides occupies the *)
(* slots of j besides.                                                     *)
LEMMA SlotsOneMore ==
    ASSUME NEW t, NEW u, NEW j \in JobIds,
           t[j].state # "RUNNING", u[j].state = "RUNNING",
           u[j].num_slots \in Nat,
           \A x \in JobIds \ {j} :
             t[x].state = "RUNNING" <=> u[x].state = "RUNNING",
           \A x \in JobIds \ {j} : t[x].state = "RUNNING" =>
             t[x].num_slots = u[x].num_slots
    PROVE  /\ IsFiniteSet(SlotsOf(t)) <=> IsFiniteSet(SlotsOf(u))
           /\ IsFiniteSet(SlotsOf(t)) =>
                Cardinality(SlotsOf(u))
                  = Cardinality(SlotsOf(t)) + u[j].num_slots
  <1> DEFINE n == u[j].num_slots
             new == {j} \X (1 .. n)
  <1>1. SlotsOf(u) = SlotsOf(t) \cup new
    BY DEF SlotsOf
  <1>2. SlotsOf(t) \cap new = {}
    BY DEF SlotsOf
  <1>3. IsFiniteSet(1 .. n) /\ Cardinality(1 .. n) = n
    <2>1. n \in Nat
      OBVIOUS
    <2> HIDE DEF n
    <2>2. /\ IsFiniteSet(1 .. n)
          /\ Cardinality(1 .. n) = IF 1 > n THEN 0 ELSE n - 1 + 1
      BY <2>1, FS_Interval, 1 \in Int, n \in Int
    <2>. QED  BY <2>1, <2>2
  <1>4. IsFiniteSet({j}) /\ Cardinality({j}) = 1
    BY FS_Singleton
  <1>5. IsFiniteSet(new) /\ Cardinality(new) = 1 * n
    BY <1>3, <1>4, FS_Product
  <1>6. Cardinality(new) = n
    BY <1>5
  <1>7. SlotsOf(t) \in SUBSET SlotsOf(u)
    BY <1>1
  <1> HIDE DEF new, n
  <1>8. IsFiniteSet(SlotsOf(u)) => IsFiniteSet(SlotsOf(t))
    BY <1>7, FS_Subset
  <1>9. ASSUME IsFiniteSet(SlotsOf(t))
        PROVE  /\ IsFiniteSet(SlotsOf(u))
               /\ Cardinality(SlotsOf(u)) = Cardinality(SlotsOf(t)) + n
    <2>1. /\ IsFiniteSet(SlotsOf(t) \cup new)
          /\ Cardinality(SlotsOf(t) \cup new) =
               Cardinality(SlotsOf(t)) + Cardinality(new)
                 - Cardinality(SlotsOf(t) \cap new)
      BY <1>5, <1>9, FS_Union
    <2>2. Cardinality(SlotsOf(t) \cap new) = 0
      BY <1>2, FS_EmptySet
    <2>3. Cardinality(SlotsOf(t)) \in Nat /\ n \in Nat
      BY <1>9, FS_CardinalityType DEF n
    <2>. QED  BY <1>1, <1>6, <2>1, <2>2, <2>3
  <1>. QED  BY <1>8, <1>9 DEF n

-----------------------------------------------------------------------------
(* Sockets.                                                                *)

(* Sending well-formed messages.                                           *)
LEMMA SendMsgType ==
    ASSUME SocketsTypeOK, NEW out,
           \A c \in DOMAIN out : out[c] \in ServerMsg, SendMsg(out)
    PROVE  to_client' \in [Clients -> Seq(ServerMsg)]
  BY DEF SocketsTypeOK, SendMsg

(* The end of a client_read keeps the types of the loop and the sockets.   *)
LEMMA ServedType ==
    ASSUME TypeOK, NEW k, Turn(k), NEW out, NEW S,
           \A c \in DOMAIN out : out[c] \in ServerMsg,
           to_server[client_cs[k].socket] # <<>> \/ client_cs[k].socket \in S,
           Served(k, out, S)
    PROVE  SocketsTypeOK'
  <1> USE DEF TypeOK, SocketsTypeOK, ConnectionsTypeOK
  <1>1. to_client' \in [Clients -> Seq(ServerMsg)]
    BY SendMsgType DEF Served
  <1>2. i' \in Nat
    BY LenProperties DEF Served, Turn
  <1>3. to_server' \in [Clients -> Seq(ClientMsg)]
    <2>1. \A c \in Clients : to_server[c] # <<>> =>
            Tail(to_server[c]) \in Seq(ClientMsg)
      BY HeadTailProperties
    <2>2. \A c \in Clients : to_server[c] \in Seq(ClientMsg)
      OBVIOUS
    <2>3. <<>> \in Seq(ClientMsg)
      BY EmptySeq
    <2> DEFINE s == client_cs[k].socket
    <2>4. to_server' = [c \in Clients |->
             IF c \in S THEN <<>>
             ELSE IF c = s THEN Tail(to_server[c]) ELSE to_server[c]]
      BY DEF Served
    <2>5. to_server[s] # <<>> \/ s \in S
      OBVIOUS
    <2> HIDE DEF s
    <2>. QED  BY ONLY <2>1, <2>2, <2>3, <2>4, <2>5
  <1>4. NoCommand \in CommandLine
    BY DEF NoCommand, CommandLine, Requests, OneWay, Queries
  <1>5. pc' \in [Clients -> ClientStates] /\ command' \in [Clients -> CommandLine]
    BY <1>4 DEF Served, CloseSockets, ClientStates
  <1>6. readset' \subseteq Clients /\ UNCHANGED <<server, backlog>>
    BY DEF Served
  <1>. QED  BY <1>1, <1>2, <1>3, <1>5, <1>6

(* The messages of a served client, and the connection it came from.       *)
LEMMA TurnType ==
    ASSUME TypeOK, NEW k, Turn(k)
    PROVE  /\ k \in DOMAIN client_cs
           /\ client_cs[k] \in Connection
           /\ client_cs[k].socket \in Clients
           /\ command[client_cs[k].socket] \in CommandLine
           /\ to_server[client_cs[k].socket] # <<>> =>
                Head(to_server[client_cs[k].socket]) \in ClientMsg
  <1>1. k \in DOMAIN client_cs
    BY DEF Turn
  <1>2. client_cs[k] \in Connection
    BY <1>1 DEF TypeOK, ConnectionsTypeOK
  <1>3. client_cs[k].socket \in Clients
    BY <1>2 DEF Connection
  <1> DEFINE s == client_cs[k].socket
  <1>4. command[s] \in CommandLine /\ to_server[s] \in Seq(ClientMsg)
    BY <1>3 DEF TypeOK, SocketsTypeOK
  <1> HIDE DEF s
  <1>5. to_server[s] # <<>> => Head(to_server[s]) \in ClientMsg
    BY <1>4, HeadTailProperties
  <1>. QED  BY <1>1, <1>2, <1>3, <1>4, <1>5 DEF s

(* The answers the server can send are messages.                           *)
LEMMA ReplyType ==
    /\ \A v \in Int :
         /\ Reply("WAITJOB_OK", v) \in ServerMsg
         /\ Reply("RUNJOB", v) \in ServerMsg
    /\ \A type \in {"NEWJOB_OK", "NEWJOB_NOK", "LOGDIR", "ANSWER",
                    "LIST_LINE"} : Reply(type, 0) \in ServerMsg
    /\ \A c, m : m \in ServerMsg =>
         \A x \in DOMAIN To(c, m) : To(c, m)[x] \in ServerMsg
    /\ \A x \in DOMAIN Nothing : Nothing[x] \in ServerMsg
  BY DEF Reply, ServerMsg, To, Nothing

(* Removing a connection, or editing one, keeps the type of the array.     *)
LEMMA RemoveConnectionType ==
    ASSUME ConnectionsTypeOK, NEW k \in DOMAIN client_cs,
           client_cs' = RemoveAt(client_cs, k), UNCHANGED keep_loop
    PROVE  ConnectionsTypeOK'
  <1>1. /\ RemoveAt(client_cs, k) \in Seq(Connection)
        /\ Len(RemoveAt(client_cs, k)) = Len(client_cs) - 1
    BY RemoveAtSeq DEF ConnectionsTypeOK
  <1>. QED  BY <1>1, ConstantsAssumption, LenProperties DEF ConnectionsTypeOK
-----------------------------------------------------------------------------
(* The lists and the table of jobs.                                        *)

(* Sweeping a table that is right about the jobs of two lists gives a      *)
(* table that is consistent with them.                                     *)
LEMMA SweepConsistent ==
    ASSUME NEW queue \in Seq(JobIds), NEW finished \in Seq(JobIds),
           NEW table \in [JobIds -> Job], NEW ids,
           IsInjective(queue), IsInjective(finished),
           \A x \in Range(queue) : table[x].state \in Live /\ ~(x >= ids),
           \A x \in Range(finished) : table[x].state \in Done /\ ~(x >= ids)
    PROVE  /\ Sweep(table, queue, finished) \in [JobIds -> Job]
           /\ Consistent(queue, finished, Sweep(table, queue, finished), ids)
  <1> DEFINE t == Sweep(table, queue, finished)
  <1>1. NoJob \in Job
    BY DEF NoJob, Job, Live, Done
  <1>2. t \in [JobIds -> Job]
    BY <1>1 DEF Sweep
  <1>3. \A x \in JobIds :
          /\ x \in Range(queue) => t[x].state \in Live /\ ~(x >= ids)
          /\ x \in Range(finished) => t[x].state \in Done /\ ~(x >= ids)
          /\ x \notin Range(queue) /\ x \notin Range(finished) =>
               t[x].state = "NONE"
    BY DEF Sweep, NoJob
  <1> HIDE DEF t
  <1>4. \A x \in JobIds :
          /\ x \in Range(queue) <=> t[x].state \in Live
          /\ x \in Range(finished) <=> t[x].state \in Done
          /\ x >= ids => t[x].state = "NONE"
    BY <1>3 DEF Live, Done
  <1>. QED  BY <1>2, <1>4 DEF Consistent, t

(* Taking a job out of the queue leaves job 0 where it is.                 *)
LEMMA RemoveKeepsZeroFirst ==
    ASSUME JobsTypeOK, QueueConsistent, JobZeroFirst,
           NEW q \in DOMAIN firstjob
    PROVE  0 \in Range(RemoveAt(firstjob, q)) => RemoveAt(firstjob, q)[1] = 0
  <1>1. firstjob \in Seq(JobIds) /\ IsInjective(firstjob)
    BY DEF JobsTypeOK, QueueConsistent, Consistent
  <1>2. HAVE 0 \in Range(RemoveAt(firstjob, q))
  <1>3. 0 \in Range(firstjob) /\ firstjob[q] # 0
    BY <1>1, <1>2, RemoveAtInjective
  <1>4. firstjob[1] = 0 /\ q # 1
    BY <1>3 DEF JobZeroFirst
  <1>5. 1 \in 1 .. (Len(firstjob) - 1) /\ 1 < q
    BY <1>1, <1>4, LenProperties
  <1>. QED  BY <1>1, <1>4, <1>5, RemoveAtSeq

(* The list of results after new_finished_job has no repetitions and no    *)
(* elements but the old ones and the new one; without its last element,    *)
(* none but the old ones.                                                  *)
LEMMA NewFinishedJobList ==
    ASSUME JobsTypeOK, QueueConsistent, NEW j \in JobIds,
           j \notin Range(first_finished_job)
    PROVE  /\ NewFinishedJob(j) \in Seq(JobIds)
           /\ IsInjective(NewFinishedJob(j))
           /\ Range(NewFinishedJob(j)) \subseteq
                Range(first_finished_job) \cup {j}
           /\ Front(NewFinishedJob(j)) \in Seq(JobIds)
           /\ IsInjective(Front(NewFinishedJob(j)))
           /\ Range(Front(NewFinishedJob(j))) \subseteq
                Range(first_finished_job)
  <1> DEFINE f == first_finished_job
  <1>0. f \in Seq(JobIds) /\ IsInjective(f)
    BY DEF JobsTypeOK, QueueConsistent, Consistent
  <1> HIDE DEF f
  <1>1. CASE NewFinishedJob(j) = Append(f, j)
    <2>1. /\ Append(f, j) \in Seq(JobIds) /\ IsInjective(Append(f, j))
          /\ Range(Append(f, j)) = Range(f) \cup {j}
      BY <1>0, AppendProperties, AppendIsInjective DEF f
    <2>2. Front(Append(f, j)) = f
      BY <1>0, FrontOfAppend
    <2>. QED  BY <1>0, <1>1, <2>1, <2>2 DEF f
  <1>2. CASE NewFinishedJob(j) = <<>>
    <2>1. /\ <<>> \in Seq(JobIds) /\ IsInjective(<<>>) /\ Range(<<>>) = {}
      BY EmptySeq DEF IsInjective, Range
    <2>2. Front(<<>>) = <<>>
      BY EmptySeq, SubSeqEmpty DEF Front
    <2>. QED  BY <1>2, <2>1, <2>2
  <1>3. CASE f # <<>> /\ NewFinishedJob(j) = Append(Tail(f), j)
    <2>1. /\ Tail(f) \in Seq(JobIds) /\ IsInjective(Tail(f))
          /\ Range(Tail(f)) \subseteq Range(f)
      BY <1>0, <1>3, TailIsInjective
    <2>2. j \notin Range(Tail(f))
      BY <2>1 DEF f
    <2>3. /\ Append(Tail(f), j) \in Seq(JobIds)
          /\ IsInjective(Append(Tail(f), j))
          /\ Range(Append(Tail(f), j)) = Range(Tail(f)) \cup {j}
      <3> DEFINE g == Tail(f)
      <3>1. g \in Seq(JobIds) /\ IsInjective(g) /\ j \notin Range(g)
        BY <2>1, <2>2
      <3> HIDE DEF g
      <3>2. Append(g, j) \in Seq(JobIds)
        BY <3>1, AppendProperties
      <3>3. IsInjective(Append(g, j)) /\ Range(Append(g, j)) = Range(g) \cup {j}
        BY <3>1, AppendIsInjective
      <3>. QED  BY <3>2, <3>3 DEF g
    <2>4. Front(Append(Tail(f), j)) = Tail(f)
      BY <2>1, FrontOfAppend
    <2>. QED  BY <1>3, <2>1, <2>3, <2>4 DEF f
  <1>4. \/ NewFinishedJob(j) = Append(f, j)
        \/ NewFinishedJob(j) = <<>>
        \/ f # <<>> /\ NewFinishedJob(j) = Append(Tail(f), j)
    BY <1>0, EmptySeq DEF NewFinishedJob, f
  <1>. QED  BY <1>1, <1>2, <1>3, <1>4

(* Telling a result changes neither the states nor the slots of jobs.      *)
LEMMA NotifyErrorlevelTable ==
    ASSUME JobsTypeOK, NEW j \in JobIds, NEW e
    PROVE  /\ NotifyErrorlevel(j, e) \in [JobIds -> Job]
           /\ \A x \in JobIds :
                /\ NotifyErrorlevel(j, e)[x].state = job[x].state
                /\ NotifyErrorlevel(j, e)[x].num_slots = job[x].num_slots
  <1>1. \A r \in Job :
          LET s == [r EXCEPT !.dependency_errorlevel = 1]
          IN  s \in Job /\ s.state = r.state /\ s.num_slots = r.num_slots
    BY DEF Job
  <1>2. \A x \in JobIds : job[x] \in Job
    BY DEF JobsTypeOK
  <1>3. \A x \in JobIds :
          \/ NotifyErrorlevel(j, e)[x] = job[x]
          \/ NotifyErrorlevel(j, e)[x] =
               [job[x] EXCEPT !.dependency_errorlevel = 1]
    BY DEF NotifyErrorlevel
  <1>4. NotifyErrorlevel(j, e) = [x \in JobIds |-> NotifyErrorlevel(j, e)[x]]
    BY DEF NotifyErrorlevel
  <1>. QED  BY <1>1, <1>2, <1>3, <1>4
-----------------------------------------------------------------------------
(* The steps that change the tables.                                       *)

(* A step that leaves the tables alone.                                    *)
LEMMA JobsUnchanged ==
    ASSUME JobsInv, UNCHANGED jobsVars
    PROVE  JobsInv' /\ NoStart /\ Quiet
  <1>1. JobsInv' /\ NoStart
    BY DEF JobsInv, JobsTypeOK, QueueConsistent, Consistent, SlotAccounting,
         RunningSlots, JobZeroFirst, NoStart, jobsVars, queueVars, resultVars
  <1>2. Quiet
    BY DEF JobsInv, JobsTypeOK, Quiet, SameJob, jobsVars, queueVars
  <1>. QED  BY <1>1, <1>2

(* A table that occupies the same slots as job.                            *)
LEMMA SameSlotsStep ==
    ASSUME JobsInv, UNCHANGED busy_slots,
           \A x \in JobIds : job[x].state = "RUNNING" <=>
                              job'[x].state = "RUNNING",
           \A x \in JobIds : job[x].state = "RUNNING" =>
                              job[x].num_slots = job'[x].num_slots
    PROVE  SlotAccounting' /\ IsFiniteSet(RunningSlots') /\ NoStart
  <1>1. SlotsOf(job) = SlotsOf(job')
    BY SlotsSame
  <1>. QED  BY <1>1 DEF JobsInv, SlotAccounting, RunningSlots, NoStart

(* job_finished: the job leaves the queue, and its slots are given back if *)
(* and only if it had taken them.                                          *)
LEMMA JobFinishedStep ==
    ASSUME JobsInv, NEW q \in DOMAIN firstjob, NEW e \in Int, NEW st \in Done,
           JobFinished(q, e, st)
    PROVE  JobsInv' /\ NoStart /\ Ends(firstjob[q])
  <1> DEFINE j        == firstjob[q]
             queue    == RemoveAt(firstjob, q)
             keep     == job[j].should_keep_finished
             finished == IF keep THEN NewFinishedJob(j)
                         ELSE IF Waiters(j) # {} THEN Front(NewFinishedJob(j))
                         ELSE first_finished_job
             told     == NotifyErrorlevel(j, e)
             table    == [told EXCEPT ![j].state = st, ![j].errorlevel = e]
  <1>0. JobsTypeOK /\ QueueConsistent /\ JobZeroFirst
    BY DEF JobsInv
  <1>1. /\ j \in JobIds /\ j \in Range(firstjob)
        /\ job[j].state \in Live /\ job[j] \in Job
    BY <1>0, LenProperties DEF JobsTypeOK, QueueConsistent, Consistent, Range
  <1>2. j \notin Range(first_finished_job)
    BY <1>0, <1>1 DEF QueueConsistent, Consistent, Live, Done
  <1>3. /\ queue \in Seq(JobIds) /\ IsInjective(queue)
        /\ Range(queue) = Range(firstjob) \ {j}
    BY <1>0, RemoveAtSeq, RemoveAtInjective
       DEF JobsTypeOK, QueueConsistent, Consistent
  <1>4. /\ finished \in Seq(JobIds) /\ IsInjective(finished)
        /\ Range(finished) \subseteq Range(first_finished_job) \cup {j}
    <2>1. /\ first_finished_job \in Seq(JobIds)
          /\ IsInjective(first_finished_job)
      BY <1>0 DEF JobsTypeOK, QueueConsistent, Consistent
    <2> HIDE DEF j
    <2>. QED  BY <1>0, <1>1, <1>2, <2>1, NewFinishedJobList
  <1>5. /\ table \in [JobIds -> Job] /\ table[j].state = st
        /\ \A x \in JobIds \ {j} : /\ table[x].state = job[x].state
                                   /\ table[x].num_slots = job[x].num_slots
    <2>1. /\ told \in [JobIds -> Job]
          /\ \A x \in JobIds : /\ told[x].state = job[x].state
                               /\ told[x].num_slots = job[x].num_slots
      BY <1>0, <1>1, NotifyErrorlevelTable
    <2>2. \A r \in Job : [r EXCEPT !.state = st, !.errorlevel = e] \in Job
      BY DEF Job
    <2> HIDE DEF told, j
    <2>3. table = [x \in JobIds |->
                    IF x = j THEN [told[j] EXCEPT !.state = st, !.errorlevel = e]
                    ELSE told[x]]
      BY <1>1, <2>1
    <2>4. told[j] \in Job
      BY <1>1, <2>1
    <2>5. [told[j] EXCEPT !.state = st, !.errorlevel = e].state = st
      BY <2>4 DEF Job
    <2> HIDE DEF table
    <2>. QED  BY <1>1, <2>1, <2>2, <2>3, <2>4, <2>5
  <1>6. /\ firstjob' = queue /\ first_finished_job' = finished
        /\ job' = Sweep(table, queue, finished)
        /\ busy_slots' = BusySlotsAfter(j)
        /\ last_errorlevel' = e /\ last_finished_jobid' = j
        /\ first_notify' \subseteq first_notify
        /\ outcome' = [outcome EXCEPT ![j] = {e}]
        /\ UNCHANGED <<jobids, max_slots>>
    BY DEF JobFinished
  <1> HIDE DEF queue, finished, told, table, keep
  <1>7. job' \in [JobIds -> Job] /\ QueueConsistent'
    <2>1. \A x \in Range(queue) : table[x].state \in Live /\ ~(x >= jobids)
      BY <1>0, <1>1, <1>3, <1>5, RangeOfSeq
         DEF JobsTypeOK, QueueConsistent, Consistent, Live
    <2>2. \A x \in Range(finished) : table[x].state \in Done /\ ~(x >= jobids)
      <3>1. \A x \in Range(first_finished_job) \cup {j} :
              x \in JobIds /\ ~(x >= jobids)
        BY <1>0, <1>1, RangeOfSeq
           DEF JobsTypeOK, QueueConsistent, Consistent, Live, Done
      <3>. QED  BY <1>0, <1>1, <1>2, <1>4, <1>5, <3>1
                DEF QueueConsistent, Consistent
    <2>. QED  BY <1>3, <1>4, <1>5, <1>6, <2>1, <2>2, SweepConsistent
              DEF QueueConsistent
  <1>8. /\ job'[j].state # "RUNNING"
        /\ \A x \in JobIds \ {j} :
             /\ job'[x].state = "RUNNING" <=> job[x].state = "RUNNING"
             /\ job'[x].state = "RUNNING" => job'[x].num_slots = job[x].num_slots
    <2>1. job'[j].state # "RUNNING"
      BY <1>1, <1>5, <1>6 DEF Sweep, NoJob, Done
    <2>2. \A x \in JobIds : job[x].state = "RUNNING" => x \in Range(firstjob)
      BY <1>0 DEF QueueConsistent, Consistent, Live
    <2>. QED  BY <1>3, <1>5, <1>6, <2>1, <2>2 DEF Sweep, NoJob
  <1>9. /\ SlotAccounting' /\ IsFiniteSet(RunningSlots')
        /\ busy_slots' \in Nat /\ NoStart
    <2>1. /\ IsFiniteSet(SlotsOf(job)) /\ busy_slots = Cardinality(SlotsOf(job))
          /\ job[j].num_slots \in Nat
      BY <1>1 DEF JobsInv, SlotAccounting, RunningSlots, Job
    <2>2. CASE job[j].state = "RUNNING"
      <3>1. /\ IsFiniteSet(SlotsOf(job'))
            /\ Cardinality(SlotsOf(job)) =
                 Cardinality(SlotsOf(job')) + job[j].num_slots
        BY <1>1, <1>8, <2>1, <2>2, SlotsOneMore
      <3>2. busy_slots' = busy_slots - job[j].num_slots
        BY <1>6, <2>2 DEF BusySlotsAfter
      <3>3. Cardinality(SlotsOf(job')) \in Nat
        BY <3>1, FS_CardinalityType
      <3>. QED  BY <1>8, <2>1, <2>2, <3>1, <3>2, <3>3
                DEF SlotAccounting, RunningSlots, NoStart
    <2>3. CASE job[j].state # "RUNNING"
      <3>1. busy_slots' = busy_slots
        BY <1>6, <2>3 DEF BusySlotsAfter
      <3>. QED  BY <1>0, <1>8, <2>3, <3>1, SameSlotsStep DEF JobsTypeOK
    <2>. QED  BY <2>2, <2>3
  <1>10. JobZeroFirst'
    BY <1>0, <1>6, RemoveKeepsZeroFirst DEF JobZeroFirst, queue
  <1>11. JobsTypeOK'
    <2>1. outcome' \in [JobIds -> SUBSET Int]
      BY <1>0, <1>6 DEF JobsTypeOK
    <2>. QED  BY <1>0, <1>1, <1>3, <1>4, <1>6, <1>7, <1>9, <2>1
              DEF JobsTypeOK, JobIds
  <1>12. Ends(j)
    <2>1. /\ job'[j].state \notin Live
          /\ \A x \in JobIds \ {j} :
               job'[x].state \in Live <=> job[x].state \in Live
      BY <1>0, <1>1, <1>3, <1>6, <1>7 DEF QueueConsistent, Consistent
    <2>2. \A x \in JobIds \ {j} : job[x].state \in Live =>
            job'[x].state = job[x].state /\ job'[x].num_slots = job[x].num_slots
      <3>1. \A x \in JobIds : job[x].state \in Live => x \in Range(firstjob)
        BY <1>0 DEF QueueConsistent, Consistent
      <3>. QED  BY <1>3, <1>5, <1>6, <3>1 DEF Sweep
    <2>3. \A x \in JobIds \ {j} : SameJob(x)
      BY <2>1, <2>2 DEF SameJob, Live
    <2>. QED  BY <1>1, <1>6, <2>1, <2>3 DEF Ends
  <1>. QED  BY <1>7, <1>9, <1>10, <1>11, <1>12 DEF JobsInv, j
(* The table that s_newjob makes: the new job is added in the given state, *)
(* and the others keep their states and slots.                             *)
LEMMA WithNewJobTable ==
    ASSUME JobsTypeOK, NEW c \in CommandLine, jobids \in JobIds,
           NEW st \in Live \cup Done,
           NEW lastq \in LastId(Range(firstjob)),
           NEW lastf \in LastId(Range(first_finished_job))
    PROVE  LET t == WithNewJob(c, jobids, st, lastq, lastf)
           IN  /\ t \in [JobIds -> Job]
               /\ t[jobids].state = st
               /\ \A x \in JobIds \ {jobids} :
                    /\ t[x].state = job[x].state
                    /\ t[x].num_slots = job[x].num_slots
  <1> DEFINE t == WithNewJob(c, jobids, st, lastq, lastf)
             dep == DependOn(c, jobids, lastq, lastf)
             failed == DependencyFailed(c, jobids, lastq, lastf)
             r == [state |-> st, num_slots |-> c.num_slots,
                   should_keep_finished |-> c.should_keep_finished,
                   depend_on |-> dep, notify_errorlevel_to |-> {},
                   dependency_errorlevel |-> IF failed THEN 1 ELSE 0,
                   errorlevel |-> 0]
  <1>1. lastq \in Int /\ lastf \in Int
    BY RangeOfSeq DEF JobsTypeOK, LastId, JobIds
  <1>2. /\ c.num_slots \in Nat /\ c.should_keep_finished \in BOOLEAN
        /\ c.depend_on \in SUBSET Int
    BY DEF CommandLine
  <1>3. dep \in SUBSET Int
    BY <1>1, <1>2 DEF DependOn
  <1>4. r \in Job /\ r.state = st
    <2> HIDE DEF dep, failed
    <2>. QED  BY <1>2, <1>3 DEF Job
  <1>5. \A x \in JobIds :
          LET u == [job[x] EXCEPT !.notify_errorlevel_to = @ \cup {jobids}]
          IN  /\ job[x] \in Job /\ u \in Job
              /\ u.state = job[x].state /\ u.num_slots = job[x].num_slots
    <2>1. \A y \in Job :
            LET u == [y EXCEPT !.notify_errorlevel_to = @ \cup {jobids}]
            IN  u \in Job /\ u.state = y.state /\ u.num_slots = y.num_slots
      BY DEF Job
    <2>2. \A x \in JobIds : job[x] \in Job
      BY DEF JobsTypeOK
    <2>. QED  BY <2>1, <2>2
  <1>6. t = [x \in JobIds |->
               IF x = jobids THEN r
               ELSE IF x \in dep /\ x \in Range(firstjob)
               THEN [job[x] EXCEPT !.notify_errorlevel_to = @ \cup {jobids}]
               ELSE job[x]]
    BY DEF WithNewJob
  <1> HIDE DEF dep, failed, r, t
  <1>7. \A x \in JobIds : t[x] \in Job
    BY <1>4, <1>5, <1>6
  <1>. QED  BY <1>4, <1>5, <1>6, <1>7 DEF t

(* The jobs of the queue are live, the stored ones have ended, and the ids *)
(* of both have been given out.                                            *)
LEMMA ListedJobs ==
    ASSUME JobsTypeOK, QueueConsistent
    PROVE  /\ \A x \in Range(firstjob) :
                x \in JobIds /\ job[x].state \in Live /\ ~(x >= jobids)
           /\ \A x \in Range(first_finished_job) :
                x \in JobIds /\ job[x].state \in Done /\ ~(x >= jobids)
  BY RangeOfSeq DEF JobsTypeOK, QueueConsistent, Consistent, Live, Done

(* The id that the next job gets is in no list.                            *)
LEMMA NewIdUnused ==
    ASSUME JobsTypeOK, QueueConsistent, jobids \in JobIds
    PROVE  /\ job[jobids].state = "NONE"
           /\ jobids \notin Range(firstjob)
           /\ jobids \notin Range(first_finished_job)
  <1>1. jobids >= jobids
    BY DEF JobsTypeOK
  <1>. QED  BY <1>1 DEF QueueConsistent, Consistent, Live, Done

(* NEWJOB, accepted or held.                                               *)
LEMMA NewjobStep ==
    ASSUME TypeOK, JobsInv, NEW k, Newjob(k)
    PROVE  JobsInv' /\ NoStart /\ Submits
  <1>0. JobsTypeOK /\ QueueConsistent /\ JobZeroFirst /\ jobids \in JobIds
    BY DEF JobsInv, Newjob
  <1> DEFINE c  == command[client_cs[k].socket]
             st == IF QueueFull THEN "HOLDING_CLIENT" ELSE "QUEUED"
  <1>1. c \in CommandLine
    BY TurnType DEF Newjob, Serve
  <1>2. st \in Live /\ st # "RUNNING"
    BY DEF Live
  <1>3. PICK lastq \in LastId(Range(firstjob)),
             lastf \in LastId(Range(first_finished_job)) :
               job' = WithNewJob(c, jobids, st, lastq, lastf)
    BY DEF Newjob
  <1>4. /\ firstjob' = Append(firstjob, jobids)
        /\ jobids' = jobids + 1
        /\ UNCHANGED <<first_finished_job, outcome, resultVars, busy_slots,
                       max_slots, first_notify>>
    BY DEF Newjob
  <1> HIDE DEF c, st
  <1>5. /\ job' \in [JobIds -> Job] /\ job'[jobids].state = st
        /\ \A x \in JobIds \ {jobids} :
             /\ job'[x].state = job[x].state
             /\ job'[x].num_slots = job[x].num_slots
    BY <1>0, <1>1, <1>2, <1>3, WithNewJobTable
  <1>6. /\ job[jobids].state = "NONE"
        /\ jobids \notin Range(firstjob)
        /\ jobids \notin Range(first_finished_job)
    BY <1>0, NewIdUnused
  <1>7. /\ firstjob' \in Seq(JobIds) /\ IsInjective(firstjob')
        /\ Range(firstjob') = Range(firstjob) \cup {jobids}
    BY <1>0, <1>4, <1>6, AppendProperties, AppendIsInjective
       DEF JobsTypeOK, QueueConsistent, Consistent
  <1>8. QueueConsistent'
    <2>1. /\ IsInjective(first_finished_job') /\ IsInjective(firstjob')
          /\ first_finished_job' = first_finished_job
      BY <1>0, <1>4, <1>7 DEF QueueConsistent, Consistent
    <2>2. ASSUME NEW x \in JobIds
          PROVE  /\ x \in Range(firstjob') <=> job'[x].state \in Live
                 /\ x \in Range(first_finished_job) <=> job'[x].state \in Done
                 /\ x >= jobids' => job'[x].state = "NONE"
      <3>1. CASE x = jobids
        BY <1>0, <1>2, <1>4, <1>5, <1>6, <1>7, <3>1 DEF JobsTypeOK, Live, Done
      <3>2. CASE x # jobids
        BY <1>0, <1>4, <1>5, <1>7, <3>2
           DEF JobsTypeOK, JobIds, QueueConsistent, Consistent
      <3>. QED  BY <3>1, <3>2
    <2>. QED  BY <2>1, <2>2 DEF QueueConsistent, Consistent
  <1>9. SlotAccounting' /\ IsFiniteSet(RunningSlots') /\ NoStart
    BY <1>2, <1>4, <1>5, <1>6, SameSlotsStep
  <1>10. JobZeroFirst'
    <2>1. firstjob \in Seq(JobIds) /\ Len(firstjob) \in Nat
      BY <1>0, LenProperties DEF JobsTypeOK
    <2>2. CASE 0 \in Range(firstjob)
      <3>1. firstjob[1] = 0 /\ 1 \in 1 .. Len(firstjob)
        BY <1>0, <2>1, <2>2, LenProperties DEF JobZeroFirst, Range
      <3>. QED  BY <1>0, <1>4, <2>1, <3>1, AppendProperties DEF JobZeroFirst
    <2>3. CASE jobids = 0
      <3>1. \A x \in JobIds : x \notin Range(firstjob)
        BY <1>0, <2>3 DEF QueueConsistent, Consistent, JobIds, Live
      <3>2. Range(firstjob) = {}
        BY <2>1, <3>1, RangeOfSeq
      <3>3. firstjob = <<>>
        BY <2>1, <3>2, LenProperties, EmptySeq DEF Range
      <3>. QED  BY <1>4, <2>3, <3>3 DEF JobZeroFirst
    <2>4. CASE 0 \notin Range(firstjob) /\ jobids # 0
      BY <1>7, <2>4 DEF JobZeroFirst
    <2>. QED  BY <2>2, <2>3, <2>4
  <1>11. JobsTypeOK'
    <2>1. jobids' \in 0 .. JobIdBound
      BY <1>0, <1>4, ConstantsAssumption DEF JobsTypeOK, JobIds
    <2>. QED  BY <1>0, <1>4, <1>5, <1>7, <2>1 DEF JobsTypeOK, resultVars
  <1>12. Submits
    <2>1. job'[jobids].num_slots \in Nat
      BY <1>0, <1>5 DEF Job
    <2>2. \A x \in JobIds \ {jobids} : SameJob(x)
      BY <1>5 DEF SameJob
    <2>. QED  BY <1>0, <1>2, <1>4, <1>5, <2>1, <2>2 DEF Submits
  <1>. QED  BY <1>8, <1>9, <1>10, <1>11, <1>12 DEF JobsInv

(* NEWJOB into a full queue with -B: the job goes straight to the results. *)
LEMMA NewjobNokStep ==
    ASSUME TypeOK, JobsInv, NEW k, NewjobNok(k)
    PROVE  JobsInv' /\ NoStart /\ Rejects
  <1>0. JobsTypeOK /\ QueueConsistent /\ JobZeroFirst /\ jobids \in JobIds
    BY DEF JobsInv, NewjobNok
  <1> DEFINE c == command[client_cs[k].socket]
             finished == IF c.should_keep_finished THEN NewFinishedJob(jobids)
                         ELSE first_finished_job
  <1>1. c \in CommandLine
    BY TurnType DEF NewjobNok, Serve
  <1>2. PICK lastq \in LastId(Range(firstjob)),
             lastf \in LastId(Range(first_finished_job)) :
               job' = Sweep([WithNewJob(c, jobids, "FINISHED", lastq, lastf)
                               EXCEPT ![jobids].errorlevel = -1],
                            firstjob, finished)
    BY DEF NewjobNok
  <1>3. /\ first_finished_job' = finished
        /\ jobids' = jobids + 1
        /\ last_errorlevel' = -1
        /\ last_finished_jobid' = jobids
        /\ outcome' = [outcome EXCEPT ![jobids] = {-1}]
        /\ UNCHANGED <<firstjob, busy_slots, max_slots, first_notify>>
    BY DEF NewjobNok
  <1> DEFINE t == WithNewJob(c, jobids, "FINISHED", lastq, lastf)
             table == [t EXCEPT ![jobids].errorlevel = -1]
  <1> HIDE DEF c
  <1>4. /\ job[jobids].state = "NONE"
        /\ jobids \notin Range(firstjob)
        /\ jobids \notin Range(first_finished_job)
    BY <1>0, NewIdUnused
  <1>5. /\ table \in [JobIds -> Job] /\ table[jobids].state = "FINISHED"
        /\ \A x \in JobIds \ {jobids} :
             /\ table[x].state = job[x].state
             /\ table[x].num_slots = job[x].num_slots
    <2>1. /\ t \in [JobIds -> Job] /\ t[jobids].state = "FINISHED"
          /\ \A x \in JobIds \ {jobids} :
               /\ t[x].state = job[x].state
               /\ t[x].num_slots = job[x].num_slots
      <3>1. "FINISHED" \in Live \cup Done
        BY DEF Done
      <3>. QED  BY <1>0, <1>1, <1>2, <3>1, WithNewJobTable
    <2>2. \A r \in Job : LET u == [r EXCEPT !.errorlevel = -1]
                         IN  u \in Job /\ u.state = r.state
      BY DEF Job
    <2> HIDE DEF t
    <2>3. table = [x \in JobIds |->
                    IF x = jobids THEN [t[x] EXCEPT !.errorlevel = -1] ELSE t[x]]
      BY <1>0, <2>1
    <2> HIDE DEF table
    <2>4. \A x \in JobIds : t[x] \in Job
      BY <2>1
    <2>. QED  BY <1>0, <2>1, <2>2, <2>3, <2>4
  <1>6. job' = Sweep(table, firstjob, finished)
    BY <1>2
  <1>7. /\ finished \in Seq(JobIds) /\ IsInjective(finished)
        /\ Range(finished) \subseteq Range(first_finished_job) \cup {jobids}
        /\ firstjob \in Seq(JobIds) /\ IsInjective(firstjob)
    BY <1>0, <1>4, NewFinishedJobList
       DEF JobsTypeOK, QueueConsistent, Consistent
  <1> HIDE DEF t, table, finished
  <1>8. job' \in [JobIds -> Job] /\ QueueConsistent'
    <2>0. \A x \in JobIds : x \in Int /\ jobids \in Int
      BY <1>0 DEF JobIds
    <2>1. \A x \in Range(firstjob) :
            table[x].state \in Live /\ ~(x >= jobids + 1)
      BY <1>0, <1>4, <1>5, <2>0, ListedJobs
    <2>2. \A x \in Range(first_finished_job) :
            /\ x \in JobIds \ {jobids} /\ job[x].state \in Done
            /\ ~(x >= jobids + 1)
      BY <1>0, <1>4, <2>0, ListedJobs
    <2>3. "FINISHED" \in Done /\ ~(jobids >= jobids + 1)
      BY <1>0 DEF Done, JobsTypeOK
    <2>4. \A x \in Range(finished) :
            table[x].state \in Done /\ ~(x >= jobids + 1)
      BY <1>5, <1>7, <2>2, <2>3
    <2>. QED  BY <1>3, <1>5, <1>6, <1>7, <2>1, <2>4, SweepConsistent
              DEF QueueConsistent
  <1>9. \A x \in JobIds :
          /\ job'[x].state = "RUNNING" <=> job[x].state = "RUNNING"
          /\ job'[x].state = "RUNNING" => job'[x].num_slots = job[x].num_slots
    <2>1. \A x \in JobIds : job[x].state = "RUNNING" => x \in Range(firstjob)
      BY <1>0 DEF QueueConsistent, Consistent, Live
    <2>. QED  BY <1>0, <1>4, <1>5, <1>6, <2>1 DEF Sweep, NoJob
  <1>10. SlotAccounting' /\ IsFiniteSet(RunningSlots') /\ NoStart
    BY <1>3, <1>9, SameSlotsStep
  <1>11. JobZeroFirst'
    BY <1>0, <1>3 DEF JobZeroFirst
  <1>12. JobsTypeOK'
    <2>1. jobids' \in 0 .. JobIdBound /\ jobids \in Int /\ -1 \in Int
      BY <1>0, <1>3, ConstantsAssumption DEF JobsTypeOK, JobIds
    <2>2. outcome' \in [JobIds -> SUBSET Int]
      BY <1>0, <1>3, <2>1 DEF JobsTypeOK
    <2>. QED  BY <1>0, <1>3, <1>7, <1>8, <2>1, <2>2 DEF JobsTypeOK
  <1>13. Rejects
    <2>1. \A x \in JobIds :
            job'[x].state \in Live <=> job[x].state \in Live
      BY <1>0, <1>3, <1>8 DEF QueueConsistent, Consistent
    <2>2. \A x \in JobIds : job[x].state \in Live => job'[x] = table[x]
      BY <1>0, <1>6 DEF QueueConsistent, Consistent, Sweep
    <2>3. \A x \in JobIds \ {jobids} : SameJob(x)
      BY <1>5, <1>9, <2>1, <2>2 DEF SameJob
    <2>. QED  BY <1>0, <1>3, <1>4, <2>1, <2>3 DEF Rejects, Live
  <1>. QED  BY <1>8, <1>10, <1>11, <1>12, <1>13 DEF JobsInv

(* Jobs that are not running leave a list, and nothing else of the table   *)
(* that matters to the slots changes: s_remove_job and s_clear_finished.   *)
LEMMA SweepStep ==
    ASSUME JobsInv,
           NEW table \in [JobIds -> Job],
           \A x \in JobIds : /\ table[x].state = job[x].state
                             /\ table[x].num_slots = job[x].num_slots,
           firstjob' \in Seq(JobIds), IsInjective(firstjob'),
           Range(firstjob') \subseteq Range(firstjob),
           \A x \in JobIds : job[x].state = "RUNNING" => x \in Range(firstjob'),
           first_finished_job' \in Seq(JobIds), IsInjective(first_finished_job'),
           Range(first_finished_job') \subseteq Range(first_finished_job),
           job' = Sweep(table, firstjob', first_finished_job'),
           UNCHANGED <<busy_slots, jobids>>
    PROVE  /\ job' \in [JobIds -> Job] /\ QueueConsistent'
           /\ SlotAccounting' /\ IsFiniteSet(RunningSlots') /\ NoStart
           /\ \A x \in JobIds :
                (x \in Range(firstjob) <=> x \in Range(firstjob')) => SameJob(x)
  <1>0. JobsTypeOK /\ QueueConsistent
    BY DEF JobsInv
  <1>1. job' \in [JobIds -> Job] /\ QueueConsistent'
    <2>1. \A x \in Range(firstjob') :
            table[x].state \in Live /\ ~(x >= jobids)
      BY <1>0, RangeOfSeq DEF JobsTypeOK, QueueConsistent, Consistent, Live
    <2>2. \A x \in Range(first_finished_job') :
            table[x].state \in Done /\ ~(x >= jobids)
      BY <1>0, RangeOfSeq DEF JobsTypeOK, QueueConsistent, Consistent, Done
    <2>. QED  BY <2>1, <2>2, SweepConsistent DEF QueueConsistent
  <1>2. \A x \in JobIds :
          /\ job'[x].state = "RUNNING" <=> job[x].state = "RUNNING"
          /\ job'[x].state = "RUNNING" => job'[x].num_slots = job[x].num_slots
    BY DEF Sweep, NoJob
  <1>3. ASSUME NEW x \in JobIds, x \in Range(firstjob) <=> x \in Range(firstjob')
        PROVE  SameJob(x)
    <2>1. job'[x].state \in Live <=> job[x].state \in Live
      BY <1>0, <1>1, <1>3 DEF QueueConsistent, Consistent
    <2>2. job[x].state \in Live => job'[x] = table[x]
      BY <1>0, <1>3 DEF QueueConsistent, Consistent, Sweep
    <2>. QED  BY <1>2, <2>1, <2>2 DEF SameJob
  <1>. QED  BY <1>1, <1>2, <1>3, SameSlotsStep

(* s_remove_job of a job of the queue.                                     *)
LEMMA RemoveQueuedStep ==
    ASSUME TypeOK, JobsInv, NEW k, RemoveQueued(k)
    PROVE  JobsInv' /\ NoStart /\ \E j \in JobIds : Ends(j)
  <1>0. JobsTypeOK /\ QueueConsistent /\ JobZeroFirst
    BY DEF JobsInv
  <1>1. PICK q \in Named(firstjob, command[client_cs[k].socket].jobid) :
          /\ job[firstjob[q]].state # "RUNNING"
          /\ firstjob' = RemoveAt(firstjob, q)
          /\ job' = Sweep(NotifyErrorlevel(firstjob[q], -1), firstjob',
                          first_finished_job)
          /\ outcome' = [outcome EXCEPT ![firstjob[q]] = {-1}]
    BY DEF RemoveQueued
  <1>2. /\ last_errorlevel' = -1
        /\ UNCHANGED <<first_finished_job, jobids, last_finished_jobid,
                       busy_slots, max_slots, first_notify>>
    BY DEF RemoveQueued
  <1>3. q \in DOMAIN firstjob /\ firstjob[q] \in JobIds
    BY <1>0, <1>1, LenProperties DEF JobsTypeOK, Named
  <1>4. /\ firstjob' \in Seq(JobIds) /\ IsInjective(firstjob')
        /\ Range(firstjob') = Range(firstjob) \ {firstjob[q]}
    BY <1>0, <1>1, <1>3, RemoveAtSeq, RemoveAtInjective
       DEF JobsTypeOK, QueueConsistent, Consistent
  <1>5. \A x \in JobIds : job[x].state = "RUNNING" => x \in Range(firstjob')
    BY <1>0, <1>1, <1>4 DEF QueueConsistent, Consistent, Live
  <1>6. /\ first_finished_job' \in Seq(JobIds)
        /\ IsInjective(first_finished_job')
        /\ first_finished_job' = first_finished_job
    BY <1>0, <1>2 DEF JobsTypeOK, QueueConsistent, Consistent
  <1> DEFINE table == NotifyErrorlevel(firstjob[q], -1)
  <1>7. /\ table \in [JobIds -> Job]
        /\ \A x \in JobIds : /\ table[x].state = job[x].state
                             /\ table[x].num_slots = job[x].num_slots
    BY <1>0, <1>3, NotifyErrorlevelTable
  <1>8. job' = Sweep(table, firstjob', first_finished_job')
    BY <1>1, <1>6
  <1> HIDE DEF table
  <1>9. /\ job' \in [JobIds -> Job] /\ QueueConsistent'
        /\ SlotAccounting' /\ IsFiniteSet(RunningSlots') /\ NoStart
        /\ \A x \in JobIds :
             (x \in Range(firstjob) <=> x \in Range(firstjob')) => SameJob(x)
    BY <1>2, <1>4, <1>5, <1>6, <1>7, <1>8, SweepStep
  <1>10. JobZeroFirst'
    BY <1>0, <1>1, <1>3, RemoveKeepsZeroFirst DEF JobZeroFirst
  <1>11. JobsTypeOK'
    <2>1. -1 \in Int /\ {-1} \in SUBSET Int
      OBVIOUS
    <2>2. outcome' \in [JobIds -> SUBSET Int]
      BY <1>0, <1>1, <2>1 DEF JobsTypeOK
    <2>. QED  BY <1>0, <1>2, <1>4, <1>9, <2>1, <2>2 DEF JobsTypeOK
  <1>12. Ends(firstjob[q])
    <2>1. firstjob[q] \in Range(firstjob)
      BY <1>3 DEF Range
    <2>2. job[firstjob[q]].state \in Live /\ job'[firstjob[q]].state \notin Live
      BY <1>0, <1>3, <1>4, <1>9, <2>1 DEF QueueConsistent, Consistent
    <2>3. \A x \in JobIds \ {firstjob[q]} : SameJob(x)
      BY <1>4, <1>9
    <2>4. -1 \in Int /\ outcome' = [outcome EXCEPT ![firstjob[q]] = {-1}]
      BY <1>1
    <2>5. \E e \in Int : outcome' = [outcome EXCEPT ![firstjob[q]] = {e}]
      BY <2>4
    <2>6. UNCHANGED <<jobids, max_slots>>
      BY <1>2
    <2>. QED  BY <1>3, <2>2, <2>3, <2>5, <2>6 DEF Ends
  <1>. QED  BY <1>3, <1>9, <1>10, <1>11, <1>12 DEF JobsInv

(* s_remove_job of a stored result.                                        *)
LEMMA RemoveFinishedStep ==
    ASSUME TypeOK, JobsInv, NEW k, RemoveFinished(k)
    PROVE  JobsInv' /\ NoStart /\ Quiet
  <1>0. JobsTypeOK /\ QueueConsistent /\ JobZeroFirst
    BY DEF JobsInv
  <1> DEFINE f == first_finished_job
  <1>1. PICK q \in Named(f, command[client_cs[k].socket].jobid) :
          /\ f' = RemoveAt(f, q)
          /\ job' = Sweep(NotifyErrorlevel(f[q], -1), firstjob, f')
    BY DEF RemoveFinished
  <1>2. /\ last_errorlevel' = -1
        /\ UNCHANGED <<firstjob, jobids, outcome, last_finished_jobid,
                       busy_slots, max_slots, first_notify>>
    BY DEF RemoveFinished
  <1>3. q \in DOMAIN f /\ f[q] \in JobIds
    BY <1>0, <1>1, LenProperties DEF JobsTypeOK, Named
  <1>4. /\ f' \in Seq(JobIds) /\ IsInjective(f')
        /\ Range(f') \subseteq Range(f)
    BY <1>0, <1>1, <1>3, RemoveAtSeq, RemoveAtInjective
       DEF JobsTypeOK, QueueConsistent, Consistent
  <1>5. /\ firstjob' \in Seq(JobIds) /\ IsInjective(firstjob')
        /\ firstjob' = firstjob
        /\ \A x \in JobIds : job[x].state = "RUNNING" => x \in Range(firstjob)
    BY <1>0, <1>2 DEF JobsTypeOK, QueueConsistent, Consistent, Live
  <1> DEFINE table == NotifyErrorlevel(f[q], -1)
  <1>6. /\ table \in [JobIds -> Job]
        /\ \A x \in JobIds : /\ table[x].state = job[x].state
                             /\ table[x].num_slots = job[x].num_slots
    BY <1>0, <1>3, NotifyErrorlevelTable
  <1>7. job' = Sweep(table, firstjob', first_finished_job')
    BY <1>1, <1>5
  <1> HIDE DEF table
  <1>8. /\ job' \in [JobIds -> Job] /\ QueueConsistent'
        /\ SlotAccounting' /\ IsFiniteSet(RunningSlots') /\ NoStart
        /\ \A x \in JobIds : SameJob(x)
    BY <1>2, <1>4, <1>5, <1>6, <1>7, SweepStep
  <1>9. JobZeroFirst' /\ JobsTypeOK'
    BY <1>0, <1>2, <1>4, <1>5, <1>8 DEF JobZeroFirst, JobsTypeOK
  <1>10. Quiet
    BY <1>0, <1>2, <1>8 DEF Quiet, JobsTypeOK
  <1>. QED  BY <1>8, <1>9, <1>10 DEF JobsInv

(* s_clear_finished.                                                       *)
LEMMA ClearFinishedStep ==
    ASSUME JobsInv, NEW k, ClearFinished(k)
    PROVE  JobsInv' /\ NoStart /\ Quiet
  <1>0. JobsTypeOK /\ QueueConsistent /\ JobZeroFirst
    BY DEF JobsInv
  <1>1. /\ first_finished_job' = <<>>
        /\ job' = Sweep(job, firstjob, <<>>)
        /\ UNCHANGED <<firstjob, jobids, outcome, resultVars, busy_slots,
                       max_slots, first_notify>>
    BY DEF ClearFinished
  <1>2. /\ <<>> \in Seq(JobIds) /\ IsInjective(<<>>) /\ Range(<<>>) = {}
    BY EmptySeq DEF IsInjective, Range
  <1>3. /\ firstjob \in Seq(JobIds) /\ IsInjective(firstjob)
        /\ job \in [JobIds -> Job]
        /\ \A x \in JobIds : job[x].state = "RUNNING" => x \in Range(firstjob)
    BY <1>0 DEF JobsTypeOK, QueueConsistent, Consistent, Live
  <1>4. /\ job' \in [JobIds -> Job] /\ QueueConsistent'
        /\ SlotAccounting' /\ IsFiniteSet(RunningSlots') /\ NoStart
        /\ \A x \in JobIds : SameJob(x)
    BY <1>1, <1>2, <1>3, SweepStep
  <1>5. JobZeroFirst' /\ JobsTypeOK'
    BY <1>0, <1>1, <1>2, <1>4 DEF JobZeroFirst, JobsTypeOK, resultVars
  <1>6. Quiet
    BY <1>0, <1>1, <1>4 DEF Quiet, JobsTypeOK
  <1>. QED  BY <1>4, <1>5, <1>6 DEF JobsInv

(* A rearrangement of the queue that leaves its first job in place.        *)
LEMMA RearrangedStep ==
    ASSUME JobsInv,
           firstjob' \in Seq(JobIds), IsInjective(firstjob'),
           Range(firstjob') = Range(firstjob), firstjob'[1] = firstjob[1],
           UNCHANGED <<first_finished_job, job, jobids, outcome, resultVars,
                       busy_slots, max_slots, first_notify>>
    PROVE  JobsInv' /\ NoStart /\ Quiet
  <1>1. SlotAccounting' /\ IsFiniteSet(RunningSlots') /\ NoStart
    BY DEF JobsInv, SlotAccounting, RunningSlots, NoStart
  <1>2. QueueConsistent'
    BY DEF JobsInv, QueueConsistent, Consistent
  <1>3. JobZeroFirst' /\ JobsTypeOK'
    BY DEF JobsInv, JobZeroFirst, JobsTypeOK, resultVars
  <1>4. Quiet
    BY DEF JobsInv, JobsTypeOK, Quiet, SameJob
  <1>. QED  BY <1>1, <1>2, <1>3, <1>4 DEF JobsInv

(* s_move_urgent.                                                          *)
LEMMA MoveUrgentStep ==
    ASSUME TypeOK, JobsInv, NEW k, MoveUrgent(k)
    PROVE  JobsInv' /\ NoStart /\ Quiet
  <1>0. firstjob \in Seq(JobIds) /\ IsInjective(firstjob)
    BY DEF JobsInv, JobsTypeOK, QueueConsistent, Consistent
  <1>1. PICK q \in Named(firstjob, command[client_cs[k].socket].jobid) :
          q > 1 /\ firstjob' = Urge(q)
    BY DEF MoveUrgent
  <1>2. /\ Len(firstjob) \in Nat /\ DOMAIN firstjob = 1 .. Len(firstjob)
        /\ q \in 1 .. Len(firstjob)
    BY <1>0, <1>1, LenProperties DEF Named
  <1> DEFINE p == [n \in DOMAIN firstjob |->
                     IF n = 1 \/ n > q THEN n ELSE IF n = 2 THEN q ELSE n - 1]
  <1>3. p \in [DOMAIN firstjob -> DOMAIN firstjob]
    BY <1>1, <1>2
  <1>4. \A m, n \in DOMAIN firstjob : p[m] = p[n] => m = n
    BY <1>1, <1>2
  <1>5. \A m \in DOMAIN firstjob : \E n \in DOMAIN firstjob : p[n] = m
    <2>1. SUFFICES ASSUME NEW m \in DOMAIN firstjob
                   PROVE  \E n \in DOMAIN firstjob : p[n] = m
      OBVIOUS
    <2>2. CASE m = 1 \/ m > q
      BY <1>2, <2>2
    <2>3. CASE m = q
      <3>1. 2 \in DOMAIN firstjob /\ p[2] = q
        BY <1>1, <1>2
      <3>. QED  BY <2>3, <3>1
    <2>4. CASE m > 1 /\ m < q
      <3>1. m + 1 \in DOMAIN firstjob /\ p[m + 1] = m
        BY <1>1, <1>2, <2>4
      <3>. QED  BY <3>1
    <2>. QED  BY <1>2, <2>2, <2>3, <2>4
  <1>6. firstjob' = [n \in DOMAIN firstjob |-> firstjob[p[n]]]
    BY <1>1, <1>2 DEF Urge
  <1>7. firstjob'[1] = firstjob[1]
    BY <1>1, <1>2 DEF Urge
  <1> HIDE DEF p
  <1>8. /\ firstjob' \in Seq(JobIds) /\ IsInjective(firstjob')
        /\ Range(firstjob') = Range(firstjob)
    <2>1. Rearranges(firstjob', firstjob, p)
      BY <1>3, <1>4, <1>5, <1>6 DEF Rearranges
    <2>. QED  BY <1>0, <2>1, Rearranged
  <1>. QED  BY <1>7, <1>8, RearrangedStep DEF MoveUrgent

(* s_swap_jobs.                                                            *)
LEMMA SwapJobsStep ==
    ASSUME TypeOK, JobsInv, NEW k, SwapJobs(k)
    PROVE  JobsInv' /\ NoStart /\ Quiet
  <1>0. firstjob \in Seq(JobIds) /\ IsInjective(firstjob)
    BY DEF JobsInv, JobsTypeOK, QueueConsistent, Consistent
  <1>1. PICK q1 \in InQueue(command[client_cs[k].socket].jobid),
             q2 \in InQueue(command[client_cs[k].socket].jobid2) :
               /\ q1 > 1 /\ q2 > 1
               /\ firstjob' = [firstjob EXCEPT ![q1] = firstjob[q2],
                                               ![q2] = firstjob[q1]]
    BY DEF SwapJobs
  <1>2. /\ Len(firstjob) \in Nat /\ DOMAIN firstjob = 1 .. Len(firstjob)
        /\ q1 \in DOMAIN firstjob /\ q2 \in DOMAIN firstjob
    BY <1>0, <1>1, LenProperties DEF InQueue
  <1> DEFINE p == [n \in DOMAIN firstjob |->
                     IF n = q2 THEN q1 ELSE IF n = q1 THEN q2 ELSE n]
  <1>3. /\ p \in [DOMAIN firstjob -> DOMAIN firstjob]
        /\ \A m, n \in DOMAIN firstjob : p[m] = p[n] => m = n
        /\ \A m \in DOMAIN firstjob : \E n \in DOMAIN firstjob : p[n] = m
    BY <1>2
  <1>4. firstjob' = [n \in DOMAIN firstjob |-> firstjob[p[n]]]
    BY <1>1, <1>2
  <1>5. firstjob'[1] = firstjob[1]
    BY <1>1, <1>2
  <1> HIDE DEF p
  <1>6. /\ firstjob' \in Seq(JobIds) /\ IsInjective(firstjob')
        /\ Range(firstjob') = Range(firstjob)
    <2>1. Rearranges(firstjob', firstjob, p)
      BY <1>3, <1>4 DEF Rearranges
    <2>. QED  BY <1>0, <2>1, Rearranged
  <1>. QED  BY <1>5, <1>6, RearrangedStep DEF SwapJobs

(* next_run_job and s_mark_job_running: the job started takes its slots,   *)
(* which were free; the held jobs that are let in take none.               *)
LEMMA StartJobStep ==
    ASSUME TypeOK, JobsInv, StartJob
    PROVE  JobsInv' /\ StartsFit /\ \E j \in JobIds : Starts(j)
  <1>0. JobsTypeOK /\ QueueConsistent /\ JobZeroFirst
    BY DEF JobsInv
  <1>1. PICK q \in NextRunJob :
          /\ job' = [x \in JobIds |->
               IF x = firstjob[q] THEN [job[x] EXCEPT !.state = "RUNNING"]
               ELSE IF x \in HeldJobs
               THEN [job[x] EXCEPT !.state = "QUEUED"] ELSE job[x]]
          /\ busy_slots' = busy_slots + job[firstjob[q]].num_slots
    BY DEF StartJob
  <1>2. UNCHANGED <<firstjob, first_finished_job, jobids, outcome, resultVars,
                    max_slots, first_notify>>
    BY DEF StartJob
  <1> DEFINE j == firstjob[q]
  <1>3. /\ j \in JobIds /\ job[j] \in Job /\ job[j].state = "QUEUED"
        /\ job[j].num_slots \in Nat
        /\ job[j].num_slots <= max_slots - busy_slots
    <2>1. q \in DOMAIN firstjob /\ Runnable(q)
      BY <1>1 DEF NextRunJob
    <2>2. j \in JobIds /\ job[j] \in Job
      BY <1>0, <2>1, LenProperties DEF JobsTypeOK
    <2>. QED  BY <2>1, <2>2 DEF Runnable, Job
  <1> HIDE DEF j
  <1>4. \A r \in Job, st \in Live :
          LET u == [r EXCEPT !.state = st]
          IN  u \in Job /\ u.state = st /\ u.num_slots = r.num_slots
    BY DEF Job
  <1>5. \A x \in JobIds : job[x] \in Job
    BY <1>0 DEF JobsTypeOK
  <1>6. "RUNNING" \in Live /\ "QUEUED" \in Live /\ "HOLDING_CLIENT" \in Live
    BY DEF Live
  <1>7. /\ job' \in [JobIds -> Job]
        /\ job'[j].state = "RUNNING" /\ job'[j].num_slots = job[j].num_slots
        /\ \A x \in JobIds \ {j} :
             /\ job'[x].num_slots = job[x].num_slots
             /\ \/ job'[x].state = job[x].state
                \/ /\ job[x].state = "HOLDING_CLIENT"
                   /\ job'[x].state = "QUEUED"
    <2>1. \A x \in JobIds : job'[x] \in Job
      BY <1>1, <1>4, <1>5, <1>6 DEF HeldJobs, j
    <2>. QED  BY <1>1, <1>3, <1>4, <1>5, <1>6, <2>1 DEF HeldJobs, j
  <1>8. \A x \in JobIds :
          /\ job'[x].state \in Live <=> job[x].state \in Live
          /\ job'[x].state \in Done <=> job[x].state \in Done
          /\ job[x].state = "NONE" => job'[x].state = "NONE"
    BY <1>3, <1>7 DEF Live, Done
  <1>9. QueueConsistent'
    BY <1>0, <1>2, <1>8 DEF QueueConsistent, Consistent
  <1>10. /\ IsFiniteSet(SlotsOf(job'))
         /\ Cardinality(SlotsOf(job')) = busy_slots'
         /\ busy_slots' \in Nat /\ busy_slots' <= max_slots
    <2>1. /\ IsFiniteSet(SlotsOf(job)) /\ busy_slots = Cardinality(SlotsOf(job))
          /\ busy_slots \in Nat /\ max_slots \in Nat
      BY <1>0 DEF JobsInv, SlotAccounting, RunningSlots, JobsTypeOK
    <2>2. /\ IsFiniteSet(SlotsOf(job'))
          /\ Cardinality(SlotsOf(job')) =
               Cardinality(SlotsOf(job)) + job'[j].num_slots
      BY <1>3, <1>7, <2>1, SlotsOneMore
    <2>3. busy_slots' = busy_slots + job[j].num_slots
      BY <1>1 DEF j
    <2>. QED  BY <1>3, <1>7, <2>1, <2>2, <2>3
  <1>11. SlotAccounting' /\ IsFiniteSet(RunningSlots') /\ StartsFit
    BY <1>10 DEF SlotAccounting, RunningSlots, StartsFit
  <1>12. JobZeroFirst' /\ JobsTypeOK'
    BY <1>0, <1>2, <1>7, <1>10 DEF JobZeroFirst, JobsTypeOK, resultVars
  <1>13. Starts(j)
    <2>1. \A x \in JobIds \ {j} : SameJob(x)
      BY <1>7, <1>8 DEF SameJob
    <2>. QED  BY <1>2, <1>3, <1>7, <1>10, <2>1 DEF Starts, RunningSlots
  <1>. QED  BY <1>3, <1>9, <1>11, <1>12, <1>13 DEF JobsInv

-----------------------------------------------------------------------------
(* Every step keeps the tables right.                                      *)

(* A message or the end of a stream served by client_read.                 *)
LEMMA ClientReadJobs ==
    ASSUME IInv, NEW k, ClientRead(k)
    PROVE  JobsInv' /\ NoStart /\ ServedEffect
  <1> USE DEF ServedEffect
  <1>0. TypeOK /\ JobsInv
    BY DEF IInv
  <1>1. CASE Newjob(k)
    BY <1>0, <1>1, NewjobStep
  <1>2. CASE NewjobNok(k)
    BY <1>0, <1>2, NewjobNokStep
  <1>3. CASE EndJob(k)
    <2>1. Head(to_server[client_cs[k].socket]) \in ClientMsg
      BY <1>0, <1>3, TurnType DEF EndJob, Serve
    <2>2. PICK q \in DOMAIN firstjob, e \in Int, st \in Done :
            JobFinished(q, e, st)
      BY <1>3, <2>1 DEF EndJob, ClientMsg, InQueue, Done
    <2>. QED  BY <1>0, <2>2, JobFinishedStep DEF Ends
  <1>4. CASE JobClientDisappeared(k)
    <2>1. PICK q \in DOMAIN firstjob : JobFinished(q, -1, "FINISHED")
      BY <1>4 DEF JobClientDisappeared, InQueue
    <2>2. -1 \in Int /\ "FINISHED" \in Done
      BY DEF Done
    <2>. QED  BY <1>0, <2>1, <2>2, JobFinishedStep DEF Ends
  <1>5. CASE RemoveQueued(k)
    BY <1>0, <1>5, RemoveQueuedStep
  <1>6. CASE RemoveFinished(k)
    BY <1>0, <1>6, RemoveFinishedStep
  <1>7. CASE MoveUrgent(k)
    BY <1>0, <1>7, MoveUrgentStep
  <1>8. CASE SwapJobs(k)
    BY <1>0, <1>8, SwapJobsStep
  <1>9. CASE ClearFinished(k)
    BY <1>0, <1>9, ClearFinishedStep
  <1>10. CASE SetMaxSlots(k)
    <2>1. command[client_cs[k].socket].max_slots \in Int
      BY <1>0, <1>10, TurnType DEF SetMaxSlots, Serve, CommandLine
    <2>2. /\ max_slots' \in Nat \ {0}
          /\ UNCHANGED <<queueVars, resultVars, busy_slots, first_notify>>
      BY <1>0, <1>10, <2>1 DEF SetMaxSlots, JobsInv, JobsTypeOK
    <2>3. Quiet
      BY <2>2 DEF Quiet, SameJob, queueVars
    <2>. QED  BY <1>0, <2>2, <2>3
              DEF JobsInv, JobsTypeOK, QueueConsistent, Consistent, NoStart,
                  SlotAccounting, RunningSlots, JobZeroFirst, queueVars,
                  resultVars
  <1>11. CASE WaitQueued(k) \/ ClientDisappeared(k)
    <2>1. /\ first_notify' \subseteq Notify
          /\ UNCHANGED <<queueVars, resultVars, busy_slots, max_slots>>
      <3>1. CASE WaitQueued(k)
        <4>1. PICK q \in Named(firstjob, command[client_cs[k].socket].jobid) :
                first_notify' = first_notify \cup
                  {[socket |-> client_cs[k].socket, jobid |-> firstjob[q]]}
          BY <3>1 DEF WaitQueued
        <4>2. firstjob[q] \in JobIds
          BY <1>0, LenProperties DEF JobsInv, JobsTypeOK, Named
        <4>3. client_cs[k].socket \in Clients
          BY <1>0, <3>1, TurnType DEF WaitQueued, Serve
        <4>. QED  BY <1>0, <3>1, <4>1, <4>2, <4>3
                  DEF WaitQueued, JobsInv, JobsTypeOK, Notify
      <3>2. CASE ClientDisappeared(k)
        BY <1>0, <3>2 DEF ClientDisappeared, JobsInv, JobsTypeOK
      <3>. QED  BY <1>11, <3>1, <3>2
    <2>2. Quiet
      BY <1>0, <2>1 DEF Quiet, SameJob, queueVars, JobsInv, JobsTypeOK
    <2>. QED  BY <1>0, <2>1, <2>2
              DEF JobsInv, JobsTypeOK, QueueConsistent, Consistent, NoStart,
                  SlotAccounting, RunningSlots, JobZeroFirst, queueVars,
                  resultVars
  <1>12. CASE \/ NewjobNokFault(k) \/ GetLogdir(k) \/ RunjobOk(k)
              \/ FinishFault(k) \/ RemoveRefused(k) \/ WaitAnswered(k)
              \/ UrgentRefused(k) \/ UrgentFault(k) \/ SwapRefused(k)
              \/ KillServer(k) \/ List(k) \/ Query(k)
    <2>1. UNCHANGED jobsVars
      BY <1>12 DEF NewjobNokFault, GetLogdir, RunjobOk, FinishFault,
           RemoveRefused, WaitAnswered, UrgentRefused, UrgentFault, SwapRefused,
           KillServer, List, Query, Die
    <2>. QED  BY <1>0, <2>1, JobsUnchanged
  <1>. QED  BY <1>1, <1>2, <1>3, <1>4, <1>5, <1>6, <1>7, <1>8, <1>9, <1>10,
               <1>11, <1>12 DEF ClientRead

(* The clients do not touch the tables.                                    *)
LEMMA ClientsLeaveTables ==
    ASSUME NEW c, \/ ClientProcess(c) \/ Killed(c)
                  \/ \E cmd \in CommandLines : Connect(c, cmd)
    PROVE  UNCHANGED <<jobsVars, client_cs, keep_loop, server, readset, i>>
  BY DEF ClientProcess, WaitNewjobOk, NewjobRejected, Runjob, RunjobSkip,
         RunChild, EndOfJob, EndOfSkippedJob, ReceiveAnswer, ConnectionClosed,
         Killed, Connect, Exit, Receive, loopVars

(* Every step keeps JobsInv and has one of the effects on the tables.      *)
LEMMA JobsNext ==
    ASSUME IInv, [Next]_vars
    PROVE  JobsInv' /\ [StartsFit]_vars /\ Effect
  <1>0. TypeOK /\ JobsInv
    BY DEF IInv
  <1>1. ASSUME UNCHANGED jobsVars
        PROVE  JobsInv' /\ StartsFit /\ Effect
    BY <1>0, <1>1, JobsUnchanged DEF NoStart, StartsFit, Effect, ServedEffect
  <1>2. CASE ServerLoop
    <2>1. CASE Select \/ NothingToRun
      BY <1>1, <2>1 DEF Select, NothingToRun
    <2>2. CASE \E k \in Connections : ClientRead(k)
      BY <2>2, ClientReadJobs DEF NoStart, StartsFit, Effect
    <2>3. CASE StartJob
      BY <1>0, <2>3, StartJobStep DEF Effect
    <2>. QED  BY <1>2, <2>1, <2>2, <2>3 DEF ServerLoop
  <1>3. ASSUME NEW c \in Clients,
               \/ ClientProcess(c) \/ Killed(c)
               \/ \E cmd \in CommandLines : Connect(c, cmd)
        PROVE  JobsInv' /\ StartsFit /\ Effect
    BY <1>1, <1>3, ClientsLeaveTables
  <1>4. CASE UNCHANGED vars
    BY <1>1, <1>4 DEF vars
  <1>. QED  BY <1>2, <1>3, <1>4, ConstantsAssumption DEF Next
-----------------------------------------------------------------------------
(* Every step keeps the types of the connections and the sockets.          *)

(* A handler that answers, or not, and leaves the connections alone.       *)
LEMMA AnswerType ==
    ASSUME TypeOK, NEW k, Turn(k), to_server[client_cs[k].socket] # <<>>,
           NEW out, \A c \in DOMAIN out : out[c] \in ServerMsg,
           Served(k, out, {}), UNCHANGED client_cs, keep_loop' \in BOOLEAN
    PROVE  ConnectionsTypeOK' /\ SocketsTypeOK'
  <1>1. SocketsTypeOK'
    BY ServedType
  <1>. QED  BY <1>1 DEF TypeOK, ConnectionsTypeOK

(* The server stops at a fault.                                            *)
LEMMA DieType ==
    ASSUME TypeOK, NEW f \in Faults, Die(f)
    PROVE  ConnectionsTypeOK' /\ SocketsTypeOK'
  BY DEF TypeOK, ConnectionsTypeOK, SocketsTypeOK, Die, socketVars

(* The answers to the clients that waited for a job.                       *)
LEMMA WaitjobOkType ==
    ASSUME NEW j, NEW e \in Int
    PROVE  \A c \in DOMAIN WaitjobOk(j, e) : WaitjobOk(j, e)[c] \in ServerMsg
  BY ReplyType DEF WaitjobOk

(* The connection of a job may be marked or unmarked.                      *)
LEMMA EditConnectionType ==
    ASSUME ConnectionsTypeOK, NEW k \in DOMAIN client_cs, NEW e \in Connection,
           client_cs' = [client_cs EXCEPT ![k] = e], UNCHANGED keep_loop
    PROVE  ConnectionsTypeOK'
  <1>1. k \in 1 .. Len(client_cs)
    BY LenProperties DEF ConnectionsTypeOK
  <1>2. /\ [client_cs EXCEPT ![k] = e] \in Seq(Connection)
        /\ Len([client_cs EXCEPT ![k] = e]) = Len(client_cs)
    BY <1>1, ExceptSeq DEF ConnectionsTypeOK
  <1>. QED  BY <1>2 DEF ConnectionsTypeOK

(* Serving one message keeps the types of everything else.                 *)
LEMMA ClientReadType ==
    ASSUME IInv, NEW k, ClientRead(k)
    PROVE  ConnectionsTypeOK' /\ SocketsTypeOK'
  <1> DEFINE s == client_cs[k].socket
  <1>0. TypeOK /\ JobsInv /\ ConnectionsTypeOK /\ JobsTypeOK
    BY DEF IInv, TypeOK
  <1>1. ASSUME NEW type, Serve(k, type)
        PROVE  /\ Turn(k) /\ to_server[s] # <<>> /\ s \in Clients
               /\ k \in DOMAIN client_cs /\ client_cs[k] \in Connection
               /\ Head(to_server[s]) \in ClientMsg
    BY <1>0, <1>1, TurnType DEF Serve
  <1>2. ASSUME EndOfStream(k)
        PROVE  Turn(k) /\ k \in DOMAIN client_cs
    BY <1>0, <1>2, TurnType DEF EndOfStream
  <1>3. CASE Newjob(k)
    <2> DEFINE out == IF QueueFull THEN Nothing
                      ELSE To(s, Reply("NEWJOB_OK", 0))
               e == [socket |-> s, hasjob |-> TRUE, jobid |-> jobids]
    <2>1. Serve(k, "NEWJOB") /\ Served(k, out, {})
      BY <1>3 DEF Newjob
    <2>2. \A c \in DOMAIN out : out[c] \in ServerMsg
      BY ReplyType
    <2>3. SocketsTypeOK'
      <3> HIDE DEF out
      <3>. QED  BY <1>0, <1>1, <2>1, <2>2, ServedType
    <2>4. e \in Connection
      BY <1>0, <1>1, <2>1 DEF Connection, JobsTypeOK
    <2>5. client_cs' = [client_cs EXCEPT ![k] = e] /\ UNCHANGED keep_loop
      BY <1>3 DEF Newjob
    <2> HIDE DEF e
    <2>. QED  BY <1>0, <1>1, <2>1, <2>3, <2>4, <2>5, EditConnectionType
  <1>4. CASE NewjobNok(k)
    <2>1. /\ Serve(k, "NEWJOB") /\ client_cs' = RemoveAt(client_cs, k)
          /\ Served(k, To(s, Reply("NEWJOB_NOK", 0)), {s})
          /\ UNCHANGED keep_loop
      BY <1>4 DEF NewjobNok
    <2>. QED  BY <1>0, <1>1, <2>1, ServedType, ReplyType, RemoveConnectionType
  <1>5. CASE EndJob(k)
    <2> DEFINE m == Head(to_server[s])
               out == WaitjobOk(client_cs[k].jobid, m.errorlevel)
               e == [client_cs[k] EXCEPT !.hasjob = FALSE]
    <2>1. /\ Serve(k, "ENDJOB") /\ Served(k, out, {}) /\ UNCHANGED keep_loop
          /\ client_cs' = [client_cs EXCEPT ![k] = e]
      BY <1>5 DEF EndJob, ForgetJob
    <2>2. m.errorlevel \in Int
      BY <1>1, <2>1 DEF ClientMsg
    <2>3. e \in Connection
      BY <1>1, <2>1 DEF Connection
    <2>4. \A c \in DOMAIN out : out[c] \in ServerMsg
      BY <2>2, WaitjobOkType
    <2> HIDE DEF out, e
    <2>5. SocketsTypeOK'
      BY <1>0, <1>1, <2>1, <2>4, ServedType
    <2>. QED  BY <1>0, <1>1, <2>1, <2>3, <2>5, EditConnectionType
  <1>6. CASE JobClientDisappeared(k)
    <2> DEFINE out == WaitjobOk(client_cs[k].jobid, -1)
    <2>1. /\ EndOfStream(k) /\ Served(k, out, {s}) /\ UNCHANGED keep_loop
          /\ client_cs' = RemoveAt(client_cs, k)
      BY <1>6 DEF JobClientDisappeared
    <2>2. -1 \in Int
      OBVIOUS
    <2>3. \A c \in DOMAIN out : out[c] \in ServerMsg
      BY <2>2, WaitjobOkType
    <2> HIDE DEF out
    <2>4. SocketsTypeOK'
      BY <1>0, <1>2, <2>1, <2>3, ServedType
    <2>. QED  BY <1>0, <1>2, <2>1, <2>4, RemoveConnectionType
  <1>7. CASE ClientDisappeared(k)
    <2>1. /\ EndOfStream(k) /\ Served(k, Nothing, {s}) /\ UNCHANGED keep_loop
          /\ client_cs' = RemoveAt(client_cs, k)
      BY <1>7 DEF ClientDisappeared
    <2>2. SocketsTypeOK'
      BY <1>0, <1>2, <2>1, ReplyType, ServedType
    <2>. QED  BY <1>0, <1>2, <2>1, <2>2, RemoveConnectionType
  <1>8. CASE RemoveQueued(k)
    <2>1. Serve(k, "REMOVEJOB") /\ UNCHANGED keep_loop
      BY <1>8 DEF RemoveQueued
    <2>2. PICK n \in DOMAIN client_cs :
            /\ client_cs' = RemoveAt(client_cs, n)
            /\ Served(k, To(s, Reply("ANSWER", 0)), {client_cs[n].socket})
      BY <1>8 DEF RemoveQueued, ConnOf
    <2>3. SocketsTypeOK'
      BY <1>0, <1>1, <2>1, <2>2, ReplyType, ServedType
    <2>. QED  BY <1>0, <2>1, <2>2, <2>3, RemoveConnectionType
  <1>9. CASE List(k)
    <2>1. /\ Serve(k, "LIST") /\ client_cs' = RemoveAt(client_cs, k)
          /\ Served(k, To(s, Reply("LIST_LINE", 0)), {s})
          /\ UNCHANGED keep_loop
      BY <1>9 DEF List
    <2>. QED  BY <1>0, <1>1, <2>1, ServedType, ReplyType, RemoveConnectionType
  <1>10. CASE WaitAnswered(k)
    <2>1. Serve(k, "WAITJOB") /\ UNCHANGED <<client_cs, keep_loop>>
      BY <1>10 DEF WaitAnswered
    <2>2. PICK m \in ServerMsg : Served(k, To(s, m), {})
      <3>1. CASE Served(k, To(s, Reply("LIST_LINE", 0)), {})
        BY <3>1, ReplyType
      <3>2. CASE \E q \in Named(first_finished_job, command[s].jobid) :
                   Served(k, To(s, Reply("WAITJOB_OK",
                              job[first_finished_job[q]].errorlevel)), {})
        <4>1. PICK q \in Named(first_finished_job, command[s].jobid) :
                Served(k, To(s, Reply("WAITJOB_OK",
                           job[first_finished_job[q]].errorlevel)), {})
          BY <3>2
        <4>2. first_finished_job[q] \in JobIds
          BY <1>0, LenProperties DEF JobsTypeOK, Named
        <4>3. job[first_finished_job[q]].errorlevel \in Int
          BY <1>0, <4>2 DEF JobsTypeOK, Job
        <4>. QED  BY <4>1, <4>3, ReplyType
      <3>. QED  BY <1>10, <3>1, <3>2 DEF WaitAnswered
    <2>3. keep_loop' \in BOOLEAN
      BY <1>0, <2>1 DEF ConnectionsTypeOK
    <2>4. \A c \in DOMAIN To(s, m) : To(s, m)[c] \in ServerMsg
      BY <2>2, ReplyType
    <2>. QED  BY <1>0, <1>1, <2>1, <2>2, <2>3, <2>4, AnswerType
  <1>11. CASE NewjobNokFault(k) \/ FinishFault(k) \/ UrgentFault(k)
    <2>1. PICK f \in Faults : Die(f)
      <3>1. \A keep, waited : FinishFaults(keep, waited) \subseteq Faults
        BY DEF FinishFaults, Faults
      <3>2. CASE NewjobNokFault(k)
        <4>1. \E f \in FinishFaults(command[s].should_keep_finished, FALSE) :
                Die(f)
          BY <3>2 DEF NewjobNokFault
        <4>. QED  BY <3>1, <4>1
      <3>3. CASE FinishFault(k)
        <4> DEFINE j == client_cs[k].jobid
        <4>1. \E f \in FinishFaults(job[j].should_keep_finished,
                                    Waiters(j) # {}) : Die(f)
          BY <3>3 DEF FinishFault
        <4>. QED  BY <3>1, <4>1
      <3>4. CASE UrgentFault(k)
        BY <3>4 DEF UrgentFault, Faults
      <3>. QED  BY <1>11, <3>2, <3>3, <3>4
    <2>. QED  BY <1>0, <2>1, DieType
  <1>12. CASE \/ GetLogdir(k) \/ RemoveFinished(k) \/ RemoveRefused(k)
              \/ MoveUrgent(k) \/ UrgentRefused(k) \/ SwapJobs(k)
              \/ SwapRefused(k) \/ Query(k)
    <2>1. /\ \E type : Serve(k, type)
          /\ UNCHANGED <<client_cs, keep_loop>>
          /\ \E type \in {"LOGDIR", "ANSWER", "LIST_LINE"} :
               Served(k, To(s, Reply(type, 0)), {})
      BY <1>12 DEF GetLogdir, RemoveFinished, RemoveRefused, MoveUrgent,
           UrgentRefused, SwapJobs, SwapRefused, Query
    <2>2. PICK m \in ServerMsg : Served(k, To(s, m), {})
      BY <2>1, ReplyType
    <2>3. keep_loop' \in BOOLEAN
      BY <1>0, <2>1 DEF ConnectionsTypeOK
    <2>4. \A c \in DOMAIN To(s, m) : To(s, m)[c] \in ServerMsg
      BY <2>2, ReplyType
    <2>. QED  BY <1>0, <1>1, <2>1, <2>2, <2>3, <2>4, AnswerType
  <1>13. CASE \/ RunjobOk(k) \/ WaitQueued(k) \/ ClearFinished(k)
              \/ SetMaxSlots(k) \/ KillServer(k)
    <2>1. /\ \E type : Serve(k, type)
          /\ UNCHANGED client_cs /\ keep_loop' \in BOOLEAN
          /\ Served(k, Nothing, {})
      BY <1>0, <1>13 DEF RunjobOk, WaitQueued, ClearFinished, SetMaxSlots,
           KillServer, ConnectionsTypeOK
    <2>. QED  BY <1>0, <1>1, <2>1, ReplyType, AnswerType
  <1>. QED  BY <1>3, <1>4, <1>5, <1>6, <1>7, <1>8, <1>9, <1>10, <1>11, <1>12,
               <1>13 DEF ClientRead
(* What a client process does to its own state and its sockets.            *)
LEMMA ClientStepType ==
    ASSUME TypeOK, NEW c \in Clients,
           \/ ClientProcess(c) \/ Killed(c)
           \/ \E cmd \in CommandLines : Connect(c, cmd)
    PROVE  ConnectionsTypeOK' /\ SocketsTypeOK'
  <1> USE DEF SocketsTypeOK
  <1>0. SocketsTypeOK /\ ConnectionsTypeOK
    BY DEF TypeOK
  <1>1. UNCHANGED <<client_cs, keep_loop, server, readset, i>>
    BY ClientsLeaveTables
  <1>2. ConnectionsTypeOK'
    BY <1>0, <1>1 DEF ConnectionsTypeOK
  <1> SUFFICES SocketsTypeOK'
    BY <1>2
  <1>3. ASSUME Exit(c), to_server' \in [Clients -> Seq(ClientMsg)]
        PROVE  SocketsTypeOK'
    <2>1. NoCommand \in CommandLine
      BY DEF NoCommand, CommandLine, Requests, OneWay, Queries
    <2>2. to_client' \in [Clients -> Seq(ServerMsg)]
      BY <1>0, <1>3, EmptySeq DEF Exit
    <2>3. /\ pc' \in [Clients -> ClientStates]
          /\ command' \in [Clients -> CommandLine]
      BY <1>0, <1>3, <2>1 DEF Exit, ClientStates
    <2>. QED  BY <1>0, <1>1, <1>3, <2>2, <2>3 DEF Exit
  <1>4. ASSUME NEW type, NEW next \in ClientStates, Receive(c, type, next),
               to_server' \in [Clients -> Seq(ClientMsg)]
        PROVE  SocketsTypeOK'
    <2>1. to_client[c] \in Seq(ServerMsg) /\ to_client[c] # <<>>
      BY <1>0, <1>4 DEF Receive
    <2>2. Tail(to_client[c]) \in Seq(ServerMsg)
      BY <2>1, HeadTailProperties
    <2>3. to_client' \in [Clients -> Seq(ServerMsg)]
      BY <1>0, <1>4, <2>2 DEF Receive
    <2>. QED  BY <1>0, <1>1, <1>4, <2>3 DEF Receive
  <1>5. ASSUME NEW m \in ClientMsg, SendToServer(c, m)
        PROVE  to_server' \in [Clients -> Seq(ClientMsg)]
    <2>1. Append(to_server[c], m) \in Seq(ClientMsg)
      BY <1>0, AppendProperties
    <2>. QED  BY <1>0, <1>5, <2>1 DEF SendToServer
  <1>6. /\ Message("GET_LOGDIR", 0, FALSE) \in ClientMsg
        /\ Message("RUNJOB_OK", 0, FALSE) \in ClientMsg
        /\ Message("ENDJOB", -1, TRUE) \in ClientMsg
        /\ \A e \in Int : Message("ENDJOB", e, FALSE) \in ClientMsg
        /\ \A type \in Requests : Message(type, 0, FALSE) \in ClientMsg
    BY DEF Message, ClientMsg
  <1>7. CASE WaitNewjobOk(c)
    BY <1>0, <1>4, <1>7 DEF WaitNewjobOk, ClientStates
  <1>8. CASE \/ NewjobRejected(c) \/ ReceiveAnswer(c)
             \/ ConnectionClosed(c) \/ Killed(c)
    BY <1>0, <1>3, <1>8
       DEF NewjobRejected, ReceiveAnswer, ConnectionClosed, Killed
  <1>9. CASE Runjob(c) \/ RunjobSkip(c) \/ RunChild(c)
    <2>1. to_server' \in [Clients -> Seq(ClientMsg)]
      BY <1>5, <1>6, <1>9 DEF Runjob, RunjobSkip, RunChild
    <2>2. \E next \in ClientStates : \E type : Receive(c, type, next)
      BY <1>9 DEF Runjob, RunjobSkip, RunChild, ClientStates
    <2>. QED  BY <1>4, <2>1, <2>2
  <1>10. CASE EndOfJob(c) \/ EndOfSkippedJob(c)
    <2>1. to_server' \in [Clients -> Seq(ClientMsg)]
      BY <1>5, <1>6, <1>10, ConstantsAssumption DEF EndOfJob, EndOfSkippedJob
    <2>. QED  BY <1>3, <1>10, <2>1 DEF EndOfJob, EndOfSkippedJob
  <1>11. CASE \E cmd \in CommandLines : Connect(c, cmd)
    <2>1. PICK cmd \in CommandLine : Connect(c, cmd)
      BY <1>11, ConstantsAssumption
    <2>2. Message(cmd.request, 0, FALSE) \in ClientMsg
      BY <1>6 DEF CommandLine
    <2>3. /\ <<Message(cmd.request, 0, FALSE)>> \in Seq(ClientMsg)
          /\ <<>> \in Seq(ServerMsg) /\ Append(backlog, c) \in Seq(Clients)
      <3>1. \A m \in ClientMsg : <<m>> \in Seq(ClientMsg)
        OBVIOUS
      <3>2. <<>> \in Seq(ServerMsg)
        BY EmptySeq
      <3>3. Append(backlog, c) \in Seq(Clients)
        BY <1>0, AppendProperties
      <3>. QED  BY <2>2, <3>1, <3>2, <3>3
    <2>4. /\ to_server' \in [Clients -> Seq(ClientMsg)]
          /\ to_client' \in [Clients -> Seq(ServerMsg)]
          /\ backlog' \in Seq(Clients)
      BY <1>0, <2>1, <2>3 DEF Connect
    <2>5. /\ pc' \in [Clients -> ClientStates]
          /\ command' \in [Clients -> CommandLine]
      BY <1>0, <2>1 DEF Connect, ClientStates
    <2>. QED  BY <1>0, <1>1, <2>4, <2>5
  <1>. QED  BY <1>7, <1>8, <1>9, <1>10, <1>11 DEF ClientProcess

(* select and the end of a round.                                          *)
LEMMA RoundType ==
    ASSUME IInv, Select \/ StartJob \/ NothingToRun
    PROVE  ConnectionsTypeOK' /\ SocketsTypeOK'
  <1>0. TypeOK /\ SocketsTypeOK /\ ConnectionsTypeOK /\ JobsTypeOK
    BY DEF IInv, TypeOK
  <1>1. CASE Select
    <2> DEFINE accept == backlog # <<>> /\ AcceptMore
               new == [socket |-> Head(backlog), hasjob |-> FALSE, jobid |-> -1]
    <2>1. /\ readset' \subseteq Clients /\ i' = 1
          /\ client_cs' = IF accept THEN Append(client_cs, new) ELSE client_cs
          /\ backlog' = IF accept THEN Tail(backlog) ELSE backlog
          /\ UNCHANGED <<server, keep_loop, to_server, to_client, pc, command>>
      BY <1>1 DEF Select
    <2>2. CASE accept
      <3>1. backlog \in Seq(Clients) /\ backlog # <<>>
        BY <1>0, <2>2 DEF SocketsTypeOK
      <3>2. Head(backlog) \in Clients /\ Tail(backlog) \in Seq(Clients)
        BY <3>1, HeadTailProperties
      <3>3. new \in Connection
        BY <3>2 DEF Connection
      <3>4. client_cs \in Seq(Connection) /\ Len(client_cs) \in Nat
        BY <1>0, LenProperties DEF ConnectionsTypeOK
      <3> HIDE DEF new
      <3>5. /\ Append(client_cs, new) \in Seq(Connection)
            /\ Len(Append(client_cs, new)) = Len(client_cs) + 1
        BY <3>3, <3>4, AppendProperties
      <3>6. Len(client_cs) + 1 <= MaxDescriptors
        BY <2>2, <3>4, ConstantsAssumption DEF AcceptMore
      <3>. QED  BY <1>0, <2>1, <2>2, <3>2, <3>5, <3>6
                DEF SocketsTypeOK, ConnectionsTypeOK
    <2>3. CASE ~accept
      BY <1>0, <2>1, <2>3 DEF SocketsTypeOK, ConnectionsTypeOK
    <2>. QED  BY <2>2, <2>3
  <1>2. ASSUME LoopAgain, to_client' \in [Clients -> Seq(ServerMsg)]
        PROVE  ConnectionsTypeOK' /\ SocketsTypeOK'
    BY <1>0, <1>2 DEF LoopAgain, SocketsTypeOK, ConnectionsTypeOK
  <1>3. CASE NothingToRun
    BY <1>0, <1>2, <1>3 DEF NothingToRun, SocketsTypeOK
  <1>4. CASE StartJob
    <2>1. PICK q \in NextRunJob, n \in DOMAIN client_cs :
            SendMsg([c \in HeldClients \cup {client_cs[n].socket} |->
                     IF c = client_cs[n].socket
                     THEN Reply("RUNJOB",
                                job[firstjob[q]].dependency_errorlevel)
                     ELSE Reply("NEWJOB_OK", 0)])
      BY <1>4 DEF StartJob, ConnOf
    <2>2. firstjob[q] \in JobIds
      BY <1>0, LenProperties DEF NextRunJob, JobsTypeOK
    <2>3. job[firstjob[q]].dependency_errorlevel \in Int
      BY <1>0, <2>2 DEF JobsTypeOK, Job
    <2>4. /\ Reply("RUNJOB", job[firstjob[q]].dependency_errorlevel) \in ServerMsg
          /\ Reply("NEWJOB_OK", 0) \in ServerMsg
      BY <2>3, ReplyType
    <2>5. to_client' \in [Clients -> Seq(ServerMsg)]
      BY <1>0, <2>1, <2>4, SendMsgType
    <2>. QED  BY <1>2, <1>4, <2>5 DEF StartJob
  <1>. QED  BY <1>1, <1>3, <1>4

(* Every step of the server and of the clients keeps the types.            *)
LEMMA TypeNext ==
    ASSUME IInv, [Next]_vars
    PROVE  ConnectionsTypeOK' /\ SocketsTypeOK'
  <1>0. TypeOK
    BY DEF IInv
  <1>1. CASE ServerLoop
    BY <1>1, ClientReadType, RoundType DEF ServerLoop
  <1>2. ASSUME NEW c \in Clients,
               \/ ClientProcess(c) \/ Killed(c)
               \/ \E cmd \in CommandLines : Connect(c, cmd)
        PROVE  ConnectionsTypeOK' /\ SocketsTypeOK'
    BY <1>0, <1>2, ClientStepType
  <1>3. CASE UNCHANGED vars
    BY <1>0, <1>3 DEF TypeOK, ConnectionsTypeOK, SocketsTypeOK, vars, loopVars,
         socketVars
  <1>. QED  BY <1>1, <1>2, <1>3, ConstantsAssumption DEF Next

-----------------------------------------------------------------------------
(* The theorems.                                                           *)

(* The server starts with empty tables, in the invariant.                  *)
LEMMA InitInv == Init => IInv
  <1>1. SUFFICES ASSUME Init PROVE IInv
    OBVIOUS
  <1>2. NoJob \in Job /\ NoCommand \in CommandLine
    BY DEF NoJob, Job, Live, Done, NoCommand, CommandLine, Requests, OneWay,
         Queries
  <1>3. TypeOK
    BY <1>1, <1>2, EmptySeq, ConstantsAssumption
       DEF Init, TypeOK, JobsTypeOK, ConnectionsTypeOK, SocketsTypeOK,
           ClientStates
  <1>4. IsInjective(<<>>) /\ Range(<<>>) = {}
    BY DEF IsInjective, Range
  <1>5. QueueConsistent /\ JobZeroFirst
    BY <1>1, <1>4
       DEF Init, QueueConsistent, Consistent, JobZeroFirst, NoJob, Live, Done
  <1>6. SlotsOf(job) = {}
    BY <1>1 DEF Init, SlotsOf, NoJob
  <1>7. SlotAccounting /\ IsFiniteSet(RunningSlots)
    BY <1>1, <1>6, FS_EmptySet DEF Init, SlotAccounting, RunningSlots
  <1>. QED  BY <1>3, <1>5, <1>7 DEF IInv, JobsInv, TypeOK

(* No step of the server, a client or a death leaves the invariant.        *)
LEMMA NextInv == IInv /\ [Next]_vars => IInv'
  BY JobsNext, TypeNext DEF IInv, JobsInv, TypeOK

(* The invariant holds in every reachable state.                           *)
LEMMA InvariantHolds == Spec => []IInv
  BY InitInv, NextInv, PTL DEF Spec

(* The tables of the server and of the clients are well typed: busy_slots  *)
(* is never negative, and server_loop never writes beyond the client_cs    *)
(* array that server_main has allocated.                                   *)
THEOREM TypeCorrect == Spec => []TypeOK
  <1>1. IInv => TypeOK
    BY DEF IInv
  <1>. QED  BY <1>1, InvariantHolds, PTL

(* busy_slots is the number of slots of the running jobs, whatever ends    *)
(* the jobs: ENDJOB, the death of their client in any state of the job, or *)
(* a rejection by a full queue.                                            *)
THEOREM SlotsAccounted == Spec => []SlotAccounting
  <1>1. IInv => SlotAccounting
    BY DEF IInv, JobsInv
  <1>. QED  BY <1>1, InvariantHolds, PTL

(* The queue, the list of results and the job table agree with each other. *)
THEOREM ListsConsistent == Spec => []QueueConsistent
  <1>1. IInv => QueueConsistent
    BY DEF IInv, JobsInv
  <1>. QED  BY <1>1, InvariantHolds, PTL

(* Job 0 is never behind another job in the queue, so the call             *)
(* check_notify_list(0) that s_remove_job makes never meets a waiter.      *)
THEOREM ZeroStaysFirst == Spec => []JobZeroFirst
  <1>1. IInv => JobZeroFirst
    BY DEF IInv, JobsInv
  <1>. QED  BY <1>1, InvariantHolds, PTL

(* next_run_job starts a job only if the slots it needs are free under the *)
(* present limit; no other step makes a job RUNNING.                       *)
THEOREM StartsWithinLimit == Spec => SlotLimit
  <1>1. IInv /\ [Next]_vars => [StartsFit]_vars
    BY JobsNext
  <1>2. Spec => [][StartsFit]_vars
    BY <1>1, InvariantHolds, PTL DEF Spec
  <1>. QED  BY <1>2 DEF SlotLimit, StartsFit

-----------------------------------------------------------------------------
(* The protocol: the server and the clients of jobs agree, for any number  *)
(* of clients and jobs and whoever dies when.  Every job of the queue has  *)
(* one connection, and what is on that connection in both directions fits  *)
(* the state of the job and of the client.                                 *)

(* The connections, whatever their order.                                  *)
Conns == Range(client_cs)

(* The messages of a stream, by their types.                               *)
One(s, t)    == Len(s) = 1 /\ s[1].type = t
Two(s, t, u) == Len(s) = 2 /\ s[1].type = t /\ s[2].type = u

(* What may be seen of a client without a job that is in state p, has made *)
(* the request req, and has the messages ts and tc on its way to and from  *)
(* the server: either the request has not been read, or it has been.       *)
FreeLink(p, req, ts, tc) ==
    \/ /\ One(ts, req) /\ tc = <<>>
       /\ p \in {"closed", IF req = "NEWJOB" THEN "wait_newjob_ok"
                           ELSE "wait_answer"}
    \/ ts = <<>> /\ p \in {"wait_answer", "closed"}

(* The same for the client of a job in state st: how far the two are in    *)
(* NEWJOB_OK, RUNJOB, GET_LOGDIR, LOGDIR, RUNJOB_OK, ENDJOB.  A closed     *)
(* client has left after any of these.                                     *)
HoldingLink(p, ts, tc) ==
    /\ ts = <<>>
    /\ p = "closed" \/ (p = "wait_newjob_ok" /\ tc = <<>>)

QueuedLink(p, ts, tc) ==
    /\ ts = <<>>
    /\ \/ p = "wait_newjob_ok" /\ One(tc, "NEWJOB_OK")
       \/ p = "wait_server_commands" /\ tc = <<>>
       \/ p = "closed"

RunningLink(p, ts, tc) ==
    \/ p = "wait_newjob_ok" /\ ts = <<>> /\ Two(tc, "NEWJOB_OK", "RUNJOB")
    \/ p = "wait_server_commands" /\ ts = <<>> /\ One(tc, "RUNJOB")
    \/ p = "wait_logdir" /\ One(ts, "GET_LOGDIR") /\ tc = <<>>
    \/ p = "wait_logdir" /\ ts = <<>> /\ One(tc, "LOGDIR")
    \/ /\ p \in {"running", "skipped"} /\ tc = <<>>
       /\ ts = <<>> \/ One(ts, "RUNJOB_OK")
    \/ /\ p = "closed"
       /\ \/ ts = <<>> \/ One(ts, "GET_LOGDIR") \/ One(ts, "RUNJOB_OK")
          \/ One(ts, "ENDJOB") \/ Two(ts, "RUNJOB_OK", "ENDJOB")

JobLink(p, ts, tc, st) ==
    \/ st = "HOLDING_CLIENT" /\ HoldingLink(p, ts, tc)
    \/ st = "QUEUED" /\ QueuedLink(p, ts, tc)
    \/ st = "RUNNING" /\ RunningLink(p, ts, tc)

(* The connections and the queue: a socket is in one place, a job has one  *)
(* connection, and only jobs of the queue have one.                        *)
Wired ==
    /\ IsInjective(client_cs) /\ IsInjective(backlog)
    /\ \A x, y \in Conns : x.socket = y.socket => x = y
    /\ \A x \in Conns : x.socket \notin Range(backlog)
    /\ \A x, y \in Conns :
         x.hasjob /\ y.hasjob /\ x.jobid = y.jobid => x = y
    /\ \A x \in Conns : x.hasjob => x.jobid \in Range(firstjob)
    /\ \A j \in Range(firstjob) : \E x \in Conns : x.hasjob /\ x.jobid = j

(* The client of a connection is where it should be; one that is not yet   *)
(* accepted as if it were.                                                 *)
Link(x) ==
    IF x.hasjob
    THEN JobLink(pc[x.socket], to_server[x.socket], to_client[x.socket],
                 job[x.jobid].state)
    ELSE FreeLink(pc[x.socket], command[x.socket].request,
                  to_server[x.socket], to_client[x.socket])

Accepted(c) == [socket |-> c, hasjob |-> FALSE, jobid |-> -1]

Linked ==
    /\ \A x \in Conns : Link(x)
    /\ \A c \in Range(backlog) : Link(Accepted(c))

(* A waiter of the notify list has no job, so that WAITJOB_OK does not get *)
(* between the messages about one.                                         *)
WaitersFree ==
    \A n \in first_notify :
        /\ to_server[n.socket] = <<>>
        /\ \E x \in Conns : x.socket = n.socket /\ ~x.hasjob

Protocol == Wired /\ Linked /\ WaitersFree

(* Once the server has stopped its tables stand still, but clients go.     *)
PInv == Wired /\ ReportsAreExpected /\ (server = "up" => Protocol)

-----------------------------------------------------------------------------
(* Streams of one and of two messages.                                     *)
LEMMA Streams ==
    ASSUME NEW S, NEW s \in Seq(S), NEW e \in S
    PROVE  /\ s = <<>> => One(Append(s, e), e.type)
           /\ \A t : One(s, t) => /\ Two(Append(s, e), t, e.type)
                                 /\ s # <<>> /\ Head(s).type = t
                                 /\ Tail(s) = <<>>
           /\ \A t, u : Two(s, t, u) => /\ s # <<>> /\ Head(s).type = t
                                       /\ One(Tail(s), u)
  <1>1. Len(s) \in Nat /\ (s = <<>> <=> Len(s) = 0)
    BY EmptySeq, LenProperties
  <1>2. /\ Len(Append(s, e)) = Len(s) + 1
        /\ Append(s, e)[Len(s) + 1] = e
        /\ \A n \in 1 .. Len(s) : Append(s, e)[n] = s[n]
    BY AppendProperties
  <1>3. s # <<>> => /\ Head(s) = s[1] /\ Len(Tail(s)) = Len(s) - 1
                    /\ \A n \in 1 .. (Len(s) - 1) : Tail(s)[n] = s[n + 1]
                    /\ Tail(s) \in Seq(S)
    BY HeadTailProperties
  <1>4. s # <<>> => (Tail(s) = <<>> <=> Len(Tail(s)) = 0)
    BY <1>3, EmptySeq
  <1>5. s = <<>> => One(Append(s, e), e.type)
    BY <1>1, <1>2 DEF One
  <1>6. ASSUME NEW t, One(s, t)
        PROVE  /\ Two(Append(s, e), t, e.type) /\ s # <<>> /\ Head(s).type = t
               /\ Tail(s) = <<>>
    BY <1>1, <1>2, <1>3, <1>4, <1>6 DEF One, Two
  <1>7. ASSUME NEW t, NEW u, Two(s, t, u)
        PROVE  s # <<>> /\ Head(s).type = t /\ One(Tail(s), u)
    BY <1>1, <1>3, <1>7 DEF One, Two
  <1>. QED  BY <1>5, <1>6, <1>7

(* What the server may find on the connection of a job, and what is left.  *)
LEMMA JobLinkHead ==
    ASSUME NEW p, NEW ts \in Seq(ClientMsg), NEW tc \in Seq(ServerMsg), NEW st,
           JobLink(p, ts, tc, st), ts # <<>>
    PROVE  /\ st = "RUNNING"
           /\ Head(ts).type \in {"GET_LOGDIR", "RUNJOB_OK", "ENDJOB"}
  <1>1. /\ \A t : One(ts, t) => Head(ts).type = t /\ Tail(ts) = <<>>
        /\ \A t, u : Two(ts, t, u) => Head(ts).type = t /\ One(Tail(ts), u)
    <2>1. Head(ts) \in ClientMsg
      BY HeadTailProperties
    <2>. QED  BY <2>1, Streams
  <1>2. st = "RUNNING" /\ RunningLink(p, ts, tc)
    BY DEF JobLink, HoldingLink, QueuedLink
  <1>. QED  BY <1>1, <1>2 DEF JobLink, RunningLink

(* RUNJOB_OK is noted.                                                     *)
LEMMA JobLinkRunjobOk ==
    ASSUME NEW p, NEW ts \in Seq(ClientMsg), NEW tc \in Seq(ServerMsg), NEW st,
           JobLink(p, ts, tc, st), ts # <<>>, Head(ts).type = "RUNJOB_OK"
    PROVE  JobLink(p, Tail(ts), tc, st)
  <1>1. /\ \A t : One(ts, t) => Head(ts).type = t /\ Tail(ts) = <<>>
        /\ \A t, u : Two(ts, t, u) => Head(ts).type = t /\ One(Tail(ts), u)
    <2>1. Head(ts) \in ClientMsg
      BY HeadTailProperties
    <2>. QED  BY <2>1, Streams
  <1>2. st = "RUNNING" /\ RunningLink(p, ts, tc)
    BY DEF JobLink, HoldingLink, QueuedLink
  <1>. QED  BY <1>1, <1>2 DEF JobLink, RunningLink

(* ENDJOB is the last thing a client says.                                 *)
LEMMA JobLinkEndjob ==
    ASSUME NEW p, NEW ts \in Seq(ClientMsg), NEW tc \in Seq(ServerMsg), NEW st,
           JobLink(p, ts, tc, st), ts # <<>>, Head(ts).type = "ENDJOB"
    PROVE  p = "closed" /\ Tail(ts) = <<>>
  <1>1. /\ \A t : One(ts, t) => Head(ts).type = t /\ Tail(ts) = <<>>
        /\ \A t, u : Two(ts, t, u) => Head(ts).type = t /\ One(Tail(ts), u)
    <2>1. Head(ts) \in ClientMsg
      BY HeadTailProperties
    <2>. QED  BY <2>1, Streams
  <1>2. st = "RUNNING" /\ RunningLink(p, ts, tc)
    BY DEF JobLink, HoldingLink, QueuedLink
  <1>. QED  BY <1>1, <1>2 DEF JobLink, RunningLink

(* A message for a client: lost if the client has left.                    *)
Sent(p, tc, m, tc2) == p # "closed" => tc2 = Append(tc, m)

(* GET_LOGDIR is answered.                                                 *)
LEMMA JobLinkLogdir ==
    ASSUME NEW p, NEW ts \in Seq(ClientMsg), NEW tc \in Seq(ServerMsg), NEW st,
           JobLink(p, ts, tc, st), ts # <<>>, Head(ts).type = "GET_LOGDIR",
           NEW m \in ServerMsg, m.type = "LOGDIR", NEW tc2, Sent(p, tc, m, tc2)
    PROVE  JobLink(p, Tail(ts), tc2, st)
  <1>1. /\ \A t : One(ts, t) => Head(ts).type = t /\ Tail(ts) = <<>>
        /\ \A t, u : Two(ts, t, u) => Head(ts).type = t /\ One(Tail(ts), u)
    <2>1. Head(ts) \in ClientMsg
      BY HeadTailProperties
    <2>. QED  BY <2>1, Streams
  <1>2. tc = <<>> => One(Append(tc, m), "LOGDIR")
    <2>1. tc = <<>> => One(Append(tc, m), m.type)
      BY Streams
    <2>. QED  BY <2>1
  <1>3. st = "RUNNING" /\ RunningLink(p, ts, tc)
    BY DEF JobLink, HoldingLink, QueuedLink
  <1>. QED  BY <1>1, <1>2, <1>3 DEF JobLink, RunningLink, Sent

(* NEWJOB_OK to a held client.                                             *)
LEMMA JobLinkAdmitted ==
    ASSUME NEW p, NEW ts, NEW tc \in Seq(ServerMsg),
           JobLink(p, ts, tc, "HOLDING_CLIENT"),
           NEW m \in ServerMsg, m.type = "NEWJOB_OK", NEW tc2,
           Sent(p, tc, m, tc2)
    PROVE  JobLink(p, ts, tc2, "QUEUED")
  <1>1. tc = <<>> => One(Append(tc, m), "NEWJOB_OK")
    <2>1. tc = <<>> => One(Append(tc, m), m.type)
      BY Streams
    <2>. QED  BY <2>1
  <1>. QED  BY <1>1 DEF JobLink, HoldingLink, QueuedLink, RunningLink, Sent

(* RUNJOB to the client of a queued job.                                   *)
LEMMA JobLinkStarted ==
    ASSUME NEW p, NEW ts, NEW tc \in Seq(ServerMsg),
           JobLink(p, ts, tc, "QUEUED"),
           NEW m \in ServerMsg, m.type = "RUNJOB", NEW tc2, Sent(p, tc, m, tc2)
    PROVE  JobLink(p, ts, tc2, "RUNNING")
  <1>1. /\ tc = <<>> => One(Append(tc, m), "RUNJOB")
        /\ One(tc, "NEWJOB_OK") => Two(Append(tc, m), "NEWJOB_OK", "RUNJOB")
    BY Streams
  <1>. QED  BY <1>1 DEF JobLink, HoldingLink, QueuedLink, RunningLink, Sent

(* The client of a job receives NEWJOB_OK, RUNJOB or LOGDIR.               *)
LEMMA JobLinkReceives ==
    ASSUME NEW p, NEW ts \in Seq(ClientMsg), NEW tc \in Seq(ServerMsg), NEW st,
           JobLink(p, ts, tc, st), tc # <<>>, NEW m \in ClientMsg
    PROVE  /\ p = "wait_newjob_ok" /\ Head(tc).type = "NEWJOB_OK" =>
                JobLink("wait_server_commands", ts, Tail(tc), st)
           /\ p = "wait_server_commands" /\ Head(tc).type = "RUNJOB" =>
                /\ m.type = "GET_LOGDIR" =>
                     JobLink("wait_logdir", Append(ts, m), Tail(tc), st)
                /\ m.type = "RUNJOB_OK" =>
                     JobLink("skipped", Append(ts, m), Tail(tc), st)
           /\ p = "wait_logdir" /\ Head(tc).type = "LOGDIR"
                /\ m.type = "RUNJOB_OK" =>
                JobLink("running", Append(ts, m), Tail(tc), st)
  <1>1. /\ \A t : One(tc, t) => Head(tc).type = t /\ Tail(tc) = <<>>
        /\ \A t, u : Two(tc, t, u) => Head(tc).type = t /\ One(Tail(tc), u)
    <2>1. Head(tc) \in ServerMsg
      BY HeadTailProperties
    <2>. QED  BY <2>1, Streams
  <1>2. ts = <<>> => One(Append(ts, m), m.type)
    BY Streams
  <1>. QED  BY <1>1, <1>2 DEF JobLink, HoldingLink, QueuedLink, RunningLink

(* The client of a job leaves, after reporting the end of its command or   *)
(* without.                                                                *)
LEMMA JobLinkExit ==
    ASSUME NEW p, NEW ts \in Seq(ClientMsg), NEW tc, NEW st, NEW m \in ClientMsg,
           JobLink(p, ts, tc, st), m.type = "ENDJOB"
    PROVE  /\ \A tc2 : JobLink("closed", ts, tc2, st)
           /\ p \in {"running", "skipped"} =>
                \A tc2 : JobLink("closed", Append(ts, m), tc2, st)
  <1>1. /\ ts = <<>> => One(Append(ts, m), "ENDJOB")
        /\ One(ts, "RUNJOB_OK") => Two(Append(ts, m), "RUNJOB_OK", "ENDJOB")
    BY Streams
  <1>. QED  BY <1>1 DEF JobLink, HoldingLink, QueuedLink, RunningLink

(* The request of a client without a job is served, and NEWJOB gives it    *)
(* one, which is held at first.                                            *)
LEMMA FreeLinkHead ==
    ASSUME NEW p, NEW req \in Requests, NEW ts \in Seq(ClientMsg), NEW tc,
           FreeLink(p, req, ts, tc), ts # <<>>
    PROVE  /\ Head(ts).type = req /\ Tail(ts) = <<>>
           /\ req # "NEWJOB" => \A tc2 : FreeLink(p, req, <<>>, tc2)
           /\ req = "NEWJOB" => JobLink(p, <<>>, tc, "HOLDING_CLIENT")
  <1>1. Head(ts) \in ClientMsg
    BY HeadTailProperties
  <1>2. One(ts, req) /\ tc = <<>> /\ Head(ts).type = req /\ Tail(ts) = <<>>
    BY <1>1, Streams DEF FreeLink
  <1>. QED  BY <1>2 DEF FreeLink, JobLink, HoldingLink

-----------------------------------------------------------------------------
(* Connections come, change and go.                                        *)

(* Changing one element of a list without repetitions.                     *)
LEMMA ReplaceInjective ==
    ASSUME NEW S, NEW s \in Seq(S), IsInjective(s), NEW q \in DOMAIN s,
           NEW e, e \notin Range(s) \ {s[q]},
           NEW r, DOMAIN r = DOMAIN s, r[q] = e,
           \A n \in DOMAIN s : n # q => r[n] = s[n]
    PROVE  IsInjective(r) /\ Range(r) = (Range(s) \ {s[q]}) \cup {e}
  <1>2. \A m, n \in DOMAIN s : s[m] = s[n] => m = n
    BY DEF IsInjective
  <1>3. Range(r) = (Range(s) \ {s[q]}) \cup {e}
    BY <1>2 DEF Range
  <1>4. \A n \in DOMAIN s : n # q => s[n] # e
    BY <1>2 DEF Range
  <1>5. IsInjective(r)
    BY <1>2, <1>4 DEF IsInjective
  <1>. QED  BY <1>3, <1>5

(* A job is attached to a connection, with its entry in the queue.         *)
LEMMA WiredAttach ==
    ASSUME TypeOK, Wired, NEW k \in DOMAIN client_cs, NEW y \in Connection,
           ~client_cs[k].hasjob, y.socket = client_cs[k].socket,
           y.hasjob, y.jobid \notin Range(firstjob),
           Range(firstjob') = Range(firstjob) \cup {y.jobid},
           client_cs' = [client_cs EXCEPT ![k] = y], UNCHANGED backlog
    PROVE  Wired' /\ Conns' = (Conns \ {client_cs[k]}) \cup {y}
  <1> DEFINE x == client_cs[k]
  <1>1. client_cs \in Seq(Connection) /\ IsInjective(client_cs) /\ x \in Conns
    BY DEF TypeOK, ConnectionsTypeOK, Wired, Conns, Range
  <1>2. y \notin Conns \ {x}
    BY <1>1 DEF Wired
  <1>3. IsInjective(client_cs') /\ Conns' = (Conns \ {x}) \cup {y}
    <2>1. y \notin Range(client_cs) \ {client_cs[k]}
      BY <1>2 DEF Conns
    <2>2. /\ DOMAIN client_cs' = DOMAIN client_cs /\ client_cs'[k] = y
          /\ \A n \in DOMAIN client_cs : n # k => client_cs'[n] = client_cs[n]
      BY <1>1
    <2>3. /\ IsInjective(client_cs')
          /\ Range(client_cs') = (Range(client_cs) \ {client_cs[k]}) \cup {y}
      BY ONLY <1>1, <2>1, <2>2, k \in DOMAIN client_cs, ReplaceInjective
    <2>. QED  BY <2>3 DEF Conns
  <1> HIDE DEF x
  <1>. QED  BY <1>1, <1>3 DEF Wired, x

(* The job of a connection leaves the queue and the connection stays.      *)
LEMMA WiredDetach ==
    ASSUME TypeOK, Wired, NEW k \in DOMAIN client_cs, NEW y \in Connection,
           client_cs[k].hasjob, y.socket = client_cs[k].socket, ~y.hasjob,
           Range(firstjob') = Range(firstjob) \ {client_cs[k].jobid},
           client_cs' = [client_cs EXCEPT ![k] = y], UNCHANGED backlog
    PROVE  Wired' /\ Conns' = (Conns \ {client_cs[k]}) \cup {y}
  <1> DEFINE x == client_cs[k]
  <1>1. client_cs \in Seq(Connection) /\ IsInjective(client_cs) /\ x \in Conns
    BY DEF TypeOK, ConnectionsTypeOK, Wired, Conns, Range
  <1>2. y \notin Conns \ {x}
    BY <1>1 DEF Wired
  <1>3. IsInjective(client_cs') /\ Conns' = (Conns \ {x}) \cup {y}
    <2>1. y \notin Range(client_cs) \ {client_cs[k]}
      BY <1>2 DEF Conns
    <2>2. /\ DOMAIN client_cs' = DOMAIN client_cs /\ client_cs'[k] = y
          /\ \A n \in DOMAIN client_cs : n # k => client_cs'[n] = client_cs[n]
      BY <1>1
    <2>3. /\ IsInjective(client_cs')
          /\ Range(client_cs') = (Range(client_cs) \ {client_cs[k]}) \cup {y}
      BY ONLY <1>1, <2>1, <2>2, k \in DOMAIN client_cs, ReplaceInjective
    <2>. QED  BY <2>3 DEF Conns
  <1> HIDE DEF x
  <1>. QED  BY <1>1, <1>3 DEF Wired, x

(* A connection goes, and with it the job it may have had.                 *)
LEMMA WiredRemove ==
    ASSUME TypeOK, Wired, NEW n \in DOMAIN client_cs,
           Range(firstjob') = IF client_cs[n].hasjob
                              THEN Range(firstjob) \ {client_cs[n].jobid}
                              ELSE Range(firstjob),
           client_cs' = RemoveAt(client_cs, n), UNCHANGED backlog
    PROVE  Wired' /\ Conns' = Conns \ {client_cs[n]}
  <1> DEFINE x == client_cs[n]
  <1>1. client_cs \in Seq(Connection) /\ IsInjective(client_cs) /\ x \in Conns
    BY DEF TypeOK, ConnectionsTypeOK, Wired, Conns, Range
  <1>2. IsInjective(client_cs') /\ Conns' = Conns \ {x}
    BY <1>1, RemoveAtInjective DEF Conns
  <1> HIDE DEF x
  <1>. QED  BY <1>1, <1>2 DEF Wired, x

(* The same connections and the same jobs.                                 *)
LEMMA WiredSame ==
    ASSUME Wired, Range(firstjob') = Range(firstjob),
           UNCHANGED <<client_cs, backlog>>
    PROVE  Wired' /\ Conns' = Conns
  BY DEF Wired, Conns

-----------------------------------------------------------------------------
(* What the end of client_read does to one client.                         *)
LEMMA ServedClient ==
    ASSUME NEW k, NEW out, NEW S, Served(k, out, S), NEW c \in Clients
    PROVE  LET s == client_cs[k].socket
           IN  /\ c \notin S => pc'[c] = pc[c] /\ command'[c] = command[c]
               /\ c \notin S /\ c # s => to_server'[c] = to_server[c]
               /\ c \notin S /\ c = s => to_server'[c] = Tail(to_server[c])
               /\ c \notin DOMAIN out => to_client'[c] = to_client[c]
               /\ c \in DOMAIN out =>
                    to_client'[c] = IF pc[c] # "closed"
                                    THEN Append(to_client[c], out[c])
                                    ELSE to_client[c]
  BY DEF Served, SendMsg, CloseSockets

(* A client without a job whose request has been read may be sent          *)
(* anything.                                                               *)
LEMMA FreeLinkTold ==
    ASSUME NEW p, NEW req, NEW tc, FreeLink(p, req, <<>>, tc), NEW tc2
    PROVE  FreeLink(p, req, <<>>, tc2)
  BY EmptySeq DEF FreeLink, One

(* Where connections come from.                                            *)
LEMMA ConnsType ==
    ASSUME TypeOK
    PROVE  /\ \A x \in Conns : x \in Connection /\ x.socket \in Clients
           /\ \A n \in DOMAIN client_cs : client_cs[n] \in Conns
           /\ \A x \in Conns : \E n \in DOMAIN client_cs : x = client_cs[n]
           /\ \A c \in Range(backlog) : c \in Clients
  <1>1. client_cs \in Seq(Connection) /\ backlog \in Seq(Clients)
    BY DEF TypeOK, ConnectionsTypeOK, SocketsTypeOK
  <1>2. Conns \subseteq Connection /\ Range(backlog) \subseteq Clients
    BY <1>1, RangeOfSeq DEF Conns
  <1>. QED  BY <1>2 DEF Conns, Range, Connection

(* The clients that a message of another client does not concern, except   *)
(* that they may be told what they wait for, stay where they are.          *)
LEMMA OthersLinked ==
    ASSUME TypeOK, Wired, Linked, NEW k \in DOMAIN client_cs, NEW out, NEW S,
           Served(k, out, S),
           \A c \in S \cup DOMAIN out : c \notin Range(backlog),
           \A y \in Conns' : y.socket = client_cs[k].socket => Link(y)',
           \A y \in Conns' : y.socket # client_cs[k].socket =>
             /\ y \in Conns /\ y.socket \notin S
             /\ y.socket \in DOMAIN out =>
                  ~y.hasjob /\ to_server[y.socket] = <<>>
             /\ y.hasjob => job'[y.jobid].state = job[y.jobid].state
    PROVE  Linked'
  <1> DEFINE s == client_cs[k].socket
  <1>1. ASSUME NEW y \in Conns', y.socket # s
        PROVE  Link(y)'
    <2> DEFINE c == y.socket
    <2>1. /\ y \in Conns /\ c \in Clients /\ c \notin S /\ c # s /\ Link(y)
          /\ c \in DOMAIN out => ~y.hasjob /\ to_server[c] = <<>>
          /\ y.hasjob => job'[y.jobid].state = job[y.jobid].state
      BY <1>1, ConnsType DEF Linked
    <2>2. /\ pc'[c] = pc[c] /\ command'[c] = command[c]
          /\ to_server'[c] = to_server[c]
          /\ c \notin DOMAIN out => to_client'[c] = to_client[c]
      BY <2>1, ServedClient
    <2>3. CASE c \notin DOMAIN out
      BY <2>1, <2>2, <2>3 DEF Link
    <2>4. CASE c \in DOMAIN out
      BY <2>1, <2>2, <2>4, FreeLinkTold DEF Link
    <2>. QED  BY <2>3, <2>4
  <1>2. ASSUME NEW c \in Range(backlog')
        PROVE  Link(Accepted(c))'
    <2>1. /\ c \in Range(backlog) /\ c \in Clients /\ c # s
          /\ c \notin S /\ c \notin DOMAIN out
      BY <1>2, ConnsType DEF Served, Wired
    <2>2. /\ pc'[c] = pc[c] /\ command'[c] = command[c]
          /\ to_server'[c] = to_server[c] /\ to_client'[c] = to_client[c]
      BY <2>1, ServedClient
    <2>. QED  BY <2>1, <2>2 DEF Linked, Link, Accepted
  <1>. QED  BY <1>1, <1>2 DEF Linked

(* The waiters stay on their connections, where a new one may join them.   *)
LEMMA WaitersStay ==
    ASSUME TypeOK, WaitersFree, NEW k, NEW out, NEW S, Served(k, out, S),
           \A n \in first_notify' :
             \/ n \in first_notify /\ n.socket # client_cs[k].socket
             \/ /\ to_server'[n.socket] = <<>>
                /\ \E x \in Conns' : x.socket = n.socket /\ ~x.hasjob,
           \A y \in Conns : y.socket # client_cs[k].socket /\ ~y.hasjob =>
                              y \in Conns' /\ y.socket \notin S
    PROVE  WaitersFree'
  <1> SUFFICES ASSUME NEW n \in first_notify',
                      n \in first_notify /\ n.socket # client_cs[k].socket
               PROVE  /\ to_server'[n.socket] = <<>>
                      /\ \E x \in Conns' : x.socket = n.socket /\ ~x.hasjob
    BY DEF WaitersFree
  <1>2. PICK x \in Conns : x.socket = n.socket /\ ~x.hasjob
    BY DEF WaitersFree
  <1>3. n.socket \in Clients /\ n.socket \notin S /\ x \in Conns'
    BY <1>2, ConnsType
  <1>4. to_server'[n.socket] = to_server[n.socket] /\ to_server[n.socket] = <<>>
    BY <1>3, ServedClient DEF WaitersFree
  <1>. QED  BY <1>2, <1>3, <1>4

-----------------------------------------------------------------------------
(* The queue.                                                              *)

(* The jobs that stay in the queue stay in their states.                   *)
StatesKept ==
    \A x \in Range(firstjob) \cap Range(firstjob') :
        job'[x].state = job[x].state

(* What the effects of a step on the table mean for the queue.             *)
LEMMA QueueKept ==
    ASSUME JobsInv, JobsInv', Quiet
    PROVE  Range(firstjob') = Range(firstjob)
  <1>1. Range(firstjob) \subseteq JobIds /\ Range(firstjob') \subseteq JobIds
    BY RangeOfSeq DEF JobsInv, JobsTypeOK
  <1>. QED  BY <1>1 DEF JobsInv, QueueConsistent, Consistent, Quiet, SameJob

(* The job that ends leaves the queue, and no other does.                  *)
LEMMA QueueLoses ==
    ASSUME JobsInv, JobsInv', NEW j, Ends(j)
    PROVE  /\ j \in Range(firstjob)
           /\ Range(firstjob') = Range(firstjob) \ {j}
  <1>1. Range(firstjob) \subseteq JobIds /\ Range(firstjob') \subseteq JobIds
    BY RangeOfSeq DEF JobsInv, JobsTypeOK
  <1>. QED  BY <1>1 DEF JobsInv, QueueConsistent, Consistent, Ends, SameJob

(* A sweep keeps the states of the jobs of the queue.                      *)
LEMMA SweepKeeps ==
    ASSUME JobsTypeOK, NEW table, NEW finished,
           \A x \in Range(firstjob) \cap Range(firstjob') :
             table[x].state = job[x].state,
           job' = Sweep(table, firstjob', finished)
    PROVE  StatesKept
  <1>1. Range(firstjob) \subseteq JobIds
    BY RangeOfSeq DEF JobsTypeOK
  <1>. QED  BY <1>1 DEF StatesKept, Sweep

(* job_finished.                                                           *)
LEMMA JobFinishedQueue ==
    ASSUME JobsInv, NEW q \in DOMAIN firstjob, NEW e \in Int, NEW st \in Done,
           JobFinished(q, e, st)
    PROVE  /\ firstjob[q] \in Range(firstjob)
           /\ Range(firstjob') = Range(firstjob) \ {firstjob[q]}
           /\ StatesKept
           /\ first_notify' \subseteq first_notify
  <1> DEFINE j == firstjob[q]
             told == NotifyErrorlevel(j, e)
             table == [told EXCEPT ![j].state = st, ![j].errorlevel = e]
  <1>1. JobsInv' /\ Ends(j)
    BY JobFinishedStep
  <1>2. j \in Range(firstjob) /\ Range(firstjob') = Range(firstjob) \ {j}
    BY <1>1, QueueLoses
  <1>3. PICK finished : job' = Sweep(table, firstjob', finished)
    BY DEF JobFinished
  <1>4. \A x \in Range(firstjob) \cap Range(firstjob') :
          table[x].state = job[x].state
    <2>1. Range(firstjob) \subseteq JobIds /\ JobsTypeOK /\ j \in JobIds
      BY <1>2, RangeOfSeq DEF JobsInv, JobsTypeOK
    <2>2. /\ DOMAIN told = JobIds
          /\ \A x \in JobIds : told[x].state = job[x].state
      BY <2>1, NotifyErrorlevelTable
    <2> HIDE DEF told
    <2>. QED  BY <1>2, <2>1, <2>2
  <1> HIDE DEF table
  <1>5. StatesKept
    BY <1>3, <1>4, SweepKeeps DEF JobsInv
  <1>. QED  BY <1>2, <1>5 DEF JobFinished

-----------------------------------------------------------------------------
(* client_read.                                                            *)

(* The client whose turn it is.                                            *)
LEMMA TurnFacts ==
    ASSUME IInv, Protocol, NEW k, Turn(k)
    PROVE  LET x  == client_cs[k]
               s  == x.socket
               ts == to_server[s]
           IN  /\ k \in DOMAIN client_cs /\ x \in Conns /\ x \in Connection
               /\ s \in Clients /\ s \notin Range(backlog) /\ Link(x)
               /\ ts \in Seq(ClientMsg) /\ to_client[s] \in Seq(ServerMsg)
               /\ command[s].request \in Requests
               /\ \A y \in Conns : y.socket = s => y = x
               /\ ts # <<>> /\ Head(ts).type \in Requests =>
                    /\ ~x.hasjob /\ command[s].request = Head(ts).type
                    /\ Tail(ts) = <<>>
                    /\ FreeLink(pc[s], Head(ts).type, ts, to_client[s])
               /\ ts # <<>> /\ Head(ts).type \in
                                 {"GET_LOGDIR", "RUNJOB_OK", "ENDJOB"} =>
                    /\ x.hasjob /\ job[x.jobid].state = "RUNNING"
                    /\ JobLink(pc[s], ts, to_client[s], job[x.jobid].state)
  <1> DEFINE x  == client_cs[k]
             s  == x.socket
             ts == to_server[s]
  <1>1. k \in DOMAIN client_cs /\ x \in Conns /\ x \in Connection /\ s \in Clients
    BY TurnType DEF IInv, Conns, Range
  <1>2. /\ s \notin Range(backlog) /\ Link(x)
        /\ \A y \in Conns : y.socket = s => y = x
    BY <1>1 DEF Protocol, Wired, Linked
  <1>3. /\ ts \in Seq(ClientMsg) /\ to_client[s] \in Seq(ServerMsg)
        /\ command[s].request \in Requests
    <2>1. command[s] \in CommandLine
      BY <1>1 DEF IInv, TypeOK, SocketsTypeOK
    <2>2. command[s].request \in Requests
      BY <2>1 DEF CommandLine
    <2>. QED  BY <1>1, <2>2 DEF IInv, TypeOK, SocketsTypeOK
  <1>4. IF x.hasjob THEN JobLink(pc[s], ts, to_client[s], job[x.jobid].state)
        ELSE FreeLink(pc[s], command[s].request, ts, to_client[s])
    BY <1>2 DEF Link
  <1> HIDE DEF x, s, ts
  <1>5. ASSUME x.hasjob, ts # <<>>
        PROVE  /\ job[x.jobid].state = "RUNNING"
               /\ JobLink(pc[s], ts, to_client[s], job[x.jobid].state)
               /\ Head(ts).type \in {"GET_LOGDIR", "RUNJOB_OK", "ENDJOB"}
    <2>1. JobLink(pc[s], ts, to_client[s], job[x.jobid].state)
      BY <1>4, <1>5
    <2>2. /\ job[x.jobid].state = "RUNNING"
          /\ Head(ts).type \in {"GET_LOGDIR", "RUNJOB_OK", "ENDJOB"}
      BY <1>3, <1>5, <2>1, JobLinkHead
    <2>. QED  BY <2>1, <2>2
  <1>6. ASSUME ~x.hasjob, ts # <<>>
        PROVE  /\ command[s].request = Head(ts).type /\ Tail(ts) = <<>>
               /\ FreeLink(pc[s], Head(ts).type, ts, to_client[s])
    <2>1. FreeLink(pc[s], command[s].request, ts, to_client[s])
      BY <1>4, <1>6
    <2>2. command[s].request = Head(ts).type /\ Tail(ts) = <<>>
      BY <1>3, <1>6, <2>1, FreeLinkHead
    <2>. QED  BY <2>1, <2>2
  <1>7. \A t \in Requests : t \notin {"GET_LOGDIR", "RUNJOB_OK", "ENDJOB"}
    BY DEF Requests, OneWay, Queries
  <1>8. /\ ts # <<>> /\ Head(ts).type \in Requests =>
             /\ ~x.hasjob /\ command[s].request = Head(ts).type
             /\ Tail(ts) = <<>>
             /\ FreeLink(pc[s], Head(ts).type, ts, to_client[s])
        /\ ts # <<>> /\ Head(ts).type \in {"GET_LOGDIR", "RUNJOB_OK", "ENDJOB"} =>
             /\ x.hasjob /\ job[x.jobid].state = "RUNNING"
             /\ JobLink(pc[s], ts, to_client[s], job[x.jobid].state)
    BY <1>3, <1>5, <1>6, <1>7
  <1>. QED  BY <1>1, <1>2, <1>3, <1>8 DEF x, s, ts

(* A waiter of the notify list is not the client whose message is served.  *)
LEMMA WaitersElsewhere ==
    ASSUME WaitersFree, NEW s, to_server[s] # <<>>
    PROVE  \A n \in first_notify : n.socket # s
  BY DEF WaitersFree

(* The connections with jobs are about jobs of the queue.                  *)
LEMMA JobStatesKept ==
    ASSUME Wired, StatesKept, NEW y \in Conns, y.hasjob,
           y.jobid \in Range(firstjob')
    PROVE  job'[y.jobid].state = job[y.jobid].state
  BY DEF Wired, StatesKept

(* A request is served and answered, or not, and the connection stays.     *)
LEMMA AnswerStep ==
    ASSUME IInv, Protocol, NEW k, NEW type \in Requests, type # "NEWJOB",
           Serve(k, type), NEW out, DOMAIN out \subseteq {client_cs[k].socket},
           Served(k, out, {}), UNCHANGED client_cs,
           Range(firstjob') = Range(firstjob), StatesKept,
           \A n \in first_notify' :
             n \in first_notify \/ n.socket = client_cs[k].socket
    PROVE  Protocol'
  <1> DEFINE x == client_cs[k]
             s == x.socket
  <1>1. Turn(k) /\ to_server[s] # <<>> /\ Head(to_server[s]).type = type
    BY DEF Serve
  <1>2. /\ k \in DOMAIN client_cs /\ x \in Conns /\ s \in Clients
        /\ s \notin Range(backlog)
        /\ \A y \in Conns : y.socket = s => y = x
        /\ ~x.hasjob /\ command[s].request = type
        /\ Tail(to_server[s]) = <<>> /\ to_server[s] \in Seq(ClientMsg)
        /\ FreeLink(pc[s], type, to_server[s], to_client[s])
    BY <1>1, TurnFacts
  <1>3. /\ pc'[s] = pc[s] /\ command'[s] = command[s]
        /\ to_server'[s] = <<>>
    <2>1. s \in Clients /\ s \notin {} /\ s = client_cs[k].socket
      BY <1>2
    <2> HIDE DEF s
    <2>2. /\ pc'[s] = pc[s] /\ command'[s] = command[s]
          /\ to_server'[s] = Tail(to_server[s])
      BY ONLY <2>1, Served(k, out, {}) DEF Served, SendMsg, CloseSockets
    <2>. QED  BY <1>2, <2>2 DEF s
  <1>4. FreeLink(pc[s], type, <<>>, to_client'[s])
    <2>1. ASSUME NEW p, NEW ts, NEW tc, NEW tc2, FreeLink(p, type, ts, tc),
                 ts # <<>>
          PROVE  FreeLink(p, type, <<>>, tc2)
      BY <2>1 DEF FreeLink
    <2> HIDE DEF s
    <2>. QED  BY ONLY <1>1, <1>2, <2>1
  <1>5. Wired /\ Linked /\ WaitersFree /\ TypeOK
    BY DEF Protocol, IInv
  <1>6. Wired' /\ Conns' = Conns
    BY <1>5, WiredSame DEF Served
  <1>7. \A y \in Conns' : y.socket = s => Link(y)'
    BY <1>2, <1>3, <1>4, <1>6 DEF Link
  <1>8. \A y \in Conns' : y.socket # s =>
          /\ y \in Conns
          /\ y.hasjob => job'[y.jobid].state = job[y.jobid].state
    BY <1>5, <1>6, JobStatesKept DEF Wired
  <1>9. Linked'
    BY <1>2, <1>5, <1>7, <1>8, OthersLinked
  <1>10. WaitersFree'
    <2>1. \A n \in first_notify' :
            \/ n \in first_notify /\ n.socket # s
            \/ /\ to_server'[n.socket] = <<>>
               /\ \E y \in Conns' : y.socket = n.socket /\ ~y.hasjob
      BY <1>1, <1>2, <1>3, <1>5, <1>6, WaitersElsewhere
    <2>. QED  BY <1>5, <1>6, <2>1, WaitersStay
  <1>. QED  BY <1>6, <1>9, <1>10 DEF Protocol

(* What one message for one client, and no message, is for whom.           *)
LEMMA ToWhom ==
    /\ \A c, m : DOMAIN To(c, m) = {c}
    /\ DOMAIN Nothing = {}
  <1>1. DOMAIN Nothing = {}
    BY EmptySeq DEF Nothing
  <1>. QED  BY <1>1 DEF To

(* The requests that leave the jobs of the queue and their connections.    *)
LEMMA RequestProtocol ==
    ASSUME IInv, JobsInv', Protocol, NEW k,
           \/ RemoveFinished(k) \/ RemoveRefused(k)
           \/ WaitQueued(k) \/ WaitAnswered(k)
           \/ MoveUrgent(k) \/ UrgentRefused(k)
           \/ SwapJobs(k) \/ SwapRefused(k)
           \/ ClearFinished(k) \/ SetMaxSlots(k) \/ KillServer(k) \/ Query(k)
    PROVE  Protocol'
  <1> DEFINE s == client_cs[k].socket
  <1>0. TypeOK /\ JobsInv /\ JobsTypeOK
    BY DEF IInv, TypeOK
  <1>1. \A t \in {"REMOVEJOB", "WAITJOB", "URGENT", "SWAP_JOBS",
                   "CLEAR_FINISHED", "SET_MAX_SLOTS", "KILL_SERVER"}
               \cup Queries : t \in Requests /\ t # "NEWJOB"
    BY DEF Requests, OneWay, Queries
  <1>2. /\ UNCHANGED client_cs
        /\ \E type \in Requests : type # "NEWJOB" /\ Serve(k, type)
        /\ \E out : DOMAIN out \subseteq {s} /\ Served(k, out, {})
    <2>1. CASE \/ RemoveFinished(k) \/ RemoveRefused(k) \/ MoveUrgent(k)
               \/ UrgentRefused(k) \/ SwapJobs(k) \/ SwapRefused(k) \/ Query(k)
      <3>1. \E m : Served(k, To(s, m), {})
        BY <2>1 DEF RemoveFinished, RemoveRefused, MoveUrgent, UrgentRefused,
             SwapJobs, SwapRefused, Query
      <3>. QED  BY <1>1, <2>1, <3>1, ToWhom
                DEF RemoveFinished, RemoveRefused, MoveUrgent, UrgentRefused,
                    SwapJobs, SwapRefused, Query
    <2>2. CASE \/ WaitQueued(k) \/ ClearFinished(k) \/ SetMaxSlots(k)
               \/ KillServer(k)
      BY <1>1, <2>2, ToWhom
         DEF WaitQueued, ClearFinished, SetMaxSlots, KillServer
    <2>3. CASE WaitAnswered(k)
      <3>1. \E m : Served(k, To(s, m), {})
        BY <2>3 DEF WaitAnswered
      <3>. QED  BY <1>1, <2>3, <3>1, ToWhom DEF WaitAnswered
    <2>. QED  BY <2>1, <2>2, <2>3
  <1>3. Range(firstjob') = Range(firstjob) /\ StatesKept
    <2>1. CASE UNCHANGED <<firstjob, job>>
      BY <2>1 DEF StatesKept
    <2>2. CASE MoveUrgent(k) \/ SwapJobs(k)
      <3>1. Quiet /\ UNCHANGED job
        BY <1>0, <2>2, MoveUrgentStep, SwapJobsStep DEF MoveUrgent, SwapJobs
      <3>. QED  BY <1>0, <3>1, QueueKept DEF StatesKept
    <2>3. CASE ClearFinished(k)
      <3>1. UNCHANGED firstjob /\ job' = Sweep(job, firstjob', <<>>)
        BY <2>3 DEF ClearFinished
      <3>. QED  BY <1>0, <3>1, SweepKeeps
    <2>4. CASE RemoveFinished(k)
      <3>1. PICK q \in Named(first_finished_job, command[s].jobid) :
              job' = Sweep(NotifyErrorlevel(first_finished_job[q], -1),
                           firstjob, RemoveAt(first_finished_job, q))
        BY <2>4 DEF RemoveFinished
      <3>2. UNCHANGED firstjob
        BY <2>4 DEF RemoveFinished
      <3>3. first_finished_job[q] \in JobIds
        BY <1>0, LenProperties DEF JobsTypeOK, Named
      <3>4. Range(firstjob) \subseteq JobIds
        BY <1>0, RangeOfSeq DEF JobsTypeOK
      <3>5. \A x \in Range(firstjob) :
              NotifyErrorlevel(first_finished_job[q], -1)[x].state
                = job[x].state
        BY <1>0, <3>3, <3>4, NotifyErrorlevelTable
      <3>. QED  BY <1>0, <3>1, <3>2, <3>5, SweepKeeps
    <2>. QED  BY <2>1, <2>2, <2>3, <2>4
              DEF RemoveRefused, WaitQueued, WaitAnswered, UrgentRefused,
                  SwapRefused, SetMaxSlots, KillServer, Query, jobsVars,
                  queueVars
  <1>4. \A n \in first_notify' : n \in first_notify \/ n.socket = s
    <2>1. CASE UNCHANGED first_notify
      BY <2>1
    <2>2. CASE WaitQueued(k)
      BY <2>2 DEF WaitQueued
    <2>. QED  BY <2>1, <2>2
              DEF RemoveFinished, RemoveRefused, WaitAnswered, MoveUrgent,
                  UrgentRefused, SwapJobs, SwapRefused, ClearFinished,
                  SetMaxSlots, KillServer, Query, jobsVars
  <1>. QED  BY <1>2, <1>3, <1>4, AnswerStep

(* The client of a job asks for the log directory, or announces its        *)
(* command.                                                                *)
LEMMA ReportProtocol ==
    ASSUME IInv, Protocol, NEW k, GetLogdir(k) \/ RunjobOk(k)
    PROVE  Protocol'
  <1> DEFINE x == client_cs[k]
             s == x.socket
             st == job[x.jobid].state
             m == Reply("LOGDIR", 0)
  <1>1. /\ Turn(k) /\ to_server[s] # <<>>
        /\ UNCHANGED <<firstjob, job, first_notify, client_cs>>
        /\ \/ /\ Head(to_server[s]).type = "GET_LOGDIR"
              /\ Served(k, To(s, m), {})
           \/ /\ Head(to_server[s]).type = "RUNJOB_OK"
              /\ Served(k, Nothing, {})
    BY DEF GetLogdir, RunjobOk, Serve, jobsVars, queueVars
  <1>2. /\ k \in DOMAIN client_cs /\ x \in Conns /\ s \in Clients
        /\ s \notin Range(backlog)
        /\ \A y \in Conns : y.socket = s => y = x
        /\ x.hasjob
        /\ to_server[s] \in Seq(ClientMsg) /\ to_client[s] \in Seq(ServerMsg)
        /\ JobLink(pc[s], to_server[s], to_client[s], st)
    BY <1>1, TurnFacts
  <1>3. Wired /\ Linked /\ WaitersFree /\ TypeOK
    BY DEF Protocol, IInv
  <1>4. PICK out : Served(k, out, {}) /\ DOMAIN out \subseteq {s}
    BY <1>1, ToWhom
  <1>5. Wired' /\ Conns' = Conns
    BY <1>1, <1>3, <1>4, WiredSame DEF Served
  <1>6. /\ pc'[s] = pc[s] /\ command'[s] = command[s]
        /\ JobLink(pc[s], Tail(to_server[s]), to_client'[s], st)
    <2>1. s \in Clients /\ s \notin {} /\ s = client_cs[k].socket
      BY <1>2
    <2>2. m \in ServerMsg /\ m.type = "LOGDIR"
      <3>1. m \in ServerMsg
        BY ReplyType
      <3>. QED  BY <3>1 DEF Reply
    <2> HIDE DEF s, st, m
    <2>3. CASE /\ Head(to_server[s]).type = "GET_LOGDIR"
               /\ Served(k, To(s, m), {})
      <3>1. /\ pc'[s] = pc[s] /\ command'[s] = command[s]
            /\ to_client'[s] = IF pc[s] # "closed" THEN Append(to_client[s], m)
                               ELSE to_client[s]
        BY ONLY <2>1, <2>3 DEF Served, SendMsg, CloseSockets, To
      <3>2. Sent(pc[s], to_client[s], m, to_client'[s])
        BY <3>1 DEF Sent
      <3>. QED  BY <1>1, <1>2, <2>2, <2>3, <3>1, <3>2, JobLinkLogdir
    <2>4. CASE /\ Head(to_server[s]).type = "RUNJOB_OK"
               /\ Served(k, Nothing, {})
      <3>1. /\ pc'[s] = pc[s] /\ command'[s] = command[s]
            /\ to_client'[s] = to_client[s]
        <4>1. s \notin DOMAIN Nothing
          BY ToWhom
        <4>. QED  BY ONLY <2>1, <2>4, <4>1 DEF Served, SendMsg, CloseSockets
      <3>. QED  BY <1>1, <1>2, <2>4, <3>1, JobLinkRunjobOk
    <2>. QED  BY <1>1, <2>3, <2>4
  <1>7. to_server'[s] = Tail(to_server[s])
    <2>1. s \in Clients /\ s \notin {} /\ s = client_cs[k].socket
      BY <1>2
    <2> HIDE DEF s
    <2>. QED  BY ONLY <1>4, <2>1 DEF Served
  <1>8. \A y \in Conns' : y.socket = s => Link(y)'
    <2> HIDE DEF m
    <2>. QED  BY <1>1, <1>2, <1>5, <1>6, <1>7 DEF Link
  <1>9. Linked'
    <2>1. \A y \in Conns' : y.socket # s =>
            y \in Conns /\ job'[y.jobid].state = job[y.jobid].state
      BY <1>1, <1>5
    <2> HIDE DEF m, st
    <2>. QED  BY <1>2, <1>3, <1>4, <1>8, <2>1, OthersLinked
  <1>10. WaitersFree'
    <2>1. \A n \in first_notify' : n \in first_notify /\ n.socket # s
      BY <1>1, <1>3, WaitersElsewhere
    <2> HIDE DEF m, st
    <2>. QED  BY <1>3, <1>4, <1>5, <2>1, WaitersStay
  <1>. QED  BY <1>5, <1>9, <1>10 DEF Protocol

(* Clients that wait for a job have connections of their own.              *)
LEMMA WaitersAreFree ==
    ASSUME Wired, WaitersFree, NEW w \in first_notify
    PROVE  /\ to_server[w.socket] = <<>> /\ w.socket \notin Range(backlog)
           /\ \A y \in Conns : y.socket = w.socket => ~y.hasjob
  BY DEF Wired, WaitersFree

(* client_read closes connection n, its own or that of another job.        *)
LEMMA RemoveStep ==
    ASSUME IInv, Protocol, NEW k, Turn(k), NEW n \in DOMAIN client_cs,
           client_cs' = RemoveAt(client_cs, n), NEW out,
           Served(k, out, {client_cs[n].socket}),
           \A c \in DOMAIN out : \/ c = client_cs[k].socket
                               \/ \E w \in first_notify : w.socket = c,
           Range(firstjob') = IF client_cs[n].hasjob
                              THEN Range(firstjob) \ {client_cs[n].jobid}
                              ELSE Range(firstjob),
           StatesKept,
           \A w \in first_notify' :
             w \in first_notify /\ w.socket # client_cs[k].socket,
           n # k => client_cs[n].hasjob,
           n # k => \A y \in Conns : y = client_cs[k] => Link(y)'
    PROVE  Protocol'
  <1> DEFINE x == client_cs[k]
             s == x.socket
             z == client_cs[n]
  <1>1. /\ k \in DOMAIN client_cs /\ x \in Conns /\ s \in Clients
        /\ s \notin Range(backlog)
        /\ \A y \in Conns : y.socket = s => y = x
    BY TurnFacts
  <1>2. Wired /\ Linked /\ WaitersFree /\ TypeOK
    BY DEF Protocol, IInv
  <1>3. Wired' /\ Conns' = Conns \ {z}
    BY <1>2, WiredRemove DEF Served
  <1>4. z \in Conns /\ \A y \in Conns : y.socket = z.socket => y = z
    BY <1>2, ConnsType DEF Wired
  <1>5. n # k => x # z
    BY <1>1, <1>2 DEF Wired, IsInjective
  <1> HIDE DEF z
  <1>6. \A y \in Conns' : y.socket = s => Link(y)'
    <2>1. CASE n = k
      <3>1. z = x
        BY <2>1 DEF z
      <3>. QED  BY <1>1, <1>3, <3>1
    <2>2. CASE n # k
      BY <1>1, <1>3, <2>2
    <2>. QED  BY <2>1, <2>2
  <1>7. \A y \in Conns' : y.socket # s =>
          /\ y \in Conns /\ y.socket \notin {z.socket}
          /\ y.socket \in DOMAIN out =>
               ~y.hasjob /\ to_server[y.socket] = <<>>
          /\ y.hasjob => job'[y.jobid].state = job[y.jobid].state
    <2>1. SUFFICES ASSUME NEW y \in Conns', y.socket # s
                   PROVE  /\ y \in Conns /\ y.socket \notin {z.socket}
                          /\ y.socket \in DOMAIN out =>
                               ~y.hasjob /\ to_server[y.socket] = <<>>
                          /\ y.hasjob =>
                               job'[y.jobid].state = job[y.jobid].state
      OBVIOUS
    <2>2. y \in Conns /\ y # z
      BY <1>3
    <2>3. y.socket # z.socket
      BY <1>4, <2>2
    <2>4. y.socket \in DOMAIN out => ~y.hasjob /\ to_server[y.socket] = <<>>
      BY <1>2, <2>1, <2>2, WaitersAreFree
    <2>5. y.hasjob => y.jobid \in Range(firstjob')
      BY <1>3, <2>1 DEF Wired
    <2>. QED  BY <1>2, <2>2, <2>3, <2>4, <2>5, JobStatesKept
  <1>8. \A c \in {z.socket} \cup DOMAIN out : c \notin Range(backlog)
    BY <1>1, <1>2, <1>4, WaitersAreFree DEF Wired
  <1>9. Linked'
    BY <1>1, <1>2, <1>6, <1>7, <1>8, OthersLinked DEF z
  <1>10. \A y \in Conns : y.socket # s /\ ~y.hasjob =>
           y \in Conns' /\ y.socket \notin {z.socket}
    BY <1>3, <1>4 DEF z
  <1>11. WaitersFree'
    BY <1>2, <1>10, WaitersStay DEF z
  <1>. QED  BY <1>3, <1>9, <1>11 DEF Protocol

(* A client without a job has its request answered by a list, or is gone.  *)
LEMMA GoneProtocol ==
    ASSUME IInv, Protocol, NEW k, List(k) \/ ClientDisappeared(k)
    PROVE  Protocol'
  <1> DEFINE s == client_cs[k].socket
  <1>1. /\ Turn(k) /\ client_cs' = RemoveAt(client_cs, k)
        /\ UNCHANGED <<firstjob, job>>
    BY DEF List, ClientDisappeared, Serve, EndOfStream, jobsVars, queueVars
  <1>2. k \in DOMAIN client_cs /\ ~client_cs[k].hasjob
    <2>1. CASE List(k)
      <3>1. "LIST" \in Requests
        BY DEF Requests
      <3>. QED  BY <1>1, <2>1, <3>1, TurnFacts DEF List, Serve
    <2>2. CASE ClientDisappeared(k)
      BY <1>1, <2>2 DEF ClientDisappeared, Turn
    <2>. QED  BY <2>1, <2>2
  <1>3. PICK out : Served(k, out, {s}) /\ DOMAIN out \subseteq {s}
    BY ToWhom DEF List, ClientDisappeared
  <1>4. \A w \in first_notify' : w \in first_notify /\ w.socket # s
    <2>1. CASE List(k)
      BY <2>1, WaitersElsewhere DEF List, Serve, Protocol, jobsVars
    <2>2. CASE ClientDisappeared(k)
      BY <2>2 DEF ClientDisappeared
    <2>. QED  BY <2>1, <2>2
  <1>5. StatesKept
    BY <1>1 DEF StatesKept
  <1>. QED  BY <1>1, <1>2, <1>3, <1>4, <1>5, RemoveStep

(* A job is rejected and its client cut off.                               *)
LEMMA RejectedProtocol ==
    ASSUME IInv, Protocol, NEW k, NewjobNok(k)
    PROVE  Protocol'
  <1> DEFINE s == client_cs[k].socket
  <1>1. /\ Turn(k) /\ to_server[s] # <<>>
        /\ Head(to_server[s]).type = "NEWJOB"
        /\ client_cs' = RemoveAt(client_cs, k)
        /\ jobids \in JobIds /\ UNCHANGED <<firstjob, first_notify>>
    BY DEF NewjobNok, Serve
  <1>2. k \in DOMAIN client_cs /\ ~client_cs[k].hasjob
    <2>1. "NEWJOB" \in Requests
      BY DEF Requests
    <2>. QED  BY <1>1, <2>1, TurnFacts
  <1>3. PICK out : Served(k, out, {s}) /\ DOMAIN out \subseteq {s}
    BY ToWhom DEF NewjobNok
  <1>4. \A w \in first_notify' : w \in first_notify /\ w.socket # s
    BY <1>1, WaitersElsewhere DEF Protocol
  <1>5. StatesKept
    <2>0. PICK finished :
            \E lastq \in LastId(Range(firstjob)),
               lastf \in LastId(Range(first_finished_job)) :
              job' = Sweep([WithNewJob(command[s], jobids, "FINISHED",
                                       lastq, lastf)
                              EXCEPT ![jobids].errorlevel = -1],
                           firstjob, finished)
      BY DEF NewjobNok
    <2>1. PICK lastq \in LastId(Range(firstjob)),
               lastf \in LastId(Range(first_finished_job)) :
            job' = Sweep([WithNewJob(command[s], jobids, "FINISHED",
                                     lastq, lastf)
                            EXCEPT ![jobids].errorlevel = -1],
                         firstjob, finished)
      BY <2>0
    <2> DEFINE t == WithNewJob(command[s], jobids, "FINISHED", lastq, lastf)
               table == [t EXCEPT ![jobids].errorlevel = -1]
    <2>2. JobsTypeOK /\ QueueConsistent /\ TypeOK
      BY DEF IInv, JobsInv
    <2>3. command[s] \in CommandLine /\ "FINISHED" \in Live \cup Done
      BY <1>1, <2>2, TurnType DEF Done
    <2>4. \A y \in JobIds \ {jobids} : t[y].state = job[y].state
      BY <1>1, <2>2, <2>3, WithNewJobTable
    <2> HIDE DEF t
    <2>5. \A y \in Range(firstjob) : table[y].state = job[y].state
      BY <1>1, <2>2, <2>4, NewIdUnused, ListedJobs
    <2>6. job' = Sweep(table, firstjob', finished)
      BY <1>1, <2>1 DEF t
    <2> HIDE DEF table
    <2>. QED  BY <1>1, <2>2, <2>5, <2>6, SweepKeeps
  <1>. QED  BY <1>1, <1>2, <1>3, <1>4, <1>5, RemoveStep

(* The client of a job dies.                                               *)
LEMMA DeadClientProtocol ==
    ASSUME IInv, Protocol, NEW k, JobClientDisappeared(k)
    PROVE  Protocol'
  <1> DEFINE s   == client_cs[k].socket
             j   == client_cs[k].jobid
             out == WaitjobOk(j, -1)
  <1>1. /\ Turn(k) /\ client_cs[k].hasjob /\ k \in DOMAIN client_cs
        /\ client_cs' = RemoveAt(client_cs, k) /\ Served(k, out, {s})
    BY DEF JobClientDisappeared, EndOfStream, Turn
  <1>2. PICK q \in DOMAIN firstjob :
          firstjob[q] = j /\ JobFinished(q, -1, "FINISHED")
    BY DEF JobClientDisappeared, InQueue
  <1>3. /\ Range(firstjob') = Range(firstjob) \ {j} /\ StatesKept
        /\ first_notify' \subseteq first_notify
    <2>1. JobsInv /\ -1 \in Int /\ "FINISHED" \in Done
      BY DEF IInv, Done
    <2>. QED  BY <1>2, <2>1, JobFinishedQueue
  <1>4. \A c \in DOMAIN out : \E w \in first_notify : w.socket = c
    BY DEF WaitjobOk, Waiters
  <1>5. \A w \in first_notify' : w \in first_notify /\ w.socket # s
    <2>1. client_cs[k] \in Conns
      BY <1>1, TurnFacts
    <2>. QED  BY <1>1, <1>3, <2>1, WaitersAreFree DEF Protocol
  <1> HIDE DEF out, j
  <1>. QED  BY <1>1, <1>3, <1>4, <1>5, RemoveStep DEF j

(* A queued or held job is removed and its client cut off.                 *)
LEMMA RemovedProtocol ==
    ASSUME IInv, Protocol, NEW k, RemoveQueued(k)
    PROVE  Protocol'
  <1> DEFINE x == client_cs[k]
             s == x.socket
             out == To(s, Reply("ANSWER", 0))
  <1>1. /\ Turn(k) /\ to_server[s] # <<>>
        /\ Head(to_server[s]).type = "REMOVEJOB" /\ UNCHANGED first_notify
    BY DEF RemoveQueued, Serve
  <1>2. PICK q \in Named(firstjob, command[s].jobid) :
          /\ firstjob' = RemoveAt(firstjob, q)
          /\ job' = Sweep(NotifyErrorlevel(firstjob[q], -1), firstjob',
                          first_finished_job)
          /\ \E n \in ConnOf(firstjob[q]) :
               /\ client_cs' = RemoveAt(client_cs, n)
               /\ Served(k, out, {client_cs[n].socket})
    BY DEF RemoveQueued
  <1>3. PICK n \in ConnOf(firstjob[q]) :
          /\ client_cs' = RemoveAt(client_cs, n)
          /\ Served(k, out, {client_cs[n].socket})
    BY <1>2
  <1>4. /\ k \in DOMAIN client_cs /\ x \in Conns /\ s \in Clients
        /\ s \notin Range(backlog) /\ ~x.hasjob
        /\ \A y \in Conns : y.socket = s => y = x
        /\ command[s].request = "REMOVEJOB"
        /\ Tail(to_server[s]) = <<>> /\ to_server[s] \in Seq(ClientMsg)
        /\ FreeLink(pc[s], "REMOVEJOB", to_server[s], to_client[s])
    <2>1. "REMOVEJOB" \in Requests
      BY DEF Requests
    <2> HIDE DEF out
    <2>. QED  BY <1>1, <2>1, TurnFacts
  <1>5. /\ n \in DOMAIN client_cs /\ client_cs[n].hasjob /\ n # k
        /\ client_cs[n].jobid = firstjob[q]
        /\ client_cs[n].socket # s
    <2>1. /\ n \in DOMAIN client_cs /\ client_cs[n].hasjob /\ n # k
          /\ client_cs[n].jobid = firstjob[q]
      BY <1>2, <1>4 DEF ConnOf
    <2>2. client_cs[n] \in Conns
      BY <2>1 DEF Conns, Range
    <2>. QED  BY <1>4, <2>1, <2>2
  <1>6. JobsTypeOK /\ QueueConsistent /\ WaitersFree
    BY DEF IInv, JobsInv, Protocol
  <1>7. q \in DOMAIN firstjob /\ firstjob[q] \in JobIds
    BY <1>2, <1>6, LenProperties DEF JobsTypeOK, Named
  <1>8. Range(firstjob') = Range(firstjob) \ {client_cs[n].jobid}
    BY <1>2, <1>5, <1>6, <1>7, RemoveAtInjective
       DEF JobsTypeOK, QueueConsistent, Consistent
  <1>9. StatesKept
    <2>1. Range(firstjob) \subseteq JobIds
      BY <1>6, RangeOfSeq DEF JobsTypeOK
    <2>2. \A y \in Range(firstjob) :
            NotifyErrorlevel(firstjob[q], -1)[y].state = job[y].state
      BY <1>6, <1>7, <2>1, NotifyErrorlevelTable
    <2>. QED  BY <1>2, <1>6, <2>2, SweepKeeps
  <1>10. \A w \in first_notify' : w \in first_notify /\ w.socket # s
    BY <1>1, <1>6, WaitersElsewhere
  <1>11. DOMAIN out = {s}
    BY ToWhom
  <1> HIDE DEF out
  <1>12. /\ pc'[s] = pc[s] /\ command'[s] = command[s]
         /\ to_server'[s] = <<>>
    <2>1. /\ s \in Clients /\ s \notin {client_cs[n].socket}
          /\ s = client_cs[k].socket
      BY <1>4, <1>5
    <2> HIDE DEF s
    <2>2. /\ pc'[s] = pc[s] /\ command'[s] = command[s]
          /\ to_server'[s] = Tail(to_server[s])
      BY ONLY <1>3, <2>1 DEF Served, SendMsg, CloseSockets
    <2>. QED  BY <1>4, <2>2 DEF s
  <1>13. FreeLink(pc[s], "REMOVEJOB", <<>>, to_client'[s])
    <2>1. "REMOVEJOB" \in Requests /\ "REMOVEJOB" # "NEWJOB"
      BY DEF Requests
    <2> HIDE DEF s
    <2>. QED  BY <1>1, <1>4, <2>1, FreeLinkHead
  <1>14. \A y \in Conns : y = client_cs[k] => Link(y)'
    BY <1>4, <1>12, <1>13 DEF Link
  <1>. QED  BY <1>1, <1>3, <1>5, <1>8, <1>9, <1>10, <1>11, <1>14, RemoveStep

(* client_read changes what connection k is about.                         *)
LEMMA EditStep ==
    ASSUME IInv, Protocol, NEW k, Turn(k), NEW out, Served(k, out, {}),
           NEW y, y.socket = client_cs[k].socket,
           Wired', Conns' = (Conns \ {client_cs[k]}) \cup {y},
           \A c \in DOMAIN out : \/ c = client_cs[k].socket
                               \/ \E w \in first_notify : w.socket = c,
           StatesKept, Link(y)',
           \A w \in first_notify' :
             w \in first_notify /\ w.socket # client_cs[k].socket,
           Range(firstjob) \subseteq Range(firstjob') \cup {client_cs[k].jobid}
    PROVE  Protocol'
  <1> DEFINE x == client_cs[k]
             s == x.socket
  <1>1. /\ k \in DOMAIN client_cs /\ x \in Conns /\ s \in Clients
        /\ s \notin Range(backlog)
        /\ \A z \in Conns : z.socket = s => z = x
    BY TurnFacts
  <1>2. Wired /\ Linked /\ WaitersFree /\ TypeOK
    BY DEF Protocol, IInv
  <1>3. \A z \in Conns' : z.socket = s => Link(z)'
    BY <1>1
  <1>4. \A z \in Conns' : z.socket # s =>
          /\ z \in Conns
          /\ z.socket \in DOMAIN out =>
               ~z.hasjob /\ to_server[z.socket] = <<>>
          /\ z.hasjob => job'[z.jobid].state = job[z.jobid].state
    <2>1. SUFFICES ASSUME NEW z \in Conns', z.socket # s
                   PROVE  /\ z \in Conns
                          /\ z.socket \in DOMAIN out =>
                               ~z.hasjob /\ to_server[z.socket] = <<>>
                          /\ z.hasjob =>
                               job'[z.jobid].state = job[z.jobid].state
      OBVIOUS
    <2>2. z \in Conns
      BY <2>1
    <2>3. z.socket \in DOMAIN out => ~z.hasjob /\ to_server[z.socket] = <<>>
      BY <1>2, <2>1, <2>2, WaitersAreFree
    <2>4. z.hasjob => z.jobid \in Range(firstjob')
      BY <2>1 DEF Wired
    <2>. QED  BY <1>2, <2>2, <2>3, <2>4, JobStatesKept
  <1>5. \A c \in DOMAIN out : c \notin Range(backlog)
    BY <1>1, <1>2, WaitersAreFree
  <1>6. Linked'
    BY <1>1, <1>2, <1>3, <1>4, <1>5, OthersLinked
  <1>7. \A z \in Conns : z.socket # s => z \in Conns'
    OBVIOUS
  <1>8. WaitersFree'
    BY <1>2, <1>7, WaitersStay
  <1>. QED  BY <1>6, <1>8 DEF Protocol

(* The client of a job reports its end.                                    *)
LEMMA EndJobProtocol ==
    ASSUME IInv, Protocol, NEW k, EndJob(k)
    PROVE  Protocol'
  <1> DEFINE x   == client_cs[k]
             s   == x.socket
             j   == x.jobid
             m   == Head(to_server[s])
             out == WaitjobOk(j, m.errorlevel)
  <1>0. PICK y : y = [x EXCEPT !.hasjob = FALSE]
    OBVIOUS
  <1>1. /\ Turn(k) /\ to_server[s] # <<>> /\ m.type = "ENDJOB"
        /\ Served(k, out, {}) /\ client_cs' = [client_cs EXCEPT ![k] = y]
    BY <1>0 DEF EndJob, Serve, ForgetJob
  <1>2. /\ k \in DOMAIN client_cs /\ x \in Conns /\ x \in Connection
        /\ s \in Clients /\ x.hasjob /\ to_server[s] \in Seq(ClientMsg)
        /\ to_client[s] \in Seq(ServerMsg)
        /\ JobLink(pc[s], to_server[s], to_client[s], job[j].state)
    BY <1>1, TurnFacts
  <1>3. pc[s] = "closed" /\ Tail(to_server[s]) = <<>>
    BY <1>1, <1>2, JobLinkEndjob
  <1>4. PICK q \in DOMAIN firstjob, st \in Done :
          firstjob[q] = j /\ JobFinished(q, m.errorlevel, st)
    BY DEF EndJob, InQueue, Done
  <1>5. m.errorlevel \in Int
    <2>1. m \in ClientMsg
      BY <1>1, <1>2, HeadTailProperties
    <2>. QED  BY <2>1 DEF ClientMsg
  <1>6. /\ Range(firstjob') = Range(firstjob) \ {j} /\ StatesKept
        /\ first_notify' \subseteq first_notify
    BY <1>4, <1>5, JobFinishedQueue DEF IInv
  <1>7. y \in Connection /\ y.socket = s /\ ~y.hasjob
    BY <1>0, <1>2 DEF Connection
  <1>8. \A c \in DOMAIN out : \E w \in first_notify : w.socket = c
    BY DEF WaitjobOk, Waiters
  <1>9. \A w \in first_notify' : w \in first_notify /\ w.socket # s
    BY <1>2, <1>6, WaitersAreFree DEF Protocol
  <1> HIDE DEF out, m
  <1>10. Wired' /\ Conns' = (Conns \ {x}) \cup {y}
    BY <1>1, <1>2, <1>6, <1>7, WiredDetach DEF Served, Protocol, IInv
  <1>11. pc'[s] = "closed" /\ to_server'[s] = <<>>
    <2>1. s \in Clients /\ s \notin {} /\ s = client_cs[k].socket
      BY <1>2
    <2> HIDE DEF s
    <2>2. pc'[s] = pc[s] /\ to_server'[s] = Tail(to_server[s])
      BY ONLY <1>1, <2>1 DEF Served, CloseSockets
    <2>. QED  BY <1>3, <2>2 DEF s
  <1>12. Link(y)'
    BY <1>7, <1>11 DEF Link, FreeLink
  <1> HIDE DEF j
  <1>. QED  BY <1>1, <1>6, <1>7, <1>8, <1>9, <1>10, <1>12, EditStep DEF j

(* A job is submitted.                                                     *)
LEMMA NewjobProtocol ==
    ASSUME IInv, Protocol, NEW k, Newjob(k)
    PROVE  Protocol'
  <1> DEFINE x  == client_cs[k]
             s  == x.socket
             m  == Reply("NEWJOB_OK", 0)
             st == IF QueueFull THEN "HOLDING_CLIENT" ELSE "QUEUED"
  <1>0. PICK y : y = [socket |-> s, hasjob |-> TRUE, jobid |-> jobids]
    OBVIOUS
  <1>1. /\ Turn(k) /\ to_server[s] # <<>> /\ Head(to_server[s]).type = "NEWJOB"
        /\ client_cs' = [client_cs EXCEPT ![k] = y]
        /\ jobids \in JobIds /\ firstjob' = Append(firstjob, jobids)
        /\ UNCHANGED first_notify
    BY <1>0 DEF Newjob, Serve
  <1>2. PICK out : /\ Served(k, out, {})
                   /\ out = IF QueueFull THEN Nothing ELSE To(s, m)
    BY DEF Newjob
  <1>3. /\ k \in DOMAIN client_cs /\ x \in Conns /\ x \in Connection
        /\ s \in Clients /\ ~x.hasjob /\ to_server[s] \in Seq(ClientMsg)
        /\ to_client[s] \in Seq(ServerMsg) /\ Tail(to_server[s]) = <<>>
        /\ FreeLink(pc[s], "NEWJOB", to_server[s], to_client[s])
    <2>1. "NEWJOB" \in Requests
      BY DEF Requests
    <2> HIDE DEF m, st
    <2>. QED  BY <1>1, <2>1, TurnFacts
  <1>4. JobsTypeOK /\ QueueConsistent /\ TypeOK
    BY DEF IInv, JobsInv
  <1>5. jobids \notin Range(firstjob)
        /\ Range(firstjob') = Range(firstjob) \cup {jobids}
    BY <1>1, <1>4, NewIdUnused, AppendIsInjective
       DEF JobsTypeOK, QueueConsistent, Consistent
  <1>6. y \in Connection /\ y.socket = s /\ y.hasjob /\ y.jobid = jobids
    BY <1>0, <1>3, <1>4 DEF Connection, JobsTypeOK
  <1>7. /\ job'[jobids].state = st
        /\ \A z \in JobIds \ {jobids} : job'[z].state = job[z].state
    <2>1. PICK lastq \in LastId(Range(firstjob)),
               lastf \in LastId(Range(first_finished_job)) :
            job' = WithNewJob(command[s], jobids, st, lastq, lastf)
      BY DEF Newjob
    <2>2. command[s] \in CommandLine /\ st \in Live \cup Done
      BY <1>1, <1>4, TurnType DEF Live
    <2> HIDE DEF st
    <2>. QED  BY <1>1, <1>4, <2>1, <2>2, WithNewJobTable
  <1>8. StatesKept
    BY <1>1, <1>4, <1>5, <1>7, ListedJobs DEF StatesKept
  <1>9. \A c \in DOMAIN out : c = s
    <2>1. DOMAIN Nothing = {} /\ DOMAIN To(s, m) = {s}
      BY ToWhom
    <2> HIDE DEF s, m
    <2>. QED  BY <1>2, <2>1
  <1>10. \A w \in first_notify' : w \in first_notify /\ w.socket # s
    BY <1>1, WaitersElsewhere DEF Protocol
  <1>11. Wired' /\ Conns' = (Conns \ {x}) \cup {y}
    <2> HIDE DEF m, st
    <2>. QED  BY <1>1, <1>2, <1>3, <1>4, <1>5, <1>6, WiredAttach
              DEF Served, Protocol
  <1>12. /\ pc'[s] = pc[s] /\ to_server'[s] = <<>>
         /\ JobLink(pc[s], <<>>, to_client'[s], st)
    <2>1. s \in Clients /\ s \notin {} /\ s = client_cs[k].socket
      BY <1>3
    <2>2. m \in ServerMsg /\ m.type = "NEWJOB_OK"
      <3>1. m \in ServerMsg
        BY ReplyType
      <3>. QED  BY <3>1 DEF Reply
    <2>3. JobLink(pc[s], <<>>, to_client[s], "HOLDING_CLIENT")
      <3>1. "NEWJOB" \in Requests
        BY DEF Requests
      <3> HIDE DEF m, st, s
      <3>. QED  BY <1>1, <1>3, <3>1, FreeLinkHead
    <2>4. s \notin DOMAIN Nothing /\ DOMAIN To(s, m) = {s}
      BY ToWhom
    <2> HIDE DEF m, s
    <2>5. pc'[s] = pc[s] /\ to_server'[s] = Tail(to_server[s])
      BY ONLY <1>2, <2>1 DEF Served, CloseSockets
    <2>6. CASE QueueFull
      <3>1. to_client'[s] = to_client[s]
        BY ONLY <1>2, <2>1, <2>4, <2>6 DEF Served, SendMsg
      <3>. QED  BY <1>3, <2>3, <2>5, <2>6, <3>1 DEF s
    <2>7. CASE ~QueueFull
      <3>1. to_client'[s] = IF pc[s] # "closed" THEN Append(to_client[s], m)
                           ELSE to_client[s]
        BY ONLY <1>2, <2>1, <2>4, <2>7 DEF Served, SendMsg, To
      <3>2. Sent(pc[s], to_client[s], m, to_client'[s])
        BY <3>1 DEF Sent
      <3>3. to_client[s] \in Seq(ServerMsg) /\ Tail(to_server[s]) = <<>>
        BY <1>3 DEF s
      <3>4. JobLink(pc[s], <<>>, to_client'[s], "QUEUED")
        BY <2>2, <2>3, <3>2, <3>3, JobLinkAdmitted
      <3>. QED  BY <2>5, <2>7, <3>3, <3>4
    <2>. QED  BY <2>6, <2>7
  <1> HIDE DEF m, st
  <1>13. Link(y)'
    BY <1>6, <1>7, <1>12 DEF Link
  <1>. QED  BY <1>1, <1>2, <1>5, <1>6, <1>8, <1>9, <1>10, <1>11, <1>13, EditStep

-----------------------------------------------------------------------------
(* The rest of a round.                                                    *)

(* select, and accept.                                                     *)
LEMMA SelectProtocol ==
    ASSUME IInv, Protocol, Select
    PROVE  Protocol'
  <1>1. UNCHANGED <<jobsVars, to_server, to_client, pc, command>>
    BY DEF Select
  <1>2. Wired /\ Linked /\ WaitersFree /\ TypeOK
    BY DEF Protocol, IInv
  <1>3. /\ UNCHANGED <<job, firstjob, first_notify>>
        /\ \A y : Link(y)' <=> Link(y)
    BY <1>1 DEF Link, jobsVars, queueVars
  <1>4. CASE UNCHANGED <<client_cs, backlog>>
    BY <1>1, <1>2, <1>3, <1>4 DEF Protocol, Wired, Linked, WaitersFree, Conns
  <1>5. CASE ~UNCHANGED <<client_cs, backlog>>
    <2>1. /\ backlog # <<>> /\ backlog' = Tail(backlog)
          /\ client_cs' = Append(client_cs, Accepted(Head(backlog)))
      BY <1>5 DEF Select, Accepted
    <2>2. PICK c : c = Head(backlog)
      OBVIOUS
    <2>3. /\ backlog \in Seq(Clients) /\ client_cs \in Seq(Connection)
          /\ IsInjective(backlog) /\ IsInjective(client_cs)
      BY <1>2 DEF TypeOK, SocketsTypeOK, ConnectionsTypeOK, Wired
    <2>4. /\ IsInjective(backlog') /\ Range(backlog') = Range(backlog) \ {c}
          /\ c \in Range(backlog) /\ c \in Clients
      <3>1. Head(backlog) = backlog[1] /\ 1 \in DOMAIN backlog
        BY <2>1, <2>3, HeadTailProperties, LenProperties, EmptySeq
      <3>2. Head(backlog) \in Range(backlog)
        BY <3>1 DEF Range
      <3>. QED  BY <2>1, <2>2, <2>3, <3>1, <3>2, TailIsInjective, RangeOfSeq
    <2>5. PICK y : y = Accepted(c)
      OBVIOUS
    <2>6. y \in Connection /\ y.socket = c /\ ~y.hasjob
      BY <2>4, <2>5 DEF Accepted, Connection
    <2>7. y \notin Conns
      BY <1>2, <2>4, <2>6 DEF Wired
    <2>8. IsInjective(client_cs') /\ Conns' = Conns \cup {y}
      BY <2>1, <2>2, <2>3, <2>5, <2>6, <2>7, AppendIsInjective DEF Conns
    <2>9. Wired'
      BY <1>2, <1>3, <2>4, <2>6, <2>8 DEF Wired
    <2>10. Linked'
      <3>1. Link(y)
        BY <1>2, <2>4, <2>5 DEF Linked
      <3>2. \A z \in Conns' : Link(z)'
        BY <1>2, <1>3, <2>8, <3>1 DEF Linked
      <3>3. \A d \in Range(backlog') : Link(Accepted(d))'
        BY <1>2, <1>3, <2>4 DEF Linked
      <3>. QED  BY <3>2, <3>3 DEF Linked
    <2>11. WaitersFree'
      BY <1>1, <1>2, <1>3, <2>8 DEF WaitersFree
    <2>. QED  BY <2>9, <2>10, <2>11 DEF Protocol
  <1>. QED  BY <1>4, <1>5

(* A job is started, and all the held clients are let in.                  *)
LEMMA StartJobProtocol ==
    ASSUME IInv, Protocol, StartJob
    PROVE  Protocol'
  <1>1. PICK q \in NextRunJob, n \in DOMAIN client_cs :
          /\ n \in ConnOf(firstjob[q])
          /\ job' = [x \in JobIds |->
               IF x = firstjob[q] THEN [job[x] EXCEPT !.state = "RUNNING"]
               ELSE IF x \in HeldJobs
               THEN [job[x] EXCEPT !.state = "QUEUED"] ELSE job[x]]
          /\ SendMsg([c \in HeldClients \cup {client_cs[n].socket} |->
               IF c = client_cs[n].socket
               THEN Reply("RUNJOB", job[firstjob[q]].dependency_errorlevel)
               ELSE Reply("NEWJOB_OK", 0)])
    BY DEF StartJob, ConnOf
  <1>2. PICK j, m, ok, s :
          /\ j = firstjob[q] /\ s = client_cs[n].socket
          /\ m = Reply("RUNJOB", job[j].dependency_errorlevel)
          /\ ok = Reply("NEWJOB_OK", 0)
    OBVIOUS
  <1>3. /\ UNCHANGED <<firstjob, first_notify, client_cs, backlog, to_server,
                       pc, command>>
    BY DEF StartJob, LoopAgain
  <1>4. Wired /\ Linked /\ WaitersFree /\ TypeOK /\ JobsTypeOK
    BY DEF Protocol, IInv, TypeOK
  <1>5. j \in JobIds /\ job[j] \in Job /\ job[j].state = "QUEUED"
    BY <1>1, <1>2, <1>4, LenProperties DEF NextRunJob, Runnable, JobsTypeOK
  <1>6. /\ m \in ServerMsg /\ m.type = "RUNJOB"
        /\ ok \in ServerMsg /\ ok.type = "NEWJOB_OK"
    <2>1. job[j].dependency_errorlevel \in Int
      BY <1>5 DEF Job
    <2>2. m \in ServerMsg /\ ok \in ServerMsg
      BY <1>2, <2>1, ReplyType
    <2>. QED  BY <1>2, <2>2 DEF Reply
  <1>7. Wired' /\ Conns' = Conns
    BY <1>3, <1>4, WiredSame
  <1>8. /\ client_cs[n] \in Conns /\ client_cs[n].hasjob
        /\ client_cs[n].jobid = j /\ client_cs[n].socket = s
    BY <1>1, <1>2 DEF ConnOf, Conns, Range
  <1>9. \A c \in HeldClients : \E z \in Conns :
          z.hasjob /\ z.jobid \in HeldJobs /\ z.socket = c
    BY DEF HeldClients, ConnOf, Conns, Range
  <1>10. \A x \in JobIds :
           job'[x].state = IF x = j THEN "RUNNING"
                           ELSE IF x \in HeldJobs THEN "QUEUED"
                           ELSE job[x].state
    <2>1. \A x \in JobIds : job[x] \in Job
      BY <1>4 DEF JobsTypeOK
    <2>2. \A r \in Job, t \in Live : [r EXCEPT !.state = t].state = t
      BY DEF Job
    <2>3. "RUNNING" \in Live /\ "QUEUED" \in Live
      BY DEF Live
    <2>. QED  BY <1>1, <1>2, <2>1, <2>2, <2>3
  <1>11. \A c \in Clients :
           to_client'[c] = IF c \in HeldClients \cup {s} /\ pc[c] # "closed"
                          THEN Append(to_client[c], IF c = s THEN m ELSE ok)
                          ELSE to_client[c]
    BY <1>1, <1>2 DEF SendMsg
  <1>12. ASSUME NEW y \in Conns
         PROVE  Link(y)'
    <2> DEFINE c == y.socket
    <2>1. /\ c \in Clients /\ Link(y)
          /\ to_client[c] \in Seq(ServerMsg)
          /\ \A z \in Conns : z.socket = c => z = y
          /\ \A z \in Conns : y.hasjob /\ z.hasjob /\ z.jobid = y.jobid => z = y
          /\ y.hasjob => y.jobid \in JobIds
      <3>1. c \in Clients
        BY <1>4, ConnsType
      <3>2. Range(firstjob) \subseteq JobIds
        BY <1>4, RangeOfSeq DEF JobsTypeOK
      <3>. QED  BY <1>4, <3>1, <3>2
                DEF Linked, Wired, TypeOK, SocketsTypeOK
    <2>2. CASE ~y.hasjob
      <3>1. c \notin HeldClients /\ c # s
        BY <1>8, <1>9, <2>1, <2>2
      <3>. QED  BY <1>3, <1>11, <2>1, <2>2, <3>1 DEF Link
    <2>3. CASE y.hasjob /\ y.jobid = j
      <3>1. c = s
        BY <1>8, <2>1, <2>3
      <3>2. JobLink(pc[c], to_server[c], to_client[c], "QUEUED")
        BY <1>5, <2>1, <2>3 DEF Link
      <3>3. Sent(pc[c], to_client[c], m, to_client'[c])
        BY <1>11, <2>1, <3>1 DEF Sent
      <3>4. JobLink(pc[c], to_server[c], to_client'[c], "RUNNING")
        BY <1>6, <2>1, <3>2, <3>3, JobLinkStarted
      <3>. QED  BY <1>3, <1>5, <1>10, <2>3, <3>4 DEF Link
    <2>4. CASE y.hasjob /\ y.jobid # j /\ y.jobid \in HeldJobs
      <3>1. c \in HeldClients /\ c # s
        <4>1. PICK p \in DOMAIN client_cs : y = client_cs[p]
          BY <1>4, ConnsType
        <4>2. p \in ConnOf(y.jobid)
          BY <2>4, <4>1 DEF ConnOf
        <4>. QED  BY <1>8, <2>1, <2>4, <4>1, <4>2 DEF HeldClients
      <3>2. JobLink(pc[c], to_server[c], to_client[c], "HOLDING_CLIENT")
        BY <2>1, <2>4 DEF Link, HeldJobs
      <3>3. Sent(pc[c], to_client[c], ok, to_client'[c])
        BY <1>11, <2>1, <3>1 DEF Sent
      <3>4. JobLink(pc[c], to_server[c], to_client'[c], "QUEUED")
        BY <1>6, <2>1, <3>2, <3>3, JobLinkAdmitted
      <3>. QED  BY <1>3, <1>10, <2>1, <2>4, <3>4 DEF Link
    <2>5. CASE y.hasjob /\ y.jobid # j /\ y.jobid \notin HeldJobs
      <3>1. c \notin HeldClients /\ c # s
        BY <1>8, <1>9, <2>1, <2>5
      <3>. QED  BY <1>3, <1>10, <1>11, <2>1, <2>5, <3>1 DEF Link
    <2>. QED  BY <2>2, <2>3, <2>4, <2>5
  <1>13. ASSUME NEW c \in Range(backlog)
         PROVE  Link(Accepted(c))'
    <2>1. c \in Clients /\ c \notin HeldClients /\ c # s
      BY <1>4, <1>8, <1>9, ConnsType DEF Wired
    <2>2. Link(Accepted(c))
      BY <1>4 DEF Linked
    <2>. QED  BY <1>3, <1>11, <2>1, <2>2 DEF Link, Accepted
  <1>14. Linked'
    BY <1>3, <1>7, <1>12, <1>13 DEF Linked
  <1>15. WaitersFree'
    BY <1>3, <1>4, <1>7 DEF WaitersFree
  <1>. QED  BY <1>7, <1>14, <1>15 DEF Protocol

(* Nothing that the protocol is about changes.                             *)
LEMMA StandStill ==
    ASSUME Protocol, UNCHANGED <<firstjob, job, first_notify, client_cs, backlog,
                                 to_server, to_client, pc, command>>
    PROVE  Protocol'
  BY DEF Protocol, Wired, Conns, Linked, Link, Accepted, WaitersFree

(* The server keeps the protocol.                                          *)
LEMMA ServerProtocol ==
    ASSUME IInv, JobsInv', Protocol, ServerLoop
    PROVE  Protocol'
  <1>1. ASSUME NEW k, ClientRead(k)
        PROVE  Protocol'
    <2>1. CASE NewjobNokFault(k) \/ FinishFault(k) \/ UrgentFault(k)
      BY <2>1, StandStill
         DEF NewjobNokFault, FinishFault, UrgentFault, Die, jobsVars, queueVars,
             socketVars
    <2>. QED  BY <1>1, <2>1, NewjobProtocol, RejectedProtocol, ReportProtocol,
                 EndJobProtocol, DeadClientProtocol, GoneProtocol,
                 RemovedProtocol, RequestProtocol DEF ClientRead
  <1>2. CASE NothingToRun
    BY <1>2, StandStill DEF NothingToRun, LoopAgain, jobsVars, queueVars
  <1>. QED  BY <1>1, <1>2, SelectProtocol, StartJobProtocol DEF ServerLoop

-----------------------------------------------------------------------------
(* The clients.                                                            *)

(* What a connected client does when it ends.                              *)
LEMMA ExitOfConnected ==
    ASSUME TypeOK, NEW c \in Clients, Exit(c), Connected(c)
    PROVE  pc'[c] = "closed" /\ command'[c] = command[c] /\ to_client'[c] = <<>>
  BY DEF TypeOK, SocketsTypeOK, Exit

(* The others do not notice.                                               *)
LEMMA OtherClients ==
    ASSUME TypeOK, NEW c \in Clients,
           \/ ClientProcess(c) \/ Killed(c)
           \/ \E cmd \in CommandLines : Connect(c, cmd)
    PROVE  \A d \in Clients \ {c} :
             /\ pc'[d] = pc[d] /\ command'[d] = command[d]
             /\ to_server'[d] = to_server[d] /\ to_client'[d] = to_client[d]
  <1>1. \A d \in Clients \ {c} : pc'[d] = pc[d] /\ command'[d] = command[d]
    BY DEF TypeOK, SocketsTypeOK, ClientProcess, WaitNewjobOk, NewjobRejected,
         Runjob, RunjobSkip, RunChild, EndOfJob, EndOfSkippedJob, ReceiveAnswer,
         ConnectionClosed, Killed, Connect, Exit, Receive
  <1>2. \A d \in Clients \ {c} :
          to_server'[d] = to_server[d] /\ to_client'[d] = to_client[d]
    BY DEF TypeOK, SocketsTypeOK, ClientProcess, WaitNewjobOk, NewjobRejected,
         Runjob, RunjobSkip, RunChild, EndOfJob, EndOfSkippedJob, ReceiveAnswer,
         ConnectionClosed, Killed, Connect, Exit, Receive, SendToServer
  <1>. QED  BY <1>1, <1>2

(* A connected client that has no job makes its request and may leave.     *)
LEMMA FreeClientStep ==
    ASSUME TypeOK, NEW c \in Clients, Connected(c), ClientProcess(c) \/ Killed(c),
           FreeLink(pc[c], command[c].request, to_server[c], to_client[c])
    PROVE  /\ FreeLink(pc[c], command[c].request, to_server[c], to_client[c])'
           /\ to_server'[c] = to_server[c]
  <1>1. CASE \/ NewjobRejected(c) \/ ReceiveAnswer(c)
             \/ ConnectionClosed(c) \/ Killed(c)
    <2>1. /\ pc'[c] = "closed" /\ command'[c] = command[c]
          /\ to_client'[c] = <<>> /\ to_server'[c] = to_server[c]
      BY <1>1, ExitOfConnected
         DEF NewjobRejected, ReceiveAnswer, ConnectionClosed, Killed
    <2>. QED  BY <2>1 DEF FreeLink
  <1>2. /\ pc[c] \in {"wait_newjob_ok", "wait_answer", "closed"}
        /\ pc[c] = "wait_newjob_ok" => to_client[c] = <<>>
    BY DEF FreeLink
  <1>. QED  BY <1>1, <1>2
            DEF ClientProcess, WaitNewjobOk, Receive, Runjob, RunjobSkip,
                RunChild, EndOfJob, EndOfSkippedJob

(* A connected client that has a job follows the protocol or leaves.       *)
LEMMA JobClientStep ==
    ASSUME TypeOK, NEW c \in Clients, Connected(c), ClientProcess(c) \/ Killed(c),
           NEW st, JobLink(pc[c], to_server[c], to_client[c], st)
    PROVE  JobLink(pc'[c], to_server'[c], to_client'[c], st)
  <1> DEFINE p == pc[c]  ts == to_server[c]  tc == to_client[c]
  <1>0. /\ ts \in Seq(ClientMsg) /\ tc \in Seq(ServerMsg)
        /\ c \in DOMAIN pc /\ c \in DOMAIN to_server /\ c \in DOMAIN to_client
    BY DEF TypeOK, SocketsTypeOK
  <1>1. ASSUME NEW type, NEW next, Receive(c, type, next)
        PROVE  /\ tc # <<>> /\ Head(tc).type = type /\ pc'[c] = next
               /\ to_client'[c] = Tail(tc)
    BY <1>0, <1>1 DEF Receive
  <1>2. ASSUME NEW m, SendToServer(c, m)
        PROVE  to_server'[c] = Append(ts, m)
    BY <1>0, <1>2 DEF SendToServer
  <1>3. /\ Message("GET_LOGDIR", 0, FALSE) \in ClientMsg
        /\ Message("RUNJOB_OK", 0, FALSE) \in ClientMsg
        /\ Message("ENDJOB", -1, TRUE) \in ClientMsg
        /\ \A e \in Int : Message("ENDJOB", e, FALSE) \in ClientMsg
        /\ \A t, e, b : Message(t, e, b).type = t
    BY DEF Message, ClientMsg
  <1>4. CASE \/ NewjobRejected(c) \/ ReceiveAnswer(c)
             \/ ConnectionClosed(c) \/ Killed(c)
    <2>1. pc'[c] = "closed" /\ to_server'[c] = ts
      BY <1>4, ExitOfConnected
         DEF NewjobRejected, ReceiveAnswer, ConnectionClosed, Killed
    <2>2. PICK m \in ClientMsg : m.type = "ENDJOB"
      BY <1>3
    <2>3. JobLink("closed", ts, to_client'[c], st)
      BY <1>0, <2>2, JobLinkExit
    <2>. QED  BY <2>1, <2>3
  <1>5. CASE EndOfJob(c) \/ EndOfSkippedJob(c)
    <2>1. PICK m \in ClientMsg : m.type = "ENDJOB" /\ SendToServer(c, m)
      <3>1. CASE EndOfJob(c)
        <4>1. PICK e \in ExitCodes : SendToServer(c, Message("ENDJOB", e, FALSE))
          BY <3>1 DEF EndOfJob
        <4>. QED  BY <1>3, <4>1, ConstantsAssumption
      <3>2. CASE EndOfSkippedJob(c)
        BY <1>3, <3>2 DEF EndOfSkippedJob
      <3>. QED  BY <1>5, <3>1, <3>2
    <2>2. p \in {"running", "skipped"} /\ Exit(c)
      BY <1>5 DEF EndOfJob, EndOfSkippedJob
    <2>3. pc'[c] = "closed" /\ to_server'[c] = Append(ts, m)
      BY <1>2, <2>1, <2>2, ExitOfConnected
    <2>4. JobLink("closed", Append(ts, m), to_client'[c], st)
      BY <1>0, <2>1, <2>2, JobLinkExit
    <2>. QED  BY <2>3, <2>4
  <1>6. CASE WaitNewjobOk(c)
    <2>1. /\ p = "wait_newjob_ok" /\ to_server'[c] = ts
          /\ Receive(c, "NEWJOB_OK", "wait_server_commands")
      BY <1>6 DEF WaitNewjobOk
    <2>2. JobLink("wait_server_commands", ts, Tail(tc), st)
      BY <1>0, <1>1, <1>3, <2>1, JobLinkReceives
    <2>. QED  BY <1>1, <2>1, <2>2
  <1>7. CASE Runjob(c)
    <2>1. PICK m \in ClientMsg : m.type = "GET_LOGDIR" /\ SendToServer(c, m)
      BY <1>3, <1>7 DEF Runjob
    <2>2. /\ p = "wait_server_commands"
          /\ tc # <<>> /\ Head(tc).type = "RUNJOB" /\ pc'[c] = "wait_logdir"
          /\ to_client'[c] = Tail(tc)
      BY <1>1, <1>7 DEF Runjob
    <2>3. JobLink("wait_logdir", Append(ts, m), Tail(tc), st)
      BY <1>0, <2>1, <2>2, JobLinkReceives
    <2>. QED  BY <1>2, <2>1, <2>2, <2>3
  <1>8. CASE RunjobSkip(c)
    <2>1. PICK m \in ClientMsg : m.type = "RUNJOB_OK" /\ SendToServer(c, m)
      BY <1>3, <1>8 DEF RunjobSkip
    <2>2. /\ p = "wait_server_commands"
          /\ tc # <<>> /\ Head(tc).type = "RUNJOB" /\ pc'[c] = "skipped"
          /\ to_client'[c] = Tail(tc)
      BY <1>1, <1>8 DEF RunjobSkip
    <2>3. JobLink("skipped", Append(ts, m), Tail(tc), st)
      BY <1>0, <2>1, <2>2, JobLinkReceives
    <2>. QED  BY <1>2, <2>1, <2>2, <2>3
  <1>9. CASE RunChild(c)
    <2>1. PICK m \in ClientMsg : m.type = "RUNJOB_OK" /\ SendToServer(c, m)
      BY <1>3, <1>9 DEF RunChild
    <2>2. /\ p = "wait_logdir"
          /\ tc # <<>> /\ Head(tc).type = "LOGDIR" /\ pc'[c] = "running"
          /\ to_client'[c] = Tail(tc)
      BY <1>1, <1>9 DEF RunChild
    <2>3. JobLink("running", Append(ts, m), Tail(tc), st)
      BY <1>0, <2>1, <2>2, JobLinkReceives
    <2>. QED  BY <1>2, <2>1, <2>2, <2>3
  <1>. QED  BY <1>4, <1>5, <1>6, <1>7, <1>8, <1>9 DEF ClientProcess

(* Every step of a client keeps the protocol while the server is there.    *)
LEMMA ClientProtocol ==
    ASSUME IInv, Protocol, server = "up", NEW c \in Clients,
           ClientProcess(c) \/ Killed(c)
    PROVE  Protocol'
  <1>1. UNCHANGED <<firstjob, job, first_notify, client_cs, server>>
    BY ClientsLeaveTables DEF jobsVars, queueVars
  <1>2. UNCHANGED backlog
    BY DEF ClientProcess, WaitNewjobOk, NewjobRejected, Runjob, RunjobSkip,
         RunChild, EndOfJob, EndOfSkippedJob, ReceiveAnswer, ConnectionClosed,
         Killed, Exit, Receive
  <1>3. Wired /\ Linked /\ WaitersFree /\ TypeOK
    BY DEF Protocol, IInv
  <1>4. Wired' /\ Conns' = Conns
    BY <1>1, <1>2, <1>3, WiredSame
  <1>5. ASSUME NEW y, y.socket \in Clients, Link(y),
               y.socket = c => Connected(c)
        PROVE  /\ Link(y)'
               /\ ~y.hasjob => to_server'[y.socket] = to_server[y.socket]
    <2>1. CASE y.socket # c
      <3>1. \A d \in Clients \ {c} :
              /\ pc'[d] = pc[d] /\ command'[d] = command[d]
              /\ to_server'[d] = to_server[d] /\ to_client'[d] = to_client[d]
        BY <1>3, OtherClients
      <3>. QED  BY <1>1, <1>5, <2>1, <3>1 DEF Link
    <2>2. CASE y.socket = c /\ y.hasjob
      <3>1. JobLink(pc[c], to_server[c], to_client[c], job[y.jobid].state)
        BY <1>5, <2>2 DEF Link
      <3>2. JobLink(pc'[c], to_server'[c], to_client'[c], job[y.jobid].state)
        BY <1>3, <1>5, <2>2, <3>1, JobClientStep
      <3>. QED  BY <1>1, <2>2, <3>2 DEF Link
    <2>3. CASE y.socket = c /\ ~y.hasjob
      <3>1. FreeLink(pc[c], command[c].request, to_server[c], to_client[c])
        BY <1>5, <2>3 DEF Link
      <3>2. /\ FreeLink(pc[c], command[c].request, to_server[c], to_client[c])'
            /\ to_server'[c] = to_server[c]
        BY <1>3, <1>5, <2>3, <3>1, FreeClientStep
      <3>. QED  BY <2>3, <3>2 DEF Link
    <2>. QED  BY <2>1, <2>2, <2>3
  <1>6. \A y \in Conns : y.socket \in Clients /\ Connected(y.socket)
    BY <1>3, ConnsType DEF Connected
  <1>7. \A d \in Range(backlog) : d \in Clients /\ Connected(d)
    BY <1>3, ConnsType DEF Connected
  <1>8. Linked'
    <2>1. \A y \in Conns : Link(y)'
      BY <1>3, <1>5, <1>6 DEF Linked
    <2>2. \A d \in Range(backlog) : Link(Accepted(d))'
      <3>1. \A d : Accepted(d).socket = d
        BY DEF Accepted
      <3>. QED  BY <1>3, <1>5, <1>7, <3>1 DEF Linked
    <2>. QED  BY <1>2, <1>4, <2>1, <2>2 DEF Linked
  <1>9. WaitersFree'
    <2>1. \A y \in Conns : ~y.hasjob => to_server'[y.socket] = to_server[y.socket]
      BY <1>3, <1>5, <1>6 DEF Linked
    <2>. QED  BY <1>1, <1>3, <1>4, <2>1 DEF WaitersFree
  <1>. QED  BY <1>4, <1>8, <1>9 DEF Protocol

(* A new client joins the backlog.                                         *)
LEMMA ConnectProtocol ==
    ASSUME IInv, Protocol, NEW c \in Clients, NEW cmd \in CommandLine,
           Connect(c, cmd)
    PROVE  Protocol'
  <1>1. UNCHANGED <<firstjob, job, first_notify, client_cs>>
    BY DEF Connect, jobsVars, queueVars, loopVars
  <1>2. Wired /\ Linked /\ WaitersFree /\ TypeOK
    BY DEF Protocol, IInv
  <1>3. Conns' = Conns
    BY <1>1 DEF Conns
  <1>4. /\ \A y \in Conns : y.socket # c /\ y.socket \in Clients
        /\ c \notin Range(backlog) /\ \A d \in Range(backlog) : d \in Clients
    <2>1. pc[c] = "idle"
      BY DEF Connect
    <2>2. \A y : Link(y) => pc[y.socket] # "idle"
      BY DEF Link, JobLink, HoldingLink, QueuedLink, RunningLink, FreeLink
    <2>3. \A d : Accepted(d).socket = d
      BY DEF Accepted
    <2>. QED  BY <1>2, <2>1, <2>2, <2>3, ConnsType DEF Linked
  <1>5. IsInjective(backlog') /\ Range(backlog') = Range(backlog) \cup {c}
    <2>1. backlog \in Seq(Clients) /\ IsInjective(backlog)
      BY <1>2 DEF TypeOK, SocketsTypeOK, Wired
    <2>. QED  BY <1>4, <2>1, AppendIsInjective DEF Connect
  <1>6. Wired'
    BY <1>1, <1>2, <1>3, <1>4, <1>5 DEF Wired
  <1>7. \A d \in Clients \ {c} :
          /\ pc'[d] = pc[d] /\ command'[d] = command[d]
          /\ to_server'[d] = to_server[d] /\ to_client'[d] = to_client[d]
    BY <1>2 DEF Connect, TypeOK, SocketsTypeOK
  <1>8. \A y : y.socket \in Clients \ {c} => (Link(y)' <=> Link(y))
    BY <1>1, <1>7 DEF Link
  <1>9. Link(Accepted(c))'
    <2> DEFINE m == Message(cmd.request, 0, FALSE)
    <2>1. m.type = cmd.request
      BY DEF Message
    <2> HIDE DEF m
    <2>2. One(<<m>>, cmd.request)
      BY <2>1 DEF One
    <2>3. /\ to_server'[c] = <<m>> /\ to_client'[c] = <<>>
          /\ command'[c] = cmd
          /\ pc'[c] = IF cmd.request = "NEWJOB" THEN "wait_newjob_ok"
                      ELSE IF cmd.request \in OneWay THEN "closed"
                      ELSE "wait_answer"
      BY <1>2 DEF Connect, TypeOK, SocketsTypeOK, m
    <2>4. FreeLink(pc'[c], cmd.request, <<m>>, <<>>)
      BY <2>2, <2>3 DEF FreeLink
    <2>. QED  BY <2>3, <2>4 DEF Link, Accepted
  <1>10. Linked'
    <2>1. \A d : Accepted(d).socket = d
      BY DEF Accepted
    <2>. QED  BY <1>2, <1>3, <1>4, <1>5, <1>8, <1>9, <2>1 DEF Linked
  <1>11. WaitersFree'
    BY <1>1, <1>2, <1>3, <1>4, <1>7 DEF WaitersFree
  <1>. QED  BY <1>6, <1>10, <1>11 DEF Protocol

-----------------------------------------------------------------------------
(* What the protocol says of the server's tables.                          *)

(* The types of the messages in a stream.                                  *)
Types(s) == {s[n].type : n \in DOMAIN s}

(* The types of the messages in streams of up to two.                      *)
LEMMA StreamTypes ==
    ASSUME NEW S, NEW s \in Seq(S)
    PROVE  /\ s = <<>> => Types(s) = {}
           /\ \A t : One(s, t) => s # <<>> /\ Types(s) = {t}
           /\ \A t, u : Two(s, t, u) => s # <<>> /\ Types(s) = {t, u}
  <1>1. Len(s) \in Nat /\ DOMAIN s = 1 .. Len(s) /\ (s = <<>> <=> Len(s) = 0)
    BY EmptySeq, LenProperties
  <1>2. s = <<>> => Types(s) = {}
    BY <1>1 DEF Types
  <1>3. ASSUME NEW t, One(s, t)
        PROVE  s # <<>> /\ Types(s) = {t}
    BY <1>1, <1>3 DEF One, Types
  <1>4. ASSUME NEW t, NEW u, Two(s, t, u)
        PROVE  s # <<>> /\ Types(s) = {t, u}
    <2>1. DOMAIN s = {1, 2} /\ s # <<>>
      BY <1>1, <1>4 DEF Two
    <2>. QED  BY <1>4, <2>1 DEF Two, Types
  <1>. QED  BY <1>2, <1>3, <1>4

(* A job is in the queue at one place, and has one connection.             *)
LEMMA WiredClients ==
    ASSUME Wired
    PROVE  JobsHaveClients
  <1>1. ASSUME NEW j \in Range(firstjob)
        PROVE  Cardinality(ConnOf(j)) = 1
    <2>1. PICK n \in DOMAIN client_cs : client_cs[n].hasjob /\ client_cs[n].jobid = j
      BY <1>1 DEF Wired, Conns, Range
    <2>2. \A m \in DOMAIN client_cs :
            client_cs[m].hasjob /\ client_cs[m].jobid = j => m = n
      BY <2>1 DEF Wired, Conns, Range, IsInjective
    <2>3. ConnOf(j) = {n}
      BY <2>1, <2>2 DEF ConnOf
    <2>. QED  BY <2>3, FS_Singleton
  <1>2. \A n \in DOMAIN client_cs :
          client_cs[n].hasjob => client_cs[n].jobid \in Range(firstjob)
    BY DEF Wired, Conns, Range
  <1>. QED  BY <1>1, <1>2 DEF JobsHaveClients

(* Reports are on the way only about jobs that are RUNNING.                *)
LEMMA LinkedReports ==
    ASSUME TypeOK, Wired, Linked
    PROVE  ReportsAreExpected
  <1>1. SUFFICES ASSUME NEW n \in DOMAIN client_cs,
                        NEW m \in DOMAIN to_server[client_cs[n].socket],
                        to_server[client_cs[n].socket][m].type
                          \in {"RUNJOB_OK", "ENDJOB"}
                 PROVE  /\ client_cs[n].hasjob
                        /\ \E q \in InQueue(client_cs[n].jobid) :
                             job[firstjob[q]].state = "RUNNING"
    BY DEF ReportsAreExpected
  <1> DEFINE x  == client_cs[n]
             c  == x.socket
             ts == to_server[c]
  <1>2. x \in Conns /\ c \in Clients /\ Link(x)
    BY ConnsType DEF Linked
  <1>3. ts \in Seq(ClientMsg) /\ command[c].request \in Requests
    <2>1. command[c] \in CommandLine
      BY <1>2 DEF TypeOK, SocketsTypeOK
    <2>. QED  BY <1>2, <2>1 DEF TypeOK, SocketsTypeOK, CommandLine
  <1>4. ts[m].type \in Types(ts) /\ ts[m].type \in {"RUNJOB_OK", "ENDJOB"}
    BY <1>1 DEF Types
  <1> HIDE DEF ts
  <1>5. Types(ts) # {} /\ ~(Types(ts) \subseteq Requests)
    <2>1. \A t \in Requests : t \notin {"RUNJOB_OK", "ENDJOB"}
      BY DEF Requests, OneWay, Queries
    <2>. QED  BY <1>4, <2>1
  <1>6. x.hasjob
    <2>1. SUFFICES ASSUME ~x.hasjob PROVE FALSE
      OBVIOUS
    <2>2. ts = <<>> \/ One(ts, command[c].request)
      BY <1>2, <2>1 DEF Link, FreeLink, ts
    <2>3. Types(ts) \subseteq Requests
      BY <1>3, <2>2, StreamTypes
    <2>. QED  BY <1>5, <2>3
  <1>7. job[x.jobid].state = "RUNNING"
    <2>1. JobLink(pc[c], ts, to_client[c], job[x.jobid].state)
      BY <1>2, <1>6 DEF Link, ts
    <2>2. ts # <<>>
      BY <1>3, <1>5, StreamTypes
    <2>. QED  BY <2>1, <2>2 DEF JobLink, HoldingLink, QueuedLink
  <1>8. PICK q \in DOMAIN firstjob : firstjob[q] = x.jobid
    BY <1>2, <1>6 DEF Wired, Range
  <1>. QED  BY <1>6, <1>7, <1>8 DEF InQueue

(* What a client knows of its job.                                         *)
LEMMA LinkedAgree ==
    ASSUME TypeOK, Linked
    PROVE  ClientsAgree
  <1>1. SUFFICES ASSUME NEW n \in DOMAIN client_cs, client_cs[n].hasjob,
                        pc[client_cs[n].socket] # "closed"
                 PROVE  LET c  == client_cs[n].socket
                            st == job[client_cs[n].jobid].state
                        IN  /\ st = "RUNNING" <=>
                                 \/ Coming(c, "RUNJOB")
                                 \/ pc[c] \in {"wait_logdir", "running", "skipped"}
                            /\ st = "QUEUED" =>
                                 \/ Coming(c, "NEWJOB_OK")
                                 \/ pc[c] = "wait_server_commands"
                            /\ st = "HOLDING_CLIENT" =>
                                 pc[c] = "wait_newjob_ok" /\ to_client[c] = <<>>
    BY DEF ClientsAgree
  <1> DEFINE x  == client_cs[n]
             c  == x.socket
             tc == to_client[c]
             st == job[x.jobid].state
  <1>2. x \in Conns /\ c \in Clients
    BY ConnsType
  <1>3. tc \in Seq(ServerMsg) /\ JobLink(pc[c], to_server[c], tc, st)
    BY <1>1, <1>2 DEF TypeOK, SocketsTypeOK, Linked, Link
  <1>4. \A t : Coming(c, t) <=> t \in Types(tc)
    BY DEF Coming, Types
  <1>5. /\ tc = <<>> => Types(tc) = {}
        /\ \A t : One(tc, t) => Types(tc) = {t}
        /\ \A t, u : Two(tc, t, u) => Types(tc) = {t, u}
    BY <1>3, StreamTypes
  <1> HIDE DEF tc, st
  <1>6. /\ st = "RUNNING" <=>
             \/ "RUNJOB" \in Types(tc)
             \/ pc[c] \in {"wait_logdir", "running", "skipped"}
        /\ st = "QUEUED" =>
             "NEWJOB_OK" \in Types(tc) \/ pc[c] = "wait_server_commands"
        /\ st = "HOLDING_CLIENT" => pc[c] = "wait_newjob_ok" /\ tc = <<>>
    BY <1>1, <1>3, <1>5 DEF JobLink, HoldingLink, QueuedLink, RunningLink
  <1>. QED  BY <1>4, <1>6 DEF tc, st

-----------------------------------------------------------------------------
(* The theorems.                                                           *)

(* The invariant holds at the start.                                       *)
LEMMA InitPInv == Init => PInv
  <1> SUFFICES ASSUME Init PROVE PInv
    OBVIOUS
  <1>1. Range(<<>>) = {} /\ IsInjective(<<>>) /\ DOMAIN <<>> = {}
    BY EmptySeq DEF Range, IsInjective
  <1>2. Conns = {} /\ Range(backlog) = {} /\ Range(firstjob) = {}
    BY <1>1 DEF Init, Conns
  <1>3. Wired
    BY <1>1, <1>2 DEF Init, Wired
  <1>4. Linked /\ WaitersFree
    BY <1>2 DEF Init, Linked, WaitersFree
  <1>5. ReportsAreExpected
    BY <1>1 DEF Init, ReportsAreExpected
  <1>. QED  BY <1>3, <1>4, <1>5 DEF PInv, Protocol

(* Without a server nothing reaches its tables any more.                   *)
LEMMA AfterServer ==
    ASSUME IInv, Wired, ReportsAreExpected, server # "up", NEW c \in Clients,
           \/ ClientProcess(c) \/ Killed(c)
           \/ \E cmd \in CommandLines : Connect(c, cmd)
    PROVE  Wired' /\ ReportsAreExpected'
  <1>1. ClientProcess(c)
    BY DEF Killed, Connect
  <1>2. UNCHANGED <<firstjob, job, client_cs>>
    BY ClientsLeaveTables DEF jobsVars, queueVars
  <1>3. UNCHANGED backlog
    BY <1>1 DEF ClientProcess, WaitNewjobOk, NewjobRejected, Runjob, RunjobSkip,
         RunChild, EndOfJob, EndOfSkippedJob, ReceiveAnswer, ConnectionClosed,
         Exit, Receive
  <1>4. UNCHANGED to_server
    <2>1. \A m : SendToServer(c, m) => UNCHANGED to_server
      BY DEF SendToServer, Connected, IInv, TypeOK, SocketsTypeOK
    <2>. QED  BY <1>1, <2>1
              DEF ClientProcess, WaitNewjobOk, NewjobRejected, Runjob,
                  RunjobSkip, RunChild, EndOfJob, EndOfSkippedJob,
                  ReceiveAnswer, ConnectionClosed
  <1>5. Wired'
    BY <1>2, <1>3, WiredSame
  <1>. QED  BY <1>2, <1>4, <1>5 DEF ReportsAreExpected, InQueue

(* Every step keeps the invariant.                                         *)
LEMMA NextPInv == IInv /\ PInv /\ [Next]_vars => PInv'
  <1> SUFFICES ASSUME IInv, PInv, [Next]_vars PROVE PInv'
    OBVIOUS
  <1>1. IInv' /\ JobsInv' /\ TypeOK'
    BY NextInv DEF IInv
  <1>2. ASSUME Protocol' PROVE PInv'
    <2>1. (TypeOK /\ Wired /\ Linked => ReportsAreExpected)'
      BY LinkedReports, PTL
    <2>. QED  BY <1>1, <1>2, <2>1 DEF PInv, Protocol
  <1>3. CASE UNCHANGED vars
    <2>1. UNCHANGED <<firstjob, job, first_notify, client_cs, backlog, server,
                      to_server, to_client, pc, command>>
      BY <1>3 DEF vars, jobsVars, queueVars, loopVars, socketVars
    <2>2. Wired' /\ ReportsAreExpected'
      BY <2>1, WiredSame DEF PInv, ReportsAreExpected, InQueue
    <2>3. Protocol => Protocol'
      BY <2>1, StandStill
    <2>. QED  BY <2>1, <2>2, <2>3 DEF PInv
  <1>4. CASE ServerLoop
    <2>1. ASSUME NEW k, ClientRead(k)
          PROVE  Turn(k)
      BY <2>1
         DEF ClientRead, Newjob, NewjobNok, NewjobNokFault, GetLogdir,
             RunjobOk, EndJob, JobClientDisappeared, ClientDisappeared,
             FinishFault, RemoveQueued, RemoveFinished, RemoveRefused,
             WaitQueued, WaitAnswered, MoveUrgent, UrgentRefused, UrgentFault,
             SwapJobs, SwapRefused, ClearFinished, SetMaxSlots, KillServer,
             List, Query, Serve, EndOfStream
    <2>2. server = "up"
      BY <1>4, <2>1
         DEF ServerLoop, Select, StartJob, NothingToRun, ScanOver, Turn
    <2>. QED  BY <1>1, <1>2, <1>4, <2>2, ServerProtocol DEF PInv
  <1>5. ASSUME NEW c \in Clients,
               \/ ClientProcess(c) \/ Killed(c)
               \/ \E cmd \in CommandLines : Connect(c, cmd)
        PROVE  PInv'
    <2>1. CASE server = "up"
      <3>1. Protocol'
        BY <1>5, <2>1, ClientProtocol, ConnectProtocol, ConstantsAssumption
           DEF PInv
      <3>. QED  BY <1>2, <3>1
    <2>2. CASE server # "up"
      <3>1. Wired' /\ ReportsAreExpected' /\ UNCHANGED server
        BY <1>5, <2>2, AfterServer, ClientsLeaveTables DEF PInv
      <3>. QED  BY <2>2, <3>1 DEF PInv
    <2>. QED  BY <2>1, <2>2
  <1>. QED  BY <1>3, <1>4, <1>5, ConstantsAssumption DEF Next

(* The protocol is kept, beside the invariant of ServerProofs.             *)
LEMMA ProtocolHolds == Spec => [](IInv /\ PInv)
  BY InitInv, InitPInv, NextInv, NextPInv, PTL DEF Spec

(* Every job of the queue has exactly one connection, and a connection     *)
(* that has a job has one of the queue: get_conn_of_jobid always finds the *)
(* client that s_remove_job or next_run_job looks for.                     *)
THEOREM QueuedJobsHaveClients == Spec => []JobsHaveClients
  <1>1. PInv => JobsHaveClients
    BY WiredClients DEF PInv
  <1>. QED  BY <1>1, ProtocolHolds, PTL

(* RUNJOB_OK and ENDJOB arrive about RUNNING jobs only, also when their    *)
(* client is dead by then: the error() calls of s_process_runjob_ok and    *)
(* job_finished are unreachable.                                           *)
THEOREM ReportsFindRunningJobs == Spec => []ReportsAreExpected
  <1>1. PInv => ReportsAreExpected
    BY DEF PInv
  <1>. QED  BY <1>1, ProtocolHolds, PTL

(* The state of a job and the state of its client fit, with whatever is on *)
(* the way between them.                                                   *)
THEOREM ServerAndClientsAgree == Spec => []ClientsAgree
  <1>1. IInv /\ PInv => ClientsAgree
    BY LinkedAgree DEF IInv, PInv, Protocol, ClientsAgree
  <1>. QED  BY <1>1, ProtocolHolds, PTL
=============================================================================
