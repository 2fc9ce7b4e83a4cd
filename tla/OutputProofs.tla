---------------------------- MODULE OutputProofs ----------------------------
(***************************************************************************)
(* Proofs of the safety properties of Output, for any number of viewers    *)
(* and of jobs, and for outputs, blocks and numbers of lines of any size.  *)
(***************************************************************************)
EXTENDS Output, ListLemmas, FiniteSetTheorems, TLAPS

InQueue == {"QUEUED", "RUNNING"}

(* struct Job with its client.                                             *)
JobRecord ==
    [state: InQueue \cup Ended \cup {"NONE"}, store_output: BOOLEAN,
     skipped: BOOLEAN, pid: Int, output_filename: BOOLEAN,
     errorlevel: Int, proc: {"none", "running", "ended"},
     reports: {<<>>, <<"RUNJOB_OK">>, <<"ENDJOB">>, <<"RUNJOB_OK", "ENDJOB">>},
     announced: BOOLEAN]

Answer ==
    [type: {"", "ANSWER_OUTPUT", "LIST_LINE", "WAITJOB_OK", "COUNT_RUNNING",
            "INFO_DATA"},
     pids: SUBSET Int, job: JobIds \cup {-1}, errorlevel: Int]

ViewRecord ==
    [pc: {"idle", "ask", "open", "select", "read", "done", "failed"},
     cmd: ViewCommand,
     request: {"", "ASK_OUTPUT", "WAIT_RUNNING_JOB", "KILL_ALL", "INFO"},
     answer: Answer, job: JobIds \cup {-1},
     offset: Nat, waiting_end: BOOLEAN, end_res: Int,
     early: BOOLEAN, running: SUBSET Pids, hit: SUBSET Int]

(* Types.                                                                  *)
JobTypes ==
    /\ firstjob \in Seq(JobIds) /\ first_finished_job \in Seq(JobIds)
    /\ job \in [JobIds -> JobRecord]
    /\ jobids \in 0 .. JobIdBound
    /\ destroyed \subseteq JobIds
    /\ file \in [JobIds -> Seq(Chars)]

ViewTypes ==
    /\ first_notify \subseteq Viewers \X JobIds
    /\ view \in [Viewers -> ViewRecord]

(* The lists hold the jobs of their states, and what was not given out or  *)
(* was destroyed is no job.                                                *)
Lists ==
    /\ IsInjective(firstjob)
    /\ \A j \in JobIds :
         /\ job[j].state \in InQueue <=> j \in Range(firstjob)
         /\ job[j].state \in Ended <=> j \in Range(first_finished_job)
         /\ j >= jobids => job[j].state = "NONE" /\ j \notin destroyed
         /\ j \in destroyed => job[j].state = "NONE"

(* What the client of j is doing, has reported, and the server knows.      *)
Reported(j) ==
    /\ job[j].reports # <<>> => /\ job[j].state = "RUNNING"
                                /\ job[j].proc # "none"
    /\ job[j].reports \in {<<"ENDJOB">>, <<"RUNJOB_OK", "ENDJOB">>} =>
         job[j].proc = "ended"
    /\ job[j].proc # "none" => job[j].state \in {"RUNNING"} \cup Ended
    /\ job[j].state \in Ended => job[j].proc = "ended"
    /\ job[j].output_filename => job[j].proc # "none"
    /\ job[j].proc = "running" => ~job[j].skipped
    /\ job[j].announced => job[j].pid = IF job[j].skipped THEN -1 ELSE Pid(j)

Reports == \A j \in JobIds : Reported(j)

(* The output file of j is there, and complete.                            *)
Begun(j) == job[j].proc # "none" \/ j \in destroyed
Gone(j)  == job[j].proc = "ended" \/ j \in destroyed

(* If v asks again, for the job that it named or for none, it is about j,  *)
(* or j has ended meanwhile.                                               *)
SameAgain(v, j) ==
    \/ view[v].cmd.jobid = j
    \/ /\ view[v].cmd.jobid = -1
       /\ Gone(j) \/ (job[j].state = "RUNNING" /\ firstjob[1] = j)

(* The result e is the one of j, if v named it and it is not forgotten.    *)
ResultOf(v, j, e) ==
    view[v].cmd.jobid = j /\ j \notin destroyed => e = job[j].errorlevel

(* What a viewer has asked and heard before it opens a file.               *)
Asking(v) ==
    /\ view[v].pc = "idle" => view[v].request = ""
    /\ view[v].pc \in {"idle", "ask"} =>
         /\ \A j \in JobIds : <<v, j>> \notin first_notify
         /\ view[v].request # "WAIT_RUNNING_JOB"
         /\ view[v].waiting_end /\ view[v].offset = 0
    /\ view[v].pc \in {"idle", "ask"} =>
         \A j \in JobIds : view[v].answer.job = j => Begun(j) /\ SameAgain(v, j)

(* A viewer that follows the file of job j.                                *)
Follows(v, j) ==
    /\ Begun(j)
    /\ view[v].offset <= Len(file[j])
    /\ view[v].cmd.jobid \in {-1, j}
    /\ view[v].request \in {"", "WAIT_RUNNING_JOB"}
    /\ view[v].request = "WAIT_RUNNING_JOB" => SameAgain(v, j)
    /\ \A x \in JobIds : <<v, x>> \in first_notify =>
         x = j \/ (view[v].cmd.jobid = -1 /\ Gone(j))
    /\ view[v].answer.type \in {"", "WAITJOB_OK", "LIST_LINE"}
    /\ view[v].answer.type = "WAITJOB_OK" =>
         Gone(j) /\ ResultOf(v, j, view[v].answer.errorlevel)
    /\ ~view[v].waiting_end => Gone(j) /\ ResultOf(v, j, view[v].end_res)
    /\ view[v].pc = "done" => /\ view[v].offset = Len(file[j])
                              /\ ~view[v].waiting_end

Tails(v) ==
    \/ view[v].pc \in {"open", "select", "read"}
    \/ view[v].pc = "done" /\ view[v].cmd.request \in {"TAIL", "CAT"}

FollowsOrAsks(v) ==
    /\ Asking(v)
    /\ Tails(v) => /\ view[v].job # -1
                   /\ \A j \in JobIds : view[v].job = j => Follows(v, j)

Following == \A v \in Viewers : FollowsOrAsks(v)

(* The arguments of kill(-pid) that v may use.                             *)
Targets(cmd) ==
    IF cmd.request = "KILL_ALL" THEN Pids \cup {-1}
    ELSE IF cmd.jobid = -1 THEN Pids ELSE {Pid(cmd.jobid)}

(* Unless v asked early, its answers have the pids it means, or -1, and it *)
(* uses what it may; -T leaves none of the running groups out.             *)
Means(v) ==
    /\ view[v].cmd.request = "KILL_ALL" => view[v].cmd.jobid = -1
    /\ view[v].request = "KILL_ALL" =>
         /\ view[v].cmd.request = "KILL_ALL" /\ view[v].pc = "ask"
         /\ view[v].answer.type = ""
    /\ view[v].cmd.request = "KILL_ALL" =>
         /\ view[v].request \in {"", "KILL_ALL"}
         /\ view[v].pc \notin {"open", "select", "read"}
    /\ ~view[v].early =>
         /\ view[v].answer.pids \subseteq Targets(view[v].cmd) \cup {-1}
         /\ view[v].hit \subseteq Targets(view[v].cmd)
         /\ view[v].cmd.request = "KILL_ALL" =>
              /\ view[v].pc = "ask" => view[v].running \subseteq view[v].answer.pids
              /\ view[v].pc = "done" => view[v].running \subseteq view[v].hit

(* The groups whose command runs.                                          *)
RunningGroups == {Pid(j) : j \in {k \in JobIds : job[k].proc = "running"}}

Signals == \A v \in Viewers : Means(v)

JobsInv == JobTypes /\ Lists /\ Reports

IInv == JobsInv /\ ViewTypes /\ Following /\ Signals

-----------------------------------------------------------------------------
(* The reports of a client, one after the other.                           *)
LEMMA ReportFacts ==
    /\ Head(<<"RUNJOB_OK">>) = "RUNJOB_OK" /\ Tail(<<"RUNJOB_OK">>) = <<>>
    /\ Head(<<"ENDJOB">>) = "ENDJOB" /\ Tail(<<"ENDJOB">>) = <<>>
    /\ Head(<<"RUNJOB_OK", "ENDJOB">>) = "RUNJOB_OK"
    /\ Tail(<<"RUNJOB_OK", "ENDJOB">>) = <<"ENDJOB">>
    /\ Append(<<>>, "ENDJOB") = <<"ENDJOB">>
    /\ Append(<<"RUNJOB_OK">>, "ENDJOB") = <<"RUNJOB_OK", "ENDJOB">>
    /\ <<"RUNJOB_OK">> # <<"ENDJOB">> /\ <<"RUNJOB_OK">> # <<>>
    /\ <<"ENDJOB">> # <<>> /\ <<"RUNJOB_OK", "ENDJOB">> # <<>>
    /\ <<"RUNJOB_OK", "ENDJOB">> # <<"RUNJOB_OK">>
    /\ <<"RUNJOB_OK", "ENDJOB">> # <<"ENDJOB">>
  <1>1. /\ Head(<<"RUNJOB_OK">>) = "RUNJOB_OK" /\ Tail(<<"RUNJOB_OK">>) = <<>>
        /\ Head(<<"ENDJOB">>) = "ENDJOB" /\ Tail(<<"ENDJOB">>) = <<>>
        /\ Head(<<"RUNJOB_OK", "ENDJOB">>) = "RUNJOB_OK"
    OBVIOUS
  <1>2. Tail(<<"RUNJOB_OK", "ENDJOB">>) = <<"ENDJOB">>
    OBVIOUS
  <1>3. /\ Append(<<>>, "ENDJOB") = <<"ENDJOB">>
        /\ Append(<<"RUNJOB_OK">>, "ENDJOB") = <<"RUNJOB_OK", "ENDJOB">>
    <2>1. \A a, b \in {"RUNJOB_OK", "ENDJOB"} : Append(<<a>>, b) = <<a, b>>
      BY AppendPair
    <2>. QED  BY <2>1
  <1>4. /\ Len(<<>>) = 0 /\ Len(<<"RUNJOB_OK">>) = 1 /\ Len(<<"ENDJOB">>) = 1
        /\ Len(<<"RUNJOB_OK", "ENDJOB">>) = 2
        /\ <<"RUNJOB_OK">>[1] = "RUNJOB_OK" /\ <<"ENDJOB">>[1] = "ENDJOB"
    OBVIOUS
  <1>. QED  BY <1>1, <1>2, <1>3, <1>4

(* If a job runs the queue has a first one.                                *)
LEMMA RunningFacts ==
    ASSUME JobTypes, Lists
    PROVE  /\ \A j \in JobIds : job[j].state = "RUNNING" => busy_slots > 0
           /\ busy_slots > 0 => 1 \in DOMAIN firstjob /\ firstjob[1] \in JobIds
  <1>1. JobIdBound \in Nat
    BY OutputAssumption
  <1>2. IsFiniteSet(JobIds)
    BY <1>1, FS_Interval DEF JobIds
  <1>3. IsFiniteSet(Running)
    BY <1>2, FS_Subset DEF Running
  <1>4. Cardinality(Running) \in Nat /\ (Cardinality(Running) = 0 <=> Running = {})
    BY <1>3, FS_CardinalityType, FS_EmptySet
  <1>5. ASSUME NEW j \in JobIds, job[j].state = "RUNNING"
        PROVE  /\ busy_slots > 0
               /\ 1 \in DOMAIN firstjob
    <2>1. Running # {}
      BY <1>5 DEF Running
    <2>2. j \in Range(firstjob)
      BY <1>5 DEF Lists, InQueue
    <2>3. DOMAIN firstjob = 1 .. Len(firstjob) /\ Len(firstjob) \in Nat
      BY LenProperties DEF JobTypes
    <2>4. 1 \in DOMAIN firstjob
      BY <2>2, <2>3 DEF Range
    <2>. QED  BY <1>4, <2>1, <2>4 DEF busy_slots
  <1>6. busy_slots > 0 => \E j \in JobIds : job[j].state = "RUNNING"
    BY <1>4 DEF busy_slots, Running
  <1>7. \A q \in DOMAIN firstjob : firstjob[q] \in JobIds
    BY DEF JobTypes
  <1>. QED  BY <1>5, <1>6, <1>7

(* No answer names no job and no process.                                  *)
LEMMA NoAnswerFacts ==
    /\ NoAnswer \in Answer /\ NoAnswer.pids = {} /\ NoAnswer.type = ""
    /\ NoAnswer.job = -1
  BY DEF NoAnswer, Answer

(* A viewer that has not been started.                                     *)
LEMMA NoViewType == NoView \in ViewRecord
  <1>1. NoAnswer \in Answer
    BY NoAnswerFacts
  <1>2. NoView.cmd \in ViewCommand
    BY DEF NoView, ViewCommand
  <1>. QED  BY <1>1, <1>2 DEF NoView, ViewRecord

(* The empty tables satisfy the invariant.                                 *)
LEMMA InitIInv == Init => IInv
  <1> SUFFICES ASSUME Init PROVE IInv
    OBVIOUS
  <1>1. JobIdBound \in Nat
    BY OutputAssumption
  <1>2. JobTypes /\ ViewTypes
    <2>1. NoJob \in JobRecord
      BY DEF NoJob, JobRecord
    <2>2. NoView \in ViewRecord
      BY NoViewType
    <2>. QED  BY <1>1, <2>1, <2>2 DEF Init, JobTypes, ViewTypes
  <1>3. Range(<<>>) = {}
    BY DEF Range
  <1>4. Lists
    BY <1>3 DEF Init, Lists, NoJob, InQueue, Ended, IsInjective
  <1>5. Reports
    BY DEF Init, Reports, Reported, NoJob, Ended
  <1>6. Following
    <2>1. -1 \notin JobIds
      BY <1>1 DEF JobIds
    <2>2. ASSUME NEW v \in Viewers PROVE FollowsOrAsks(v)
      BY <2>1 DEF Init, FollowsOrAsks, Asking, Tails, NoView, NoAnswer
    <2>. QED  BY <2>2 DEF Following
  <1>7. Signals
    BY DEF Init, Signals, Means, NoView, NoAnswer, Targets
  <1>. QED  BY <1>2, <1>4, <1>5, <1>6, <1>7 DEF IInv, JobsInv

-----------------------------------------------------------------------------
(* What no step takes from somebody who looks at jobs: files only grow,    *)
(* those of ended jobs do not change any more, a result stays until it is  *)
(* destroyed, and a running job at the head of the queue stays there.      *)
Calm ==
    /\ destroyed \subseteq destroyed'
    /\ \A j \in JobIds :
         /\ Begun(j) => Begun(j)' /\ Len(file[j]) <= Len(file'[j])
         /\ Gone(j) => Gone(j)' /\ file'[j] = file[j]
         /\ Gone(j) /\ j \notin destroyed' =>
              job'[j].errorlevel = job[j].errorlevel
         /\ job[j].state = "RUNNING" /\ firstjob[1] = j =>
              Gone(j)' \/ (job'[j].state = "RUNNING" /\ firstjob'[1] = j)

(* Newjob, with the next id.                                               *)
LEMMA NewjobStep ==
    ASSUME JobsInv, NEW line \in JobLines, Newjob(line)
    PROVE  JobsInv' /\ Calm
  <1> DEFINE r == job'[jobids]
  <1>1. /\ jobids \in JobIds /\ jobids' = jobids + 1
        /\ \A x \in JobIds : x # jobids => job'[x] = job[x]
        /\ firstjob' = Append(firstjob, jobids)
        /\ UNCHANGED <<first_finished_job, destroyed, file>>
    BY DEF Newjob, JobsInv, JobTypes
  <1>2. /\ r \in JobRecord /\ r.state = "QUEUED" /\ r.reports = <<>>
        /\ r.proc = "none" /\ ~r.output_filename /\ ~r.announced
    <2>1. PICK pid \in Garbage :
            job' = [job EXCEPT ![jobids] =
               [NoJob EXCEPT !.state = "QUEUED", !.pid = pid,
                             !.store_output = line.store_output,
                             !.skipped = line.skipped]]
      BY DEF Newjob
    <2>2. pid \in Int
      BY <2>1, OutputAssumption
    <2>3. line.store_output \in BOOLEAN /\ line.skipped \in BOOLEAN
      BY OutputAssumption DEF JobLine
    <2>4. r = [NoJob EXCEPT !.state = "QUEUED", !.pid = pid,
                            !.store_output = line.store_output,
                            !.skipped = line.skipped]
      BY <1>1, <2>1 DEF JobsInv, JobTypes
    <2>5. r = [state |-> "QUEUED", store_output |-> line.store_output,
               skipped |-> line.skipped, pid |-> pid, output_filename |-> FALSE,
               errorlevel |-> 0, proc |-> "none", reports |-> <<>>,
               announced |-> FALSE]
      BY <2>4 DEF NoJob
    <2> HIDE DEF r
    <2>6. r \in JobRecord
      BY <2>2, <2>3, <2>5 DEF JobRecord, InQueue
    <2>. QED  BY <2>5, <2>6
  <1>3. JobTypes'
    <2>1. firstjob' \in Seq(JobIds)
      BY <1>1, AppendProperties DEF JobsInv, JobTypes
    <2>2. job' \in [JobIds -> JobRecord]
      BY <1>1, <1>2 DEF Newjob, JobsInv, JobTypes
    <2>3. jobids' \in 0 .. JobIdBound
      BY <1>1, OutputAssumption DEF JobIds
    <2>. QED  BY <1>1, <2>1, <2>2, <2>3 DEF JobsInv, JobTypes
  <1>4. job[jobids].state = "NONE" /\ jobids \notin destroyed
    BY <1>1 DEF JobsInv, Lists, JobIds
  <1>5. Lists'
    <2>1. jobids \notin Range(firstjob)
      BY <1>1, <1>4 DEF JobsInv, Lists, InQueue
    <2>2. IsInjective(firstjob') /\ Range(firstjob') = Range(firstjob) \cup {jobids}
      BY <1>1, <2>1, AppendIsInjective DEF JobsInv, JobTypes, Lists
    <2>3. \A x \in JobIds : x >= jobids' => x >= jobids /\ x # jobids
      BY <1>1 DEF JobIds
    <2>. QED  BY <1>1, <1>2, <1>4, <2>2, <2>3 DEF JobsInv, Lists, InQueue, Ended
  <1>6. Reports'
    BY <1>1, <1>2 DEF JobsInv, Reports, Reported, Ended
  <1>7. Calm
    <2>1. ~Begun(jobids) /\ ~Gone(jobids)
      BY <1>1, <1>4 DEF JobsInv, Reports, Reported, Begun, Gone, Ended
    <2>2. \A x \in Range(firstjob) : firstjob'[1] = firstjob[1]
      BY <1>1, LenProperties, AppendProperties DEF JobsInv, JobTypes, Range
    <2>3. \A x \in JobIds : job[x].state = "RUNNING" => x \in Range(firstjob)
      BY DEF JobsInv, Lists, InQueue
    <2>4. \A x \in JobIds : Len(file[x]) \in Nat
      BY LenProperties DEF JobsInv, JobTypes
    <2>. QED  BY <1>1, <1>4, <2>1, <2>2, <2>3, <2>4 DEF Calm, Begun, Gone
  <1>. QED  BY <1>3, <1>5, <1>6, <1>7 DEF JobsInv

(* A step of one job in the queue, which stays there.                      *)
LEMMA OneJobStep ==
    ASSUME JobsInv, NEW j \in JobIds, NEW r \in JobRecord, UNCHANGED jobVars,
           job' = [job EXCEPT ![j] = r],
           file' \in [JobIds -> Seq(Chars)],
           \A x \in JobIds \ {j} : file'[x] = file[x],
           job[j].state \in InQueue, r.state \in InQueue,
           job[j].state = "RUNNING" => r.state = "RUNNING",
           Reported(j)',
           job[j].proc # "none" =>
             r.proc # "none" /\ Len(file[j]) <= Len(file'[j]),
           job[j].proc = "ended" =>
             r.proc = "ended" /\ r.errorlevel = job[j].errorlevel
                /\ file'[j] = file[j]
    PROVE  JobsInv' /\ Calm
  <1>1. /\ \A x \in JobIds \ {j} : job'[x] = job[x]
        /\ job'[j] = r
        /\ job' \in [JobIds -> JobRecord]
    BY DEF JobsInv, JobTypes
  <1>2. UNCHANGED <<firstjob, first_finished_job, jobids, destroyed>>
    BY DEF jobVars
  <1>3. JobTypes'
    BY <1>1, <1>2 DEF JobsInv, JobTypes
  <1>4. Lists'
    <2>1. r.state \notin Ended /\ r.state # "NONE" /\ job[j].state \notin Ended
          /\ job[j].state # "NONE"
      BY DEF InQueue, Ended
    <2>. QED  BY <1>1, <1>2, <2>1 DEF JobsInv, Lists
  <1>5. Reports'
    <2>1. ASSUME NEW x \in JobIds, x # j PROVE Reported(x)'
      BY <1>1, <2>1 DEF JobsInv, Reports, Reported
    <2>. QED  BY <2>1 DEF Reports
  <1>6. Calm
    <2>1. j \notin destroyed
      BY DEF JobsInv, Lists, InQueue
    <2>2. \A x \in JobIds : Len(file[x]) \in Nat
      BY LenProperties DEF JobsInv, JobTypes
    <2>3. ASSUME NEW x \in JobIds
          PROVE  /\ Begun(x) => Begun(x)' /\ Len(file[x]) <= Len(file'[x])
                 /\ Gone(x) => Gone(x)' /\ file'[x] = file[x]
                 /\ Gone(x) => job'[x].errorlevel = job[x].errorlevel
                 /\ job[x].state = "RUNNING" => job'[x].state = "RUNNING"
      <3>1. CASE x = j
        BY <1>1, <1>2, <2>1, <3>1 DEF Begun, Gone
      <3>2. CASE x # j
        BY <1>1, <1>2, <2>2, <3>2 DEF Begun, Gone
      <3>. QED  BY <3>1, <3>2
    <2>. QED  BY <1>2, <2>3 DEF Calm
  <1>. QED  BY <1>3, <1>4, <1>5, <1>6 DEF JobsInv

(* The first queued job gets RUNJOB.                                       *)
LEMMA RunjobStep ==
    ASSUME JobsInv, Runjob
    PROVE  JobsInv' /\ Calm
  <1>1. PICK q \in DOMAIN firstjob :
               /\ job[firstjob[q]].state = "QUEUED"
               /\ job' = [job EXCEPT ![firstjob[q]].state = "RUNNING"]
    BY DEF Runjob
  <1>2. PICK j \in JobIds : j = firstjob[q]
    BY DEF JobsInv, JobTypes
  <1>3. PICK r : r = [job[j] EXCEPT !.state = "RUNNING"]
    OBVIOUS
  <1>4. job[j] \in JobRecord /\ job[j].state = "QUEUED"
    BY <1>1, <1>2 DEF JobsInv, JobTypes
  <1>5. r \in JobRecord
    BY <1>3, <1>4 DEF JobRecord, InQueue
  <1>6. /\ r.state = "RUNNING" /\ r.proc = job[j].proc
        /\ r.reports = job[j].reports /\ r.output_filename = job[j].output_filename
        /\ r.errorlevel = job[j].errorlevel /\ r.announced = job[j].announced
        /\ r.pid = job[j].pid /\ r.skipped = job[j].skipped
    BY <1>3, <1>4 DEF JobRecord
  <1>7. job' = [job EXCEPT ![j] = r] /\ job'[j] = r
    BY <1>1, <1>2, <1>3 DEF JobsInv, JobTypes
  <1>8. Reported(j)'
    BY <1>4, <1>6, <1>7 DEF JobsInv, Reports, Reported, Ended
  <1>9. UNCHANGED jobVars /\ UNCHANGED file
    BY DEF Runjob
  <1>10. Len(file[j]) \in Nat
    BY LenProperties DEF JobsInv, JobTypes
  <1>11. /\ file' \in [JobIds -> Seq(Chars)]
         /\ \A x \in JobIds : file'[x] = file[x]
    BY <1>9 DEF JobsInv, JobTypes
  <1>12. job[j].state \in InQueue /\ r.state \in InQueue
    BY <1>4, <1>6 DEF InQueue
  <1>13. Len(file[j]) <= Len(file'[j])
    BY <1>10, <1>11
  <1>. QED
    BY <1>5, <1>6, <1>7, <1>8, <1>9, <1>11, <1>12, <1>13, OneJobStep

(* The client makes the file and starts the command, or skips the job.     *)
LEMMA RunChildStep ==
    ASSUME JobsInv, NEW j \in JobIds, RunChild(j)
    PROVE  JobsInv' /\ Calm
  <1>1. /\ job[j] \in JobRecord /\ job[j].state = "RUNNING"
        /\ job[j].proc = "none" /\ UNCHANGED jobVars
    BY DEF RunChild, JobsInv, JobTypes
  <1>2. ~job[j].output_filename
    BY <1>1 DEF JobsInv, Reports, Reported
  <1>3. CASE ~job[j].skipped
    <2>1. PICK r : r = [job[j] EXCEPT !.proc = "running",
                                      !.reports = <<"RUNJOB_OK">>]
      OBVIOUS
    <2>2. r \in JobRecord
      BY <1>1, <2>1 DEF JobRecord
    <2>3. /\ r.state = "RUNNING" /\ r.proc = "running"
          /\ r.reports = <<"RUNJOB_OK">> /\ r.pid = job[j].pid
          /\ r.skipped = job[j].skipped /\ r.announced = job[j].announced
      BY <1>1, <2>1 DEF JobRecord
    <2>4. job' = [job EXCEPT ![j].proc = "running",
                             ![j].reports = <<"RUNJOB_OK">>]
      BY <1>3 DEF RunChild
    <2>5. job' = [job EXCEPT ![j] = r] /\ job'[j] = r
      BY <1>1, <2>1, <2>4 DEF JobsInv, JobTypes
    <2>6. Reported(j)'
      BY <1>3, <2>3, <2>5, ReportFacts DEF Reported, Ended, JobsInv, Reports
    <2>7. PICK text \in Seq(Chars) : file' = [file EXCEPT ![j] = text]
      <3>1. <<"nl">> \in Seq(Chars) /\ <<>> \in Seq(Chars)
        BY DEF Chars
      <3>. QED  BY <1>3, <3>1 DEF RunChild
    <2>8. /\ file' \in [JobIds -> Seq(Chars)]
          /\ \A x \in JobIds \ {j} : file'[x] = file[x]
      BY <2>7 DEF JobsInv, JobTypes
    <2>. QED  BY <1>1, <2>2, <2>3, <2>5, <2>6, <2>8, OneJobStep DEF InQueue
  <1>4. CASE job[j].skipped
    <2>1. PICK r : r = [job[j] EXCEPT !.proc = "ended", !.errorlevel = -1,
                          !.reports = <<"RUNJOB_OK", "ENDJOB">>]
      OBVIOUS
    <2>2. r \in JobRecord
      <3>1. /\ job[j].state \in InQueue \cup Ended \cup {"NONE"}
            /\ job[j].store_output \in BOOLEAN /\ job[j].skipped \in BOOLEAN
            /\ job[j].pid \in Int /\ job[j].announced \in BOOLEAN
            /\ job[j].output_filename \in BOOLEAN
        BY <1>1 DEF JobRecord
      <3>2. r = [state |-> job[j].state, store_output |-> job[j].store_output,
                 skipped |-> job[j].skipped, pid |-> job[j].pid,
                 output_filename |-> job[j].output_filename,
                 errorlevel |-> -1, proc |-> "ended",
                 reports |-> <<"RUNJOB_OK", "ENDJOB">>,
                 announced |-> job[j].announced]
        BY <1>1, <2>1 DEF JobRecord
      <3>. QED  BY <3>1, <3>2 DEF JobRecord
    <2>3. /\ r.state = "RUNNING" /\ r.proc = "ended"
          /\ r.reports = <<"RUNJOB_OK", "ENDJOB">> /\ r.pid = job[j].pid
          /\ r.skipped = job[j].skipped /\ r.announced = job[j].announced
      BY <1>1, <2>1 DEF JobRecord
    <2>4. /\ job' = [job EXCEPT ![j].proc = "ended", ![j].errorlevel = -1,
                                ![j].reports = <<"RUNJOB_OK", "ENDJOB">>]
          /\ UNCHANGED file
      BY <1>4 DEF RunChild
    <2>5. job' = [job EXCEPT ![j] = r] /\ job'[j] = r
      BY <1>1, <2>1, <2>4 DEF JobsInv, JobTypes
    <2>6. Reported(j)'
      BY <2>3, <2>5, ReportFacts DEF Reported, Ended, JobsInv, Reports
    <2>. QED  BY <1>1, <2>2, <2>3, <2>4, <2>5, <2>6, OneJobStep
              DEF InQueue, JobsInv, JobTypes
  <1>. QED  BY <1>3, <1>4

(* The command writes to the file of a job that has not ended.             *)
LEMMA WriteStep ==
    ASSUME JobsInv, NEW j \in JobIds, NEW ch \in Chars, Write(j, ch)
    PROVE  JobsInv' /\ Calm
  <1>1. /\ job[j].proc = "running" /\ UNCHANGED jobVars /\ job' = job
        /\ file' = [file EXCEPT ![j] = Append(file[j], ch)]
    BY DEF Write
  <1>2. /\ Append(file[j], ch) \in Seq(Chars)
        /\ Len(Append(file[j], ch)) = Len(file[j]) + 1
        /\ Len(file[j]) \in Nat
    BY AppendProperties, LenProperties DEF JobsInv, JobTypes
  <1>3. /\ file' \in [JobIds -> Seq(Chars)]
        /\ file'[j] = Append(file[j], ch)
        /\ \A x \in JobIds \ {j} : file'[x] = file[x]
    BY <1>1, <1>2 DEF JobsInv, JobTypes
  <1>4. PICK r \in JobRecord : r = job[j]
    BY DEF JobsInv, JobTypes
  <1>5. /\ job' = [job EXCEPT ![j] = r]
        /\ Reported(j)'
    BY <1>1, <1>4 DEF JobsInv, JobTypes, Reports, Reported
  <1>6. r.proc = "running" /\ r.state = "RUNNING"
    BY <1>1, <1>4 DEF JobsInv, Reports, Reported, Ended
  <1>7. Len(file[j]) <= Len(file'[j])
    BY <1>2, <1>3
  <1>. QED  BY <1>1, <1>3, <1>4, <1>5, <1>6, <1>7, OneJobStep DEF InQueue

(* The command ends, and ENDJOB is behind what the client has sent.        *)
LEMMA ExitsStep ==
    ASSUME JobsInv, NEW j \in JobIds, NEW errorlevel \in ExitCodes,
           Exits(j, errorlevel)
    PROVE  JobsInv' /\ Calm
  <1>1. /\ job[j].proc = "running" /\ UNCHANGED jobVars /\ UNCHANGED file
        /\ job' = [job EXCEPT ![j].proc = "ended", ![j].errorlevel = errorlevel,
                              ![j].reports = Append(@, "ENDJOB")]
    BY DEF Exits
  <1>2. /\ job[j] \in JobRecord /\ file \in [JobIds -> Seq(Chars)]
        /\ errorlevel \in Int
    BY OutputAssumption DEF JobsInv, JobTypes
  <1>3. job[j].state = "RUNNING" /\ job[j].reports \in {<<>>, <<"RUNJOB_OK">>}
    BY <1>1, <1>2 DEF JobsInv, Reports, Reported, Ended, JobRecord
  <1>4. PICK reports : reports = Append(job[j].reports, "ENDJOB")
    OBVIOUS
  <1>5. reports \in {<<"ENDJOB">>, <<"RUNJOB_OK", "ENDJOB">>}
    BY <1>3, <1>4, ReportFacts
  <1>6. PICK r : r = [job[j] EXCEPT !.proc = "ended", !.errorlevel = errorlevel,
                                    !.reports = reports]
    OBVIOUS
  <1>7. r \in JobRecord
    <2>1. /\ job[j].state \in InQueue \cup Ended \cup {"NONE"}
          /\ job[j].store_output \in BOOLEAN /\ job[j].skipped \in BOOLEAN
          /\ job[j].pid \in Int /\ job[j].announced \in BOOLEAN
          /\ job[j].output_filename \in BOOLEAN
      BY <1>2 DEF JobRecord
    <2>2. r = [state |-> job[j].state, store_output |-> job[j].store_output,
               skipped |-> job[j].skipped, pid |-> job[j].pid,
               output_filename |-> job[j].output_filename,
               errorlevel |-> errorlevel, proc |-> "ended",
               reports |-> reports, announced |-> job[j].announced]
      BY <1>2, <1>6 DEF JobRecord
    <2>. QED  BY <1>2, <1>5, <2>1, <2>2 DEF JobRecord
  <1>8. /\ r.state = "RUNNING" /\ r.proc = "ended" /\ r.reports = reports
        /\ r.pid = job[j].pid
        /\ r.skipped = job[j].skipped /\ r.announced = job[j].announced
    BY <1>2, <1>3, <1>6 DEF JobRecord
  <1>9. job' = [job EXCEPT ![j] = r] /\ job'[j] = r
    BY <1>1, <1>2, <1>4, <1>6 DEF JobsInv, JobTypes
  <1>10. Reported(j)'
    BY <1>5, <1>8, <1>9, ReportFacts DEF Reported, Ended, JobsInv, Reports
  <1>11. /\ file' \in [JobIds -> Seq(Chars)]
         /\ \A x \in JobIds : file'[x] = file[x]
         /\ Len(file[j]) <= Len(file'[j])
    BY <1>1, <1>2, LenProperties
  <1>. QED  BY <1>1, <1>3, <1>7, <1>8, <1>9, <1>10, <1>11, OneJobStep DEF InQueue

(* The server learns of the process and of the file.                       *)
LEMMA RunjobOkStep ==
    ASSUME JobsInv, NEW j \in JobIds, RunjobOk(j)
    PROVE  JobsInv' /\ Calm
  <1>1. PICK pid, name, reports :
          /\ pid = IF job[j].skipped THEN -1 ELSE Pid(j)
          /\ name = (~job[j].skipped /\ job[j].store_output)
          /\ reports = Tail(job[j].reports)
    OBVIOUS
  <1>2. /\ job[j].reports # <<>> /\ Head(job[j].reports) = "RUNJOB_OK"
        /\ UNCHANGED jobVars /\ UNCHANGED file
        /\ job' = [job EXCEPT ![j].pid = pid, ![j].output_filename = name,
                              ![j].announced = TRUE, ![j].reports = reports]
    BY <1>1 DEF RunjobOk
  <1>3. job[j] \in JobRecord /\ file \in [JobIds -> Seq(Chars)]
    BY DEF JobsInv, JobTypes
  <1>4. job[j].state = "RUNNING" /\ job[j].proc # "none"
    BY <1>2 DEF JobsInv, Reports, Reported
  <1>5. job[j].reports \in {<<"RUNJOB_OK">>, <<"RUNJOB_OK", "ENDJOB">>}
    BY <1>2, <1>3, ReportFacts DEF JobRecord
  <1>6. /\ reports \in {<<>>, <<"ENDJOB">>}
        /\ reports = <<"ENDJOB">> => job[j].proc = "ended"
    BY <1>1, <1>5, ReportFacts DEF JobsInv, Reports, Reported
  <1>7. pid \in Int /\ name \in BOOLEAN
    BY <1>1 DEF Pid, JobIds
  <1>8. PICK r : r = [job[j] EXCEPT !.pid = pid, !.output_filename = name,
                                    !.announced = TRUE, !.reports = reports]
    OBVIOUS
  <1>9. r \in JobRecord
    <2>1. /\ job[j].state \in InQueue \cup Ended \cup {"NONE"}
          /\ job[j].store_output \in BOOLEAN /\ job[j].skipped \in BOOLEAN
          /\ job[j].errorlevel \in Int
          /\ job[j].proc \in {"none", "running", "ended"}
      BY <1>3 DEF JobRecord
    <2>2. r = [state |-> job[j].state, store_output |-> job[j].store_output,
               skipped |-> job[j].skipped, pid |-> pid,
               output_filename |-> name,
               errorlevel |-> job[j].errorlevel, proc |-> job[j].proc,
               reports |-> reports, announced |-> TRUE]
      BY <1>3, <1>8 DEF JobRecord
    <2>. QED  BY <1>6, <1>7, <2>1, <2>2 DEF JobRecord
  <1>10. /\ r.state = "RUNNING" /\ r.proc = job[j].proc /\ r.reports = reports
         /\ r.errorlevel = job[j].errorlevel /\ r.pid = pid
         /\ r.skipped = job[j].skipped
    BY <1>3, <1>4, <1>8 DEF JobRecord
  <1>11. job' = [job EXCEPT ![j] = r] /\ job'[j] = r
    BY <1>2, <1>3, <1>8 DEF JobsInv, JobTypes
  <1>12. Reported(j)'
    BY <1>1, <1>4, <1>6, <1>10, <1>11, ReportFacts
       DEF Reported, Ended, JobsInv, Reports
  <1>13. /\ file' \in [JobIds -> Seq(Chars)]
         /\ \A x \in JobIds : file'[x] = file[x]
         /\ Len(file[j]) <= Len(file'[j])
    BY <1>2, <1>3, LenProperties
  <1>. QED  BY <1>2, <1>4, <1>9, <1>10, <1>11, <1>12, <1>13, OneJobStep DEF InQueue

(* A job goes from the queue to the results, with the result reported.     *)
LEMMA EndJobStep ==
    ASSUME JobsInv, NEW j \in JobIds, EndJob(j)
    PROVE  JobsInv' /\ Calm
  <1>1. PICK state, reports :
          /\ state = IF job[j].skipped THEN "SKIPPED" ELSE "FINISHED"
          /\ reports = Tail(job[j].reports)
    OBVIOUS
  <1>2. /\ job[j].reports # <<>> /\ Head(job[j].reports) = "ENDJOB"
        /\ job' = [job EXCEPT ![j].state = state, ![j].reports = reports]
        /\ first_finished_job' = Append(first_finished_job, j)
        /\ UNCHANGED <<jobids, destroyed, file>>
    BY <1>1 DEF EndJob
  <1>3. PICK q \in DOMAIN firstjob :
          firstjob[q] = j /\ firstjob' = RemoveAt(firstjob, q)
    BY DEF EndJob
  <1>4. /\ job[j] \in JobRecord /\ job[j].state = "RUNNING"
        /\ job[j].reports = <<"ENDJOB">> /\ job[j].proc = "ended"
    <2>1. job[j] \in JobRecord
      BY DEF JobsInv, JobTypes
    <2>2. job[j].state = "RUNNING"
      BY <1>2 DEF JobsInv, Reports, Reported
    <2>3. job[j].reports = <<"ENDJOB">>
      BY <1>2, <2>1, ReportFacts DEF JobRecord
    <2>. QED  BY <2>1, <2>2, <2>3 DEF JobsInv, Reports, Reported
  <1>5. reports = <<>> /\ state \in Ended
    BY <1>1, <1>4, ReportFacts DEF Ended
  <1>6. PICK r : r = [job[j] EXCEPT !.state = state, !.reports = reports]
    OBVIOUS
  <1>7. r \in JobRecord
    BY <1>4, <1>5, <1>6 DEF JobRecord
  <1>8. /\ r.state = state /\ r.reports = reports /\ r.proc = "ended"
        /\ r.errorlevel = job[j].errorlevel
        /\ r.output_filename = job[j].output_filename /\ r.pid = job[j].pid
        /\ r.skipped = job[j].skipped /\ r.announced = job[j].announced
    BY <1>4, <1>6 DEF JobRecord
  <1>9. /\ job' = [job EXCEPT ![j] = r] /\ job'[j] = r
        /\ \A x \in JobIds \ {j} : job'[x] = job[x]
    BY <1>2, <1>4, <1>6 DEF JobsInv, JobTypes
  <1>10. /\ firstjob' \in Seq(JobIds) /\ IsInjective(firstjob')
         /\ Range(firstjob') = Range(firstjob) \ {j}
    BY <1>3, RemoveAtSeq, RemoveAtInjective DEF JobsInv, JobTypes, Lists
  <1>11. /\ first_finished_job' \in Seq(JobIds)
         /\ Range(first_finished_job') = Range(first_finished_job) \cup {j}
    BY <1>2, RangeOfAppend DEF JobsInv, JobTypes
  <1>12. JobTypes'
    BY <1>2, <1>7, <1>9, <1>10, <1>11 DEF JobsInv, JobTypes
  <1>13. Lists'
    <2>1. ~(j >= jobids) /\ j \notin destroyed
      BY <1>4 DEF JobsInv, Lists
    <2>2. r.state \notin InQueue /\ r.state # "NONE"
      BY <1>5, <1>8 DEF InQueue, Ended
    <2>. QED  BY <1>2, <1>5, <1>8, <1>9, <1>10, <1>11, <2>1, <2>2 DEF JobsInv, Lists
  <1>14. Reports'
    <2>1. ASSUME NEW x \in JobIds, x # j PROVE Reported(x)'
      BY <1>9, <2>1 DEF JobsInv, Reports, Reported
    <2>2. Reported(j)'
      BY <1>5, <1>8, <1>9, ReportFacts DEF Reported, Ended, JobsInv, Reports
    <2>. QED  BY <2>1, <2>2 DEF Reports
  <1>15. Calm
    <2>1. ASSUME NEW x \in JobIds, x # j, job[x].state = "RUNNING", firstjob[1] = x
          PROVE  firstjob'[1] = x
      <3>1. x \in Range(firstjob)
        BY <2>1 DEF JobsInv, Lists, InQueue
      <3>2. DOMAIN firstjob = 1 .. Len(firstjob) /\ Len(firstjob) \in Nat
        BY LenProperties DEF JobsInv, JobTypes
      <3>3. q \in 1 .. Len(firstjob) /\ q # 1
        BY <1>3, <2>1, <3>2
      <3>4. 1 \in 1 .. (Len(firstjob) - 1) /\ 1 < q
        BY <3>2, <3>3
      <3>. QED  BY <1>3, <2>1, <3>4, RemoveAtSeq DEF JobsInv, JobTypes
    <2>2. Gone(j)' /\ Begun(j)'
      BY <1>8, <1>9 DEF Gone, Begun
    <2>3. \A x \in JobIds : Len(file[x]) \in Nat
      BY LenProperties DEF JobsInv, JobTypes
    <2>4. ASSUME NEW x \in JobIds
          PROVE  /\ Begun(x) => Begun(x)' /\ Len(file[x]) <= Len(file'[x])
                 /\ Gone(x) => Gone(x)' /\ file'[x] = file[x]
                 /\ job'[x].errorlevel = job[x].errorlevel
      <3>1. CASE x = j
        BY <1>2, <1>8, <1>9, <2>2, <2>3, <3>1
      <3>2. CASE x # j
        <4>1. job'[x] = job[x] /\ file'[x] = file[x] /\ destroyed' = destroyed
          BY <1>2, <1>9, <3>2
        <4>. QED  BY <2>3, <4>1 DEF Gone, Begun
      <3>. QED  BY <3>1, <3>2
    <2>. QED  BY <1>2, <1>9, <2>1, <2>2, <2>4 DEF Calm
  <1>. QED  BY <1>12, <1>13, <1>14, <1>15 DEF JobsInv

(* The results are forgotten, and nothing else.                            *)
LEMMA ClearFinishedStep ==
    ASSUME JobsInv, ClearFinished
    PROVE  JobsInv' /\ Calm
  <1>1. /\ destroyed' = destroyed \cup Range(first_finished_job)
        /\ \A x \in JobIds :
             job'[x] = IF x \in Range(first_finished_job) THEN NoJob ELSE job[x]
        /\ first_finished_job' = <<>>
        /\ UNCHANGED <<firstjob, jobids, file>>
    BY DEF ClearFinished
  <1>2. NoJob \in JobRecord
    BY DEF NoJob, JobRecord
  <1>3. \A x \in JobIds :
          x \in Range(first_finished_job) <=> job[x].state \in Ended
    BY DEF JobsInv, Lists
  <1>4. JobTypes'
    <2>1. Range(first_finished_job) \subseteq JobIds
      BY DEF JobsInv, JobTypes, Range
    <2>2. job' \in [JobIds -> JobRecord]
      BY <1>1, <1>2 DEF ClearFinished, JobsInv, JobTypes
    <2>. QED  BY <1>1, <2>1, <2>2 DEF JobsInv, JobTypes
  <1>5. Lists'
    <2>1. Range(<<>>) = {}
      BY DEF Range
    <2>2. NoJob.state = "NONE"
      BY DEF NoJob
    <2>3. "NONE" \notin Ended /\ "NONE" \notin InQueue
          /\ \A state \in Ended : state \notin InQueue /\ state # "NONE"
      BY DEF Ended, InQueue
    <2>4. ASSUME NEW x \in JobIds
          PROVE  /\ job'[x].state \in InQueue <=> x \in Range(firstjob')
                 /\ job'[x].state \in Ended <=> x \in Range(first_finished_job')
                 /\ x >= jobids' => job'[x].state = "NONE" /\ x \notin destroyed'
                 /\ x \in destroyed' => job'[x].state = "NONE"
      <3>1. CASE x \in Range(first_finished_job)
        BY <1>1, <1>3, <2>1, <2>2, <2>3, <3>1 DEF JobsInv, Lists
      <3>2. CASE x \notin Range(first_finished_job)
        BY <1>1, <1>3, <2>1, <2>2, <2>3, <3>2 DEF JobsInv, Lists
      <3>. QED  BY <3>1, <3>2
    <2>. QED  BY <1>1, <2>4 DEF JobsInv, Lists
  <1>6. Reports'
    <2>1. /\ NoJob.state = "NONE" /\ NoJob.proc = "none" /\ NoJob.reports = <<>>
          /\ ~NoJob.output_filename /\ ~NoJob.announced
      BY DEF NoJob
    <2>2. ASSUME NEW x \in JobIds PROVE Reported(x)'
      <3>1. CASE x \in Range(first_finished_job)
        BY <1>1, <2>1, <3>1, ReportFacts DEF Reported, Ended
      <3>2. CASE x \notin Range(first_finished_job)
        BY <1>1, <3>2 DEF JobsInv, Reports, Reported
      <3>. QED  BY <3>1, <3>2
    <2>. QED  BY <2>2 DEF Reports
  <1>7. Calm
    <2>1. \A x \in JobIds : Len(file[x]) \in Nat
      BY LenProperties DEF JobsInv, JobTypes
    <2>2. \A x \in JobIds : job[x].state = "RUNNING" => job'[x] = job[x]
      BY <1>1, <1>3 DEF Ended
    <2>. QED  BY <1>1, <2>1, <2>2 DEF Calm, Begun, Gone
  <1>. QED  BY <1>4, <1>5, <1>6, <1>7 DEF JobsInv

-----------------------------------------------------------------------------
(* One round of the loop of seek_at_last_lines, where f is what the rounds *)
(* after it find.                                                          *)
Begin(l) == IF l < BSIZE THEN 0 ELSE l - BSIZE

EndsBehind(text, n) == {m \in NewLines(text) : m > n}

Round(text, lines, f, l) ==
    IF l = 0 THEN 0
    ELSE IF Cardinality(EndsBehind(text, Begin(l))) < lines THEN f[Begin(l)]
    ELSE IF Cardinality(EndsBehind(text, Begin(l))) = lines THEN Begin(l)
    ELSE CHOOSE n \in NewLines(text) : Cardinality(EndsBehind(text, n)) = lines

(* The first rounds, up to the one that begins in m.                       *)
Rounds(text, lines, f, m) ==
    f = [l \in 0 .. m |-> Round(text, lines, f, l)]

(* Each block begins before it ends.                                       *)
LEMMA BeginFacts ==
    ASSUME NEW l \in Nat
    PROVE  Begin(l) \in 0 .. l /\ (l # 0 => Begin(l) < l)
  BY OutputAssumption DEF Begin

(* The loop ends wherever it begins: there is such a function.             *)
LEMMA RoundsExist ==
    ASSUME NEW text, NEW lines, NEW m \in Nat
    PROVE  \E f : Rounds(text, lines, f, m)
  <1> DEFINE T == {n \in Nat : ~\E f : Rounds(text, lines, f, n)}
  <1>1. SUFFICES ASSUME T # {} PROVE FALSE
    OBVIOUS
  <1>2. PICK n \in T : \A k \in T : n <= k
    BY <1>1, LeastOf
  <1>3. n \in Nat /\ ~\E f : Rounds(text, lines, f, n)
    BY <1>2
  <1>4. CASE n = 0
    <2>1. PICK f : f = [l \in 0 .. 0 |-> 0]
      OBVIOUS
    <2>2. f = [l \in 0 .. 0 |-> Round(text, lines, f, l)]
      BY <2>1 DEF Round
    <2>. QED  BY <1>3, <1>4, <2>2 DEF Rounds
  <1>5. CASE n # 0
    <2>1. n - 1 \in Nat /\ ~(n <= n - 1)
      BY <1>3, <1>5
    <2>2. PICK g : Rounds(text, lines, g, n - 1)
      BY <1>2, <2>1
    <2>3. PICK f : f = [l \in 0 .. n |-> IF l = n THEN Round(text, lines, g, n)
                                        ELSE g[l]]
      OBVIOUS
    <2>4. ASSUME NEW l \in 0 .. n
          PROVE  f[l] = Round(text, lines, f, l)
      <3>1. l \in Nat /\ Begin(l) \in 0 .. l /\ (l # 0 => Begin(l) < l)
        BY BeginFacts
      <3>2. f[l] = Round(text, lines, g, l)
        BY <1>3, <2>2, <2>3 DEF Rounds
      <3>3. l # 0 => f[Begin(l)] = g[Begin(l)]
        BY <1>3, <2>3, <3>1
      <3>. QED  BY <3>2, <3>3 DEF Round
    <2>5. Rounds(text, lines, f, n)
      BY <2>3, <2>4 DEF Rounds
    <2>. QED  BY <1>3, <2>5
  <1>. QED  BY <1>4, <1>5

(* SeekBack is what its rounds say.                                        *)
LEMMA SeekBackRounds ==
    ASSUME NEW text \in Seq(Chars), NEW lines,
           NEW l \in 0 .. Len(text)
    PROVE  SeekBack(text, lines)[l] = Round(text, lines, SeekBack(text, lines), l)
  <1>1. Len(text) \in Nat
    BY LenProperties
  <1>2. SeekBack(text, lines) = CHOOSE f : Rounds(text, lines, f, Len(text))
    BY DEF SeekBack, Rounds, Round, EndsBehind, Begin
  <1>3. Rounds(text, lines, SeekBack(text, lines), Len(text))
    BY <1>1, <1>2, RoundsExist
  <1>. QED  BY <1>3 DEF Rounds

(* The line ends behind a place become fewer towards the end of the file.  *)
LEMMA EndsFacts ==
    ASSUME NEW text \in Seq(Chars)
    PROVE  /\ IsFiniteSet(NewLines(text)) /\ Cardinality(NewLines(text)) \in Nat
           /\ NewLines(text) \subseteq 1 .. Len(text)
           /\ EndsBehind(text, 0) = NewLines(text)
           /\ Cardinality(EndsBehind(text, Len(text))) = 0
           /\ \A n \in Nat :
                /\ IsFiniteSet(EndsBehind(text, n))
                /\ Cardinality(EndsBehind(text, n)) \in Nat
                /\ Cardinality(EndsBehind(text, n)) <= Cardinality(NewLines(text))
  <1>1. Len(text) \in Nat /\ DOMAIN text = 1 .. Len(text)
    BY LenProperties
  <1>2. NewLines(text) \subseteq 1 .. Len(text)
    BY <1>1 DEF NewLines
  <1>3. IsFiniteSet(NewLines(text))
    <2>1. IsFiniteSet(1 .. Len(text))
      BY <1>1, FS_Interval, 1 \in Int, Len(text) \in Int
    <2>. QED  BY <1>2, <2>1, FS_Subset
  <1>4. Cardinality(NewLines(text)) \in Nat
    BY <1>3, FS_CardinalityType
  <1>5. EndsBehind(text, 0) = NewLines(text)
    BY <1>1, <1>2 DEF EndsBehind
  <1>6. EndsBehind(text, Len(text)) = {}
    BY <1>1, <1>2 DEF EndsBehind
  <1>7. Cardinality(EndsBehind(text, Len(text))) = 0
    BY <1>6, FS_EmptySet
  <1>8. ASSUME NEW n \in Nat
        PROVE  /\ IsFiniteSet(EndsBehind(text, n))
               /\ Cardinality(EndsBehind(text, n)) \in Nat
               /\ Cardinality(EndsBehind(text, n)) <= Cardinality(NewLines(text))
    <2>1. EndsBehind(text, n) \in SUBSET NewLines(text)
      BY DEF EndsBehind
    <2>2. /\ IsFiniteSet(EndsBehind(text, n))
          /\ Cardinality(EndsBehind(text, n)) <= Cardinality(NewLines(text))
      BY <1>3, <2>1, FS_Subset
    <2>. QED  BY <2>2, FS_CardinalityType
  <1>. QED  BY <1>2, <1>3, <1>4, <1>5, <1>7, <1>8

(* If more than lines line ends are behind some place, one of them has     *)
(* exactly lines behind it.                                                *)
LEMMA SomeEnd ==
    ASSUME NEW text \in Seq(Chars), NEW lines \in Nat, NEW begin \in Nat,
           Cardinality(EndsBehind(text, begin)) > lines
    PROVE  \E n \in NewLines(text) : Cardinality(EndsBehind(text, n)) = lines
  <1>0. Len(text) \in Nat
    BY LenProperties
  <1> DEFINE T == {n \in Nat : Cardinality(EndsBehind(text, n)) <= lines}
  <1>1. Len(text) \in T
    BY <1>0, EndsFacts
  <1>2. PICK n \in T : \A k \in T : n <= k
    BY <1>1, LeastOf
  <1>3. n \in Nat /\ Cardinality(EndsBehind(text, n)) <= lines
    BY <1>2
  <1>4. n # 0
    <2>1. Cardinality(EndsBehind(text, begin)) <= Cardinality(NewLines(text))
      BY EndsFacts
    <2>2. /\ Cardinality(NewLines(text)) \in Nat
          /\ Cardinality(EndsBehind(text, begin)) \in Nat
      BY EndsFacts
    <2>3. Cardinality(NewLines(text)) > lines
      BY <2>1, <2>2
    <2>4. Cardinality(EndsBehind(text, 0)) > lines
      BY <2>3, EndsFacts
    <2>. QED  BY <1>3, <2>2, <2>4, EndsFacts
  <1>5. n - 1 \in Nat /\ ~(n <= n - 1)
    BY <1>3, <1>4
  <1>6. ~(Cardinality(EndsBehind(text, n - 1)) <= lines)
    BY <1>2, <1>5
  <1>7. NewLines(text) \subseteq Nat
    BY <1>0, EndsFacts
  <1>8. n \in NewLines(text)
    <2>1. SUFFICES ASSUME n \notin NewLines(text) PROVE FALSE
      OBVIOUS
    <2>2. \A k \in NewLines(text) : k > n - 1 <=> k > n
      BY <1>3, <1>7, <2>1
    <2>3. EndsBehind(text, n - 1) = EndsBehind(text, n)
      BY <2>2 DEF EndsBehind
    <2>. QED  BY <1>3, <1>6, <2>3
  <1>9. Cardinality(EndsBehind(text, n - 1)) = Cardinality(EndsBehind(text, n)) + 1
    <2>1. \A k \in NewLines(text) : k > n - 1 <=> k > n \/ k = n
      BY <1>3, <1>7
    <2>2. EndsBehind(text, n - 1) = EndsBehind(text, n) \cup {n}
      BY <1>8, <2>1 DEF EndsBehind
    <2>3. n \notin EndsBehind(text, n)
      BY <1>3 DEF EndsBehind
    <2>4. IsFiniteSet(EndsBehind(text, n))
      BY <1>3, EndsFacts
    <2>. QED  BY <2>2, <2>3, <2>4, FS_AddElement
  <1>10. Cardinality(EndsBehind(text, n)) \in Nat
    BY <1>3, EndsFacts
  <1>11. Cardinality(EndsBehind(text, n)) = lines
    BY <1>3, <1>6, <1>9, <1>10
  <1>. QED  BY <1>8, <1>11

(* The line ends behind a place: lines of them, or all; and a line begins  *)
(* there, or a block is left.                                              *)
Enough(text, lines, n) ==
    /\ n \in 0 .. Len(text)
    /\ Cardinality(EndsBehind(text, n)) =
         IF Cardinality(NewLines(text)) < lines THEN Cardinality(NewLines(text))
         ELSE lines
    /\ LineStart(text, n) \/ Len(text) - n >= BSIZE

(* The loop ends at the right place if it begins with too few line ends.   *)
LEMMA SeekBackEnough ==
    ASSUME NEW text \in Seq(Chars), NEW lines \in Nat, NEW l \in 0 .. Len(text),
           Cardinality(EndsBehind(text, l)) < lines
    PROVE  Enough(text, lines, SeekBack(text, lines)[l])
  <1>0. Len(text) \in Nat
    BY LenProperties
  <1> DEFINE Few(n) == Cardinality(EndsBehind(text, n)) < lines
             f == SeekBack(text, lines)
             T == {n \in 0 .. Len(text) : Few(n) /\ ~Enough(text, lines, f[n])}
  <1>1. SUFFICES ASSUME T # {} PROVE FALSE
    OBVIOUS
  <1>2. T \subseteq Nat
    BY <1>0
  <1>3. PICK n \in T : \A k \in T : n <= k
    BY <1>1, <1>2, LeastOf
  <1>4. n \in 0 .. Len(text) /\ n \in Nat /\ Few(n) /\ ~Enough(text, lines, f[n])
    BY <1>0, <1>3
  <1>5. f[n] = Round(text, lines, f, n)
    BY <1>4, SeekBackRounds
  <1>6. /\ Cardinality(NewLines(text)) \in Nat
        /\ \A k \in Nat : /\ Cardinality(EndsBehind(text, k)) \in Nat
                          /\ Cardinality(EndsBehind(text, k)) <=
                               Cardinality(NewLines(text))
    BY EndsFacts
  <1>7. CASE n = 0
    <2>1. f[n] = 0
      BY <1>5, <1>7 DEF Round
    <2>2. Cardinality(EndsBehind(text, 0)) = Cardinality(NewLines(text))
      BY EndsFacts
    <2>. QED  BY <1>0, <1>4, <1>7, <2>1, <2>2 DEF Enough, LineStart
  <1>8. CASE n # 0
    <2>0. PICK b : b = Begin(n)
      OBVIOUS
    <2>1. b \in Nat /\ b < n /\ b \in 0 .. Len(text)
      BY <1>0, <1>4, <1>8, <2>0, BeginFacts
    <2>2. CASE Cardinality(EndsBehind(text, b)) < lines
      <3>1. f[n] = f[b]
        BY <1>5, <1>8, <2>0, <2>2 DEF Round
      <3>2. b \notin T
        BY <1>3, <1>4, <2>1
      <3>. QED  BY <1>4, <2>1, <2>2, <3>1, <3>2
    <2>3. CASE Cardinality(EndsBehind(text, b)) = lines
      <3>1. f[n] = b
        BY <1>5, <1>8, <2>0, <2>3 DEF Round
      <3>2. ~(Cardinality(NewLines(text)) < lines)
        BY <1>6, <2>1, <2>3
      <3>3. b = 0 \/ Len(text) - b >= BSIZE
        BY <1>0, <1>4, <2>0, OutputAssumption DEF Begin
      <3>. QED  BY <1>4, <2>1, <2>3, <3>1, <3>2, <3>3 DEF Enough, LineStart
    <2>4. CASE Cardinality(EndsBehind(text, b)) > lines
      <3>0. /\ ~(Cardinality(EndsBehind(text, b)) < lines)
            /\ Cardinality(EndsBehind(text, b)) # lines
        <4>1. Cardinality(EndsBehind(text, b)) \in Nat
          BY <1>6, <2>1
        <4>. QED  BY <2>4, <4>1
      <3>1. f[n] = CHOOSE k \in NewLines(text) :
                     Cardinality(EndsBehind(text, k)) = lines
        <4> HIDE DEF f
        <4>. QED  BY <1>5, <1>8, <2>0, <3>0, Zenon DEF Round
      <3>2. \E k \in NewLines(text) : Cardinality(EndsBehind(text, k)) = lines
        BY <2>1, <2>4, SomeEnd
      <3>3. /\ f[n] \in NewLines(text)
            /\ Cardinality(EndsBehind(text, f[n])) = lines
        BY <3>1, <3>2
      <3>4. f[n] \in 0 .. Len(text)
        <4>1. f[n] \in 1 .. Len(text)
          BY <3>3, EndsFacts
        <4>. QED  BY <1>0, <4>1
      <3>5. ~(Cardinality(NewLines(text)) < lines)
        BY <1>6, <2>1, <2>4
      <3>6. LineStart(text, f[n])
        BY <3>3 DEF LineStart, NewLines
      <3>. QED  BY <1>4, <3>3, <3>4, <3>5, <3>6 DEF Enough
    <2>. QED  BY <1>6, <2>1, <2>2, <2>3, <2>4
  <1>. QED  BY <1>7, <1>8

(* -t begins in the file, and with the right number of lines.              *)
LEMMA SeekFacts ==
    ASSUME NEW text \in Seq(Chars)
    PROVE  Enough(text, LastLines, SeekAtLastLines(text, LastLines))
  <1>1. Len(text) \in Nat /\ LastLines \in Nat /\ 0 < LastLines
    BY LenProperties, OutputAssumption
  <1>2. Cardinality(EndsBehind(text, Len(text))) < LastLines
    BY <1>1, EndsFacts
  <1>. QED  BY <1>1, <1>2, SeekBackEnough DEF SeekAtLastLines

-----------------------------------------------------------------------------
(* What a viewer knows stays true while others do something.               *)
LEMMA SameAgainKept ==
    ASSUME Calm, NEW v \in Viewers, NEW j \in JobIds, SameAgain(v, j),
           view'[v].cmd = view[v].cmd
    PROVE  SameAgain(v, j)'
  <1>1. /\ Gone(j) => Gone(j)'
        /\ job[j].state = "RUNNING" /\ firstjob[1] = j =>
             Gone(j)' \/ (job'[j].state = "RUNNING" /\ firstjob'[1] = j)
    BY DEF Calm
  <1>. QED  BY <1>1 DEF SameAgain

(* The result of an ended job stays the same until it is forgotten.        *)
LEMMA ResultKept ==
    ASSUME Calm, NEW v \in Viewers, NEW j \in JobIds, Gone(j), NEW e,
           ResultOf(v, j, e), view'[v].cmd = view[v].cmd
    PROVE  ResultOf(v, j, e)'
  <1>1. /\ destroyed \subseteq destroyed'
        /\ j \notin destroyed' => job'[j].errorlevel = job[j].errorlevel
    BY DEF Calm
  <1>. QED  BY <1>1 DEF ResultOf

(* A viewer that follows a file does so while others do something, and     *)
(* when it is told of the end.                                             *)
LEMMA FollowsKept ==
    ASSUME Calm, NEW v \in Viewers, NEW j \in JobIds, Follows(v, j),
           view[v].offset \in Nat, file[j] \in Seq(Chars), file'[j] \in Seq(Chars),
           view'[v].pc = view[v].pc, view'[v].cmd = view[v].cmd,
           view'[v].request = view[v].request, view'[v].offset = view[v].offset,
           view'[v].waiting_end = view[v].waiting_end,
           view'[v].end_res = view[v].end_res,
           \A x \in JobIds : <<v, x>> \in first_notify' => <<v, x>> \in first_notify,
           \/ view'[v].answer = view[v].answer
           \/ /\ view'[v].answer.type = "WAITJOB_OK" /\ Gone(j)'
              /\ ResultOf(v, j, view[v].answer.errorlevel)'
    PROVE  Follows(v, j)'
  <1>1. /\ Begun(j) => Begun(j)' /\ Len(file[j]) <= Len(file'[j])
        /\ Gone(j) => Gone(j)' /\ file'[j] = file[j]
    BY DEF Calm
  <1>2. Len(file[j]) \in Nat /\ Len(file'[j]) \in Nat
    BY LenProperties
  <1>3. Begun(j)' /\ view'[v].offset <= Len(file'[j])
    <2>1. Begun(j) /\ view[v].offset <= Len(file[j])
      BY DEF Follows
    <2>. QED  BY <1>1, <1>2, <2>1
  <1>4. view'[v].request = "WAIT_RUNNING_JOB" => SameAgain(v, j)'
    BY SameAgainKept DEF Follows
  <1>5. \A x \in JobIds : <<v, x>> \in first_notify' =>
          x = j \/ (view'[v].cmd.jobid = -1 /\ Gone(j)')
    BY <1>1 DEF Follows
  <1>6. view'[v].answer.type = "WAITJOB_OK" =>
          Gone(j)' /\ ResultOf(v, j, view[v].answer.errorlevel)'
    <2>1. CASE view'[v].answer = view[v].answer
      <3>1. SUFFICES ASSUME view[v].answer.type = "WAITJOB_OK"
                     PROVE  Gone(j)' /\ ResultOf(v, j, view[v].answer.errorlevel)'
        BY <2>1
      <3>2. PICK e : e = view[v].answer.errorlevel
        OBVIOUS
      <3>3. Gone(j) /\ ResultOf(v, j, e)
        BY <3>1, <3>2 DEF Follows
      <3>4. ResultOf(v, j, e)'
        BY <3>3, ResultKept
      <3>5. view'[v].answer.errorlevel = e
        BY <2>1, <3>2
      <3>. QED  BY <1>1, <3>3, <3>4, <3>5 DEF ResultOf
    <2>. QED  BY <2>1
  <1>7. ~view'[v].waiting_end => Gone(j)' /\ ResultOf(v, j, view[v].end_res)'
    <2>1. SUFFICES ASSUME ~view[v].waiting_end
                   PROVE  Gone(j)' /\ ResultOf(v, j, view[v].end_res)'
      OBVIOUS
    <2>2. PICK e : e = view[v].end_res
      OBVIOUS
    <2>3. Gone(j) /\ ResultOf(v, j, e)
      BY <2>1, <2>2 DEF Follows
    <2>4. ResultOf(v, j, e)'
      BY <2>3, ResultKept
    <2>. QED  BY <1>1, <2>2, <2>3, <2>4 DEF ResultOf
  <1>8. view'[v].pc = "done" => /\ view'[v].offset = Len(file'[j])
                                /\ ~view'[v].waiting_end
    BY <1>1 DEF Follows
  <1>9. view'[v].answer.type \in {"", "WAITJOB_OK", "LIST_LINE"}
    BY DEF Follows
  <1>10. view'[v].cmd.jobid \in {-1, j}
         /\ view'[v].request \in {"", "WAIT_RUNNING_JOB"}
    BY DEF Follows
  <1>. QED
    BY <1>3, <1>4, <1>5, <1>6, <1>7, <1>8, <1>9, <1>10 DEF Follows

(* The same for a viewer that may be anywhere.                             *)
LEMMA ViewerKept ==
    ASSUME IInv, JobsInv', Calm, NEW v \in Viewers,
           view'[v].pc = view[v].pc, view'[v].cmd = view[v].cmd,
           view'[v].request = view[v].request, view'[v].offset = view[v].offset,
           view'[v].waiting_end = view[v].waiting_end,
           view'[v].end_res = view[v].end_res, view'[v].job = view[v].job,
           \A x \in JobIds : <<v, x>> \in first_notify' => <<v, x>> \in first_notify,
           \/ view'[v].answer = view[v].answer
           \/ /\ view'[v].answer.type = "WAITJOB_OK" /\ view'[v].answer.job = -1
              /\ view[v].pc \notin {"idle", "ask"}
              /\ Tails(v) => \A j \in JobIds : view[v].job = j =>
                   Gone(j)' /\ ResultOf(v, j, view[v].answer.errorlevel)'
    PROVE  FollowsOrAsks(v)'
  <1>0. view[v] \in ViewRecord /\ FollowsOrAsks(v)
    BY DEF IInv, ViewTypes, Following
  <1>1. Asking(v)'
    <2>1. Asking(v)
      BY <1>0 DEF FollowsOrAsks
    <2>2. ASSUME view'[v].pc \in {"idle", "ask"},
                 NEW j \in JobIds, view'[v].answer.job = j
          PROVE  Begun(j)' /\ SameAgain(v, j)'
      <3>1. view[v].answer.job = j
        BY <2>2
      <3>2. Begun(j) /\ SameAgain(v, j)
        BY <2>1, <2>2, <3>1 DEF Asking
      <3>. QED  BY <3>2, SameAgainKept DEF Calm
    <2>. QED  BY <2>1, <2>2 DEF Asking
  <1>2. ASSUME Tails(v)', NEW j \in JobIds, view'[v].job = j
        PROVE  Follows(v, j)'
    <2>1. Tails(v)
      BY <1>2 DEF Tails
    <2>2. view[v].job = j /\ view[v].offset \in Nat
      BY <1>0, <1>2 DEF ViewRecord
    <2>3. Follows(v, j)
      BY <1>0, <2>1, <2>2 DEF FollowsOrAsks
    <2>4. file[j] \in Seq(Chars) /\ file'[j] \in Seq(Chars)
      BY DEF IInv, JobsInv, JobTypes
    <2>5. \/ view'[v].answer = view[v].answer
          \/ /\ view'[v].answer.type = "WAITJOB_OK" /\ Gone(j)'
             /\ ResultOf(v, j, view[v].answer.errorlevel)'
      BY <2>1, <2>2
    <2>. QED  BY <2>2, <2>3, <2>4, <2>5, FollowsKept
  <1>3. Tails(v)' => view'[v].job # -1
    BY <1>0 DEF FollowsOrAsks, Tails
  <1>. QED  BY <1>1, <1>2, <1>3 DEF FollowsOrAsks

(* A step of jobs alone.                                                   *)
LEMMA JobsAlone ==
    ASSUME IInv, JobsInv', Calm, UNCHANGED <<first_notify, view>>
    PROVE  IInv'
  <1>1. ViewTypes'
    BY DEF IInv, ViewTypes
  <1>2. Following'
    <2>1. ASSUME NEW v \in Viewers PROVE FollowsOrAsks(v)'
      BY ViewerKept
    <2>. QED  BY <2>1 DEF Following
  <1>3. Signals'
    BY DEF IInv, Signals, Means
  <1>. QED  BY <1>1, <1>2, <1>3 DEF IInv

(* check_notify_list tells the viewers that wait for the job.              *)
LEMMA EndJobTold ==
    ASSUME IInv, NEW j \in JobIds, EndJob(j)
    PROVE  IInv'
  <1>1. JobsInv' /\ Calm
    BY EndJobStep DEF IInv
  <1>2. job[j].proc = "ended" /\ job'[j].errorlevel = job[j].errorlevel
        /\ job[j].errorlevel \in Int /\ Gone(j)
    <2>1. job[j] \in JobRecord /\ job[j].reports = <<"ENDJOB">>
      BY ReportFacts DEF IInv, JobsInv, JobTypes, EndJob, JobRecord
    <2>2. job[j].proc = "ended"
      BY <2>1 DEF IInv, JobsInv, Reports, Reported
    <2>3. job'[j].errorlevel = job[j].errorlevel
      BY <2>1 DEF EndJob, IInv, JobsInv, JobTypes, JobRecord
    <2>. QED  BY <2>1, <2>2, <2>3 DEF JobRecord, Gone
  <1>3. PICK a : a = [NoAnswer EXCEPT !.type = "WAITJOB_OK",
                                      !.errorlevel = job[j].errorlevel]
    OBVIOUS
  <1>4. /\ a \in Answer /\ a.type = "WAITJOB_OK" /\ a.job = -1 /\ a.pids = {}
        /\ a.errorlevel = job[j].errorlevel
    BY <1>2, <1>3 DEF NoAnswer, Answer
  <1>5. /\ view' = [v \in Viewers |-> IF Told(v, j) THEN [view[v] EXCEPT !.answer = a]
                                      ELSE view[v]]
        /\ first_notify' = {n \in first_notify : n[2] # j}
    BY <1>3 DEF EndJob
  <1>6. ASSUME NEW v \in Viewers
        PROVE  /\ view'[v] \in ViewRecord
               /\ view'[v].pc = view[v].pc /\ view'[v].cmd = view[v].cmd
               /\ view'[v].request = view[v].request
               /\ view'[v].offset = view[v].offset
               /\ view'[v].waiting_end = view[v].waiting_end
               /\ view'[v].end_res = view[v].end_res /\ view'[v].job = view[v].job
               /\ view'[v].early = view[v].early /\ view'[v].hit = view[v].hit
               /\ view'[v].running = view[v].running
               /\ view'[v].answer = IF Told(v, j) THEN a ELSE view[v].answer
    <2>1. view[v] \in ViewRecord
      BY DEF IInv, ViewTypes
    <2>2. CASE Told(v, j)
      <3>1. view'[v] = [view[v] EXCEPT !.answer = a]
        BY <1>5, <2>2
      <3>. QED  BY <1>4, <2>1, <2>2, <3>1 DEF ViewRecord
    <2>3. CASE ~Told(v, j)
      <3>1. view'[v] = view[v]
        BY <1>5, <2>3
      <3>. QED  BY <2>1, <2>3, <3>1
    <2>. QED  BY <2>2, <2>3
  <1>7. ViewTypes'
    BY <1>5, <1>6 DEF IInv, ViewTypes
  <1>8. ASSUME NEW v \in Viewers
        PROVE  FollowsOrAsks(v)'
    <2>1. \A x \in JobIds : <<v, x>> \in first_notify' => <<v, x>> \in first_notify
      BY <1>5
    <2>2. FollowsOrAsks(v)
      BY DEF IInv, Following
    <2>3. CASE ~Told(v, j)
      BY <1>1, <1>6, <2>1, <2>3, ViewerKept
    <2>4. CASE Told(v, j)
      <3>1. view'[v].answer = a /\ <<v, j>> \in first_notify
        BY <1>6, <2>4 DEF Told
      <3>2. view[v].pc \notin {"idle", "ask"}
        BY <2>2, <3>1 DEF FollowsOrAsks, Asking
      <3>3. ASSUME Tails(v), NEW x \in JobIds, view[v].job = x
            PROVE  Gone(x)' /\ ResultOf(v, x, view[v].answer.errorlevel)'
        <4>1. j = x \/ (view[v].cmd.jobid = -1 /\ Gone(x))
          BY <2>2, <3>1, <3>3 DEF FollowsOrAsks, Follows
        <4>2. Gone(x)
          BY <1>2, <4>1
        <4>3. Gone(x)'
          BY <1>1, <4>2 DEF Calm
        <4>4. -1 \notin JobIds
          BY OutputAssumption DEF JobIds
        <4>5. view'[v].cmd.jobid = x => x = j
          BY <1>6, <4>1, <4>4
        <4>6. view'[v].answer.errorlevel = job[j].errorlevel
          BY <1>4, <3>1
        <4>. QED  BY <1>2, <4>3, <4>5, <4>6 DEF ResultOf
      <3>. QED  BY <1>1, <1>4, <1>6, <2>1, <3>1, <3>2, <3>3, ViewerKept
    <2>. QED  BY <2>3, <2>4
  <1>9. ASSUME NEW v \in Viewers
        PROVE  Means(v)'
    <2>1. Means(v)
      BY DEF IInv, Signals
    <2>2. view'[v].answer.pids = view[v].answer.pids \/ view'[v].answer.pids = {}
      BY <1>4, <1>6
    <2>3. view[v].pc = "ask" => view'[v].answer = view[v].answer
      BY <1>6 DEF IInv, Following, FollowsOrAsks, Asking, Told
    <2>. QED  BY <1>6, <2>1, <2>2, <2>3 DEF Means
  <1>. QED  BY <1>1, <1>7, <1>8, <1>9 DEF IInv, Following, Signals

(* A step of viewer v, or of the server for it, which leaves the jobs.     *)
LEMMA OneView ==
    ASSUME IInv, NEW v \in Viewers, NEW y \in ViewRecord,
           view' = [view EXCEPT ![v] = y], UNCHANGED <<jobVars, job, file>>,
           first_notify' \subseteq Viewers \X JobIds,
           \A u \in Viewers \ {v} : \A x \in JobIds :
             <<u, x>> \in first_notify' => <<u, x>> \in first_notify,
           FollowsOrAsks(v)', Means(v)'
    PROVE  IInv'
  <1>1. UNCHANGED <<firstjob, first_finished_job, jobids, destroyed, job, file>>
    BY DEF jobVars
  <1>2. JobsInv'
    BY <1>1 DEF IInv, JobsInv, JobTypes, Lists, Reports, Reported
  <1>3. Calm
    <2>1. \A j \in JobIds : Len(file[j]) \in Nat
      BY LenProperties DEF IInv, JobsInv, JobTypes
    <2>. QED  BY <1>1, <2>1 DEF Calm, Begun, Gone
  <1>4. ViewTypes'
    BY DEF IInv, ViewTypes
  <1>5. ASSUME NEW u \in Viewers, u # v
        PROVE  FollowsOrAsks(u)' /\ Means(u)'
    <2>1. view'[u] = view[u]
      BY <1>5 DEF IInv, ViewTypes
    <2>2. FollowsOrAsks(u)'
      BY <1>2, <1>3, <1>5, <2>1, ViewerKept
    <2>3. Means(u)
      BY DEF IInv, Signals
    <2>. QED  BY <2>1, <2>2, <2>3 DEF Means
  <1>6. Following' /\ Signals'
    BY <1>5 DEF Following, Signals
  <1>. QED  BY <1>2, <1>4, <1>6 DEF IInv

(* A viewer that has ended otherwise than by following a file has nothing  *)
(* to be shown.                                                            *)
LEMMA EndedView ==
    ASSUME NEW v \in Viewers,
           \/ view'[v].pc = "failed"
           \/ /\ view'[v].pc = "done"
              /\ view'[v].cmd.request \notin {"TAIL", "CAT"}
    PROVE  FollowsOrAsks(v)'
  BY DEF FollowsOrAsks, Asking, Tails

(* The server answers something else than the file of a job to a viewer    *)
(* that does not follow one.                                               *)
LEMMA AnswerStep ==
    ASSUME IInv, NEW v \in Viewers, NEW request, NEW a \in Answer,
           NEW jobs \in SUBSET JobIds, Answers(v, request, a, jobs),
           UNCHANGED <<jobVars, job, first_notify, file>>,
           request \in {"ASK_OUTPUT", "KILL_ALL", "INFO"},
           \A j \in JobIds : a.job = j => Begun(j) /\ SameAgain(v, j),
           (\A j \in jobs : job[j].announced) =>
             /\ a.pids \subseteq Targets(view[v].cmd) \cup {-1}
             /\ request = "KILL_ALL" => RunningGroups \subseteq a.pids
    PROVE  IInv'
  <1>1. view[v] \in ViewRecord /\ FollowsOrAsks(v) /\ Means(v)
    BY DEF IInv, ViewTypes, Following, Signals
  <1>1a. PICK early \in BOOLEAN :
          early = (view[v].early \/ \E j \in jobs : ~job[j].announced)
    BY <1>1 DEF ViewRecord
  <1>2. PICK running :
          running = {Pid(j) : j \in {k \in JobIds :
                       request = "KILL_ALL" /\ job[k].proc = "running"}}
    OBVIOUS
  <1>3. PICK y : y = [view[v] EXCEPT !.request = "", !.answer = a, !.early = early,
                                     !.running = running]
    OBVIOUS
  <1>4. /\ y.pc = view[v].pc /\ y.cmd = view[v].cmd /\ y.request = ""
        /\ y.answer = a /\ y.early = early /\ y.hit = view[v].hit
        /\ y.running = running
        /\ y.waiting_end = view[v].waiting_end /\ y.offset = view[v].offset
    BY <1>1, <1>3 DEF ViewRecord
  <1>5. y \in ViewRecord
    <2>1. running \subseteq Pids
      BY <1>1a, <1>2 DEF Pids
    <2>. QED  BY <1>1a, <1>1, <1>3, <2>1 DEF ViewRecord
  <1>6. view' = [view EXCEPT ![v] = y]
    BY <1>1a, <1>2, <1>3 DEF Answers, IInv, ViewTypes
  <1>7. view'[v] = y /\ view[v].request = request
    BY <1>6 DEF Answers, IInv, ViewTypes
  <1>8. FollowsOrAsks(v)'
    <2>1. view[v].job \in JobIds \cup {-1}
      BY <1>1 DEF ViewRecord
    <2>2. ~Tails(v)
      BY <1>1, <1>7, <2>1 DEF FollowsOrAsks, Follows
    <2>3. ~Tails(v)'
      BY <1>4, <1>7, <2>2 DEF Tails
    <2>4. UNCHANGED <<job, destroyed, firstjob>>
      BY DEF jobVars
    <2>5. ASSUME NEW j \in JobIds, a.job = j
          PROVE  Begun(j)' /\ SameAgain(v, j)'
      BY <1>4, <1>7, <2>4, <2>5 DEF Begun, Gone, SameAgain
    <2>6. Asking(v)'
      BY <1>1, <1>4, <1>7, <2>5 DEF FollowsOrAsks, Asking
    <2>. QED  BY <2>3, <2>6 DEF FollowsOrAsks
  <1>9. Means(v)'
    <2>1. request = "KILL_ALL" => running = RunningGroups
      BY <1>1a, <1>2 DEF RunningGroups
    <2>2. ASSUME ~early
          PROVE  /\ a.pids \subseteq Targets(view[v].cmd) \cup {-1}
                 /\ request = "KILL_ALL" => running \subseteq a.pids
                 /\ ~view[v].early
      BY <1>1a, <1>2, <2>1, <2>2
    <2>3. view[v].cmd.request = "KILL_ALL" => request = "KILL_ALL"
      BY <1>1, <1>7 DEF Means
    <2>4. ~Tails(v)
      BY <1>1, <1>7 DEF FollowsOrAsks, Follows, ViewRecord
    <2>5. request = "KILL_ALL" => view[v].pc # "done"
      BY <1>1, <1>7 DEF Means, ViewRecord
    <2>. QED  BY <1>1, <1>4, <1>7, <2>2, <2>3, <2>5 DEF Means
  <1>10. first_notify' = first_notify /\ first_notify \subseteq Viewers \X JobIds
    BY DEF IInv, ViewTypes
  <1>. QED  BY <1>5, <1>6, <1>8, <1>9, <1>10, OneView

-----------------------------------------------------------------------------
(* The jobs that a request finds.                                          *)
LEMMA FoundFacts ==
    ASSUME JobsInv, NEW jobid \in JobIds \cup {-1}, NEW j \in Found(jobid)
    PROVE  /\ j \in JobIds
           /\ jobid # -1 => j = jobid
           /\ job[j].state \in InQueue \/ job[j].state \in Ended
           /\ jobid = -1 => j = firstjob[1] \/ job[j].state \in Ended
           /\ jobid = -1 /\ busy_slots > 0 => j = firstjob[1]
  <1>1. /\ \A x \in JobIds : x \in Range(firstjob) => job[x].state \in InQueue
        /\ \A x \in JobIds : x \in Range(first_finished_job) => job[x].state \in Ended
    BY DEF JobsInv, Lists
  <1>2. Range(firstjob) \subseteq JobIds /\ Range(first_finished_job) \subseteq JobIds
    BY DEF JobsInv, JobTypes, Range
  <1>3. CASE jobid # -1
    BY <1>1, <1>2, <1>3 DEF Found, Named
  <1>4. CASE jobid = -1 /\ busy_slots > 0
    <2>1. 1 \in DOMAIN firstjob /\ j = firstjob[1]
      BY <1>4, RunningFacts DEF Found, LastRun, JobsInv
    <2>. QED  BY <1>1, <1>2, <1>4, <2>1 DEF Range
  <1>5. CASE jobid = -1 /\ ~(busy_slots > 0)
    <2>1. /\ 1 \in DOMAIN first_finished_job
          /\ j = first_finished_job[Len(first_finished_job)]
      BY <1>5 DEF Found, LastRun, Last
    <2>2. /\ DOMAIN first_finished_job = 1 .. Len(first_finished_job)
          /\ Len(first_finished_job) \in Nat
      BY LenProperties DEF JobsInv, JobTypes
    <2>3. Len(first_finished_job) \in DOMAIN first_finished_job
      BY <2>1, <2>2
    <2>. QED  BY <1>1, <1>2, <1>5, <2>1, <2>3 DEF Range
  <1>. QED  BY <1>3, <1>4, <1>5

(* An output file that is named is there, and asking again means the same  *)
(* job.                                                                    *)
LEMMA SendOutputStep ==
    ASSUME IInv, NEW v \in Viewers, SendOutput(v)
    PROVE  IInv'
  <1>0. /\ view[v] \in ViewRecord /\ job \in [JobIds -> JobRecord]
        /\ JobsInv /\ Reports
    BY DEF IInv, ViewTypes, JobsInv, JobTypes
  <1>1. PICK jobid : jobid = view[v].cmd.jobid
    OBVIOUS
  <1>2. jobid \in JobIds \cup {-1}
    BY <1>0, <1>1 DEF ViewRecord, ViewCommand
  <1>3. PICK j \in Found(jobid) :
          /\ Answers(v, "ASK_OUTPUT",
               [NoAnswer EXCEPT !.type = "ANSWER_OUTPUT",
                  !.pids = {job[j].pid},
                  !.job = IF job[j].store_output /\ job[j].output_filename
                          THEN j ELSE -1], {j})
          /\ UNCHANGED <<jobVars, job, first_notify, file>>
    BY <1>1 DEF SendOutput
  <1>4. /\ j \in JobIds /\ (jobid # -1 => j = jobid)
        /\ job[j].state \in InQueue \/ job[j].state \in Ended
        /\ jobid = -1 => j = firstjob[1] \/ job[j].state \in Ended
    BY <1>0, <1>2, FoundFacts
  <1>5. PICK k : k = IF job[j].store_output /\ job[j].output_filename
                     THEN j ELSE -1
    OBVIOUS
  <1>6. PICK a : a = [NoAnswer EXCEPT !.type = "ANSWER_OUTPUT",
                        !.pids = {job[j].pid}, !.job = k]
    OBVIOUS
  <1>7. a \in Answer /\ a.job = k /\ a.pids = {job[j].pid}
    <2>1. job[j].pid \in Int
      BY <1>0, <1>4 DEF JobRecord
    <2>2. a = [type |-> "ANSWER_OUTPUT", pids |-> {job[j].pid}, job |-> k,
               errorlevel |-> 0]
      BY <1>6 DEF NoAnswer
    <2>. QED  BY <1>4, <1>5, <2>1, <2>2 DEF Answer
  <1>8. ASSUME NEW x \in JobIds, a.job = x
        PROVE  Begun(x) /\ SameAgain(v, x)
    <2>1. -1 \notin JobIds
      BY OutputAssumption DEF JobIds
    <2>2. x = j /\ job[j].output_filename
      BY <1>5, <1>7, <1>8, <2>1
    <2>3. job[j].proc # "none" /\ job[j].state \in {"RUNNING"} \cup Ended
      BY <1>0, <1>4, <2>2 DEF Reports, Reported
    <2>4. job[j].state \in Ended => job[j].proc = "ended"
      BY <1>0, <1>4 DEF Reports, Reported
    <2>. QED  BY <1>1, <1>4, <2>2, <2>3, <2>4 DEF Begun, SameAgain, Gone
  <1>9. view[v].request = "ASK_OUTPUT" /\ Means(v)
    BY <1>3 DEF Answers, IInv, Signals
  <1>10. job[j].announced => a.pids \subseteq Targets(view[v].cmd) \cup {-1}
    <2>1. view[v].cmd.request # "KILL_ALL"
      BY <1>9 DEF Means
    <2>2. job[j].announced => job[j].pid \in {-1, Pid(j)}
      BY <1>0, <1>4 DEF Reports, Reported
    <2>. QED  BY <1>1, <1>4, <1>7, <2>1, <2>2 DEF Targets, Pids
  <1>11. Answers(v, "ASK_OUTPUT", a, {j})
    BY <1>3, <1>5, <1>6
  <1>. QED  BY <1>3, <1>4, <1>7, <1>8, <1>10, <1>11, AnswerStep

(* The other answers name no file.                                         *)
LEMMA OtherAnswers ==
    ASSUME IInv, NEW v \in Viewers,
           SendOutputLine(v) \/ KillAllJobs(v) \/ JobInfo(v)
    PROVE  IInv'
  <1>0. -1 \notin JobIds
    BY OutputAssumption DEF JobIds
  <1>1. ASSUME NEW type \in {"LIST_LINE", "INFO_DATA"}, NEW request \in {"ASK_OUTPUT", "INFO"},
               Answers(v, request, [NoAnswer EXCEPT !.type = type], {}),
               UNCHANGED <<jobVars, job, first_notify, file>>
        PROVE  IInv'
    <2>1. PICK a : a = [NoAnswer EXCEPT !.type = type]
      OBVIOUS
    <2>2. a \in Answer /\ a.job = -1 /\ a.pids = {}
      <3>1. a = [type |-> type, pids |-> {}, job |-> -1, errorlevel |-> 0]
        BY <2>1 DEF NoAnswer
      <3>2. CASE type = "LIST_LINE"
        BY <3>1, <3>2 DEF Answer
      <3>3. CASE type = "INFO_DATA"
        BY <3>1, <3>3 DEF Answer
      <3>. QED  BY <3>2, <3>3
    <2>3. Answers(v, request, a, {})
      BY <1>1, <2>1
    <2>. QED  BY <1>0, <1>1, <2>2, <2>3, AnswerStep
  <1>2. CASE SendOutputLine(v)
    BY <1>1, <1>2 DEF SendOutputLine
  <1>3. CASE JobInfo(v)
    <2>1. PICK type : type = IF Found(view[v].cmd.jobid) = {} THEN "LIST_LINE"
                             ELSE "INFO_DATA"
      OBVIOUS
    <2>2. Answers(v, "INFO", [NoAnswer EXCEPT !.type = type], {})
      BY <1>3, <2>1 DEF JobInfo
    <2>. QED  BY <1>1, <1>3, <2>1, <2>2 DEF JobInfo
  <1>4. CASE KillAllJobs(v)
    <2>1. PICK pids : pids = {job[j].pid : j \in Running}
      OBVIOUS
    <2>3. PICK a : a = [NoAnswer EXCEPT !.type = "COUNT_RUNNING", !.pids = pids]
      OBVIOUS
    <2>4. \A j \in JobIds : job[j].pid \in Int
      BY DEF IInv, JobsInv, JobTypes, JobRecord
    <2>5. pids \subseteq Int
      BY <2>1, <2>4 DEF Running
    <2>6. a \in Answer /\ a.job = -1 /\ a.pids = pids
      <3>1. a = [type |-> "COUNT_RUNNING", pids |-> pids, job |-> -1,
                 errorlevel |-> 0]
        BY <2>3 DEF NoAnswer
      <3>. QED  BY <2>5, <3>1 DEF Answer
    <2>7. ASSUME \A j \in Running : job[j].announced
          PROVE  /\ pids \subseteq Targets(view[v].cmd) \cup {-1}
                 /\ RunningGroups \subseteq pids
      <3>1. view[v].cmd.request = "KILL_ALL"
        BY <1>4 DEF IInv, Signals, Means, KillAllJobs, Answers
      <3>2. \A j \in Running : j \in JobIds /\ job[j].pid \in {-1, Pid(j)}
        BY <2>7 DEF IInv, JobsInv, Reports, Reported, Running
      <3>3. pids \subseteq Pids \cup {-1}
        BY <2>1, <3>2 DEF Pids
      <3>4. ASSUME NEW j \in JobIds, job[j].proc = "running"
            PROVE  j \in Running /\ job[j].pid = Pid(j)
        <4>1. /\ job[j].state \in {"RUNNING"} \cup Ended /\ job[j].state \notin Ended
              /\ ~job[j].skipped
          BY <3>4 DEF IInv, JobsInv, Reports, Reported
        <4>2. j \in Running
          BY <4>1 DEF Running
        <4>3. job[j].announced
          BY <2>7, <4>2
        <4>. QED  BY <4>1, <4>2, <4>3 DEF IInv, JobsInv, Reports, Reported
      <3>5. RunningGroups \subseteq pids
        BY <2>1, <3>4 DEF RunningGroups
      <3>. QED  BY <3>1, <3>3, <3>5 DEF Targets
    <2>8. Answers(v, "KILL_ALL", a, Running)
      BY <1>4, <2>1, <2>3 DEF KillAllJobs
    <2>9. Running \in SUBSET JobIds
      BY DEF Running
    <2>. QED  BY <1>0, <1>4, <2>6, <2>7, <2>8, <2>9, AnswerStep DEF KillAllJobs
  <1>. QED  BY <1>2, <1>3, <1>4

(* The second request is about the same job as the first, or that one has  *)
(* ended meanwhile.                                                        *)
LEMMA WaitRunningJobStep ==
    ASSUME IInv, NEW v \in Viewers, WaitRunningJob(v)
    PROVE  IInv'
  <1>0. /\ view[v] \in ViewRecord /\ FollowsOrAsks(v) /\ Means(v)
        /\ job \in [JobIds -> JobRecord] /\ JobsInv /\ Reports
        /\ -1 \notin JobIds
    BY OutputAssumption
       DEF IInv, ViewTypes, Following, Signals, JobsInv, JobTypes, JobIds
  <1>1. PICK jobid : jobid = view[v].cmd.jobid
    OBVIOUS
  <1>2. jobid \in JobIds \cup {-1}
    BY <1>0, <1>1 DEF ViewRecord, ViewCommand
  <1>3. PICK a : /\ Answers(v, "WAIT_RUNNING_JOB", a, {})
                 /\ a \in Answer /\ a.job = -1 /\ a.pids = {}
                 /\ a.type \in {"", "WAITJOB_OK", "LIST_LINE"}
                 /\ \/ a.type # "WAITJOB_OK"
                    \/ \E j \in Found(jobid) : /\ job[j].state \in Ended
                                              /\ a.errorlevel = job[j].errorlevel
                 /\ \/ first_notify' = first_notify
                    \/ \E j \in Found(jobid) :
                         /\ job[j].state \notin Ended
                         /\ first_notify' = first_notify \cup {<<v, j>>}
    <2>1. NoAnswer \in Answer /\ NoAnswer.type = "" /\ NoAnswer.job = -1
          /\ NoAnswer.pids = {}
      BY NoAnswerFacts
    <2>2. PICK b : b = [NoAnswer EXCEPT !.type = "LIST_LINE"]
      OBVIOUS
    <2>3. b \in Answer /\ b.type = "LIST_LINE" /\ b.job = -1 /\ b.pids = {}
      <3>1. b = [type |-> "LIST_LINE", pids |-> {}, job |-> -1, errorlevel |-> 0]
        BY <2>2 DEF NoAnswer
      <3>. QED  BY <3>1 DEF Answer
    <2>4. CASE /\ Found(jobid) = {}
               /\ Answers(v, "WAIT_RUNNING_JOB",
                          [NoAnswer EXCEPT !.type = "LIST_LINE"], {})
               /\ UNCHANGED first_notify
      BY <2>2, <2>3, <2>4
    <2>5. CASE \E j \in Found(jobid) :
                 /\ job[j].state \notin Ended
                 /\ Answers(v, "WAIT_RUNNING_JOB", NoAnswer, {})
                 /\ first_notify' = first_notify \cup {<<v, j>>}
      BY <2>1, <2>5
    <2>6. ASSUME NEW j \in Found(jobid), job[j].state \in Ended,
                 Answers(v, "WAIT_RUNNING_JOB",
                    [NoAnswer EXCEPT !.type = "WAITJOB_OK",
                                     !.errorlevel = job[j].errorlevel], {}),
                 UNCHANGED first_notify
          PROVE  \E c : /\ Answers(v, "WAIT_RUNNING_JOB", c, {})
                        /\ c \in Answer /\ c.job = -1 /\ c.pids = {}
                        /\ c.type = "WAITJOB_OK"
                        /\ c.errorlevel = job[j].errorlevel
      <3>1. PICK e : e = job[j].errorlevel
        OBVIOUS
      <3>2. PICK c : c = [NoAnswer EXCEPT !.type = "WAITJOB_OK", !.errorlevel = e]
        OBVIOUS
      <3>3. j \in JobIds
        BY <1>0, <1>2, FoundFacts
      <3>4. e \in Int
        BY <1>0, <3>1, <3>3 DEF JobRecord
      <3>5. c = [type |-> "WAITJOB_OK", pids |-> {}, job |-> -1, errorlevel |-> e]
        BY <3>2 DEF NoAnswer
      <3>6. c \in Answer
        BY <3>4, <3>5 DEF Answer
      <3>7. Answers(v, "WAIT_RUNNING_JOB", c, {})
        BY <2>6, <3>1, <3>2
      <3>8. /\ c.job = -1 /\ c.pids = {} /\ c.type = "WAITJOB_OK"
            /\ c.errorlevel = job[j].errorlevel
        BY <3>1, <3>5
      <3>. QED  BY <3>6, <3>7, <3>8
    <2>7. CASE \E j \in Found(jobid) :
                 /\ job[j].state \in Ended
                 /\ Answers(v, "WAIT_RUNNING_JOB",
                      [NoAnswer EXCEPT !.type = "WAITJOB_OK",
                                       !.errorlevel = job[j].errorlevel], {})
                 /\ UNCHANGED first_notify
      BY <2>6, <2>7
    <2>. QED  BY <1>1, <2>4, <2>5, <2>7 DEF WaitRunningJob
  <1>4. UNCHANGED <<jobVars, job, file>> /\ UNCHANGED <<destroyed, firstjob>>
    BY DEF WaitRunningJob, jobVars
  <1>5. PICK y : y = [view[v] EXCEPT !.request = "", !.answer = a, !.running = {}]
    OBVIOUS
  <1>6. /\ y.pc = view[v].pc /\ y.cmd = view[v].cmd /\ y.request = ""
        /\ y.answer = a /\ y.early = view[v].early /\ y.hit = view[v].hit
        /\ y.waiting_end = view[v].waiting_end /\ y.offset = view[v].offset
        /\ y.end_res = view[v].end_res /\ y.job = view[v].job
    BY <1>0, <1>5 DEF ViewRecord
  <1>7. y \in ViewRecord
    BY <1>0, <1>3, <1>5 DEF ViewRecord
  <1>8. view' = [view EXCEPT ![v] = y] /\ view'[v] = y
    <2>1. view[v].early \in BOOLEAN
      BY <1>0 DEF ViewRecord
    <2>2. /\ (view[v].early \/ \E k \in {} : ~job[k].announced) = view[v].early
          /\ {Pid(k) : k \in {x \in JobIds : "WAIT_RUNNING_JOB" = "KILL_ALL"
                                             /\ job[x].proc = "running"}} = {}
      BY <2>1
    <2>3. [view[v] EXCEPT !.request = "", !.answer = a, !.early = view[v].early,
                          !.running = {}] = y
      BY <1>0, <1>5, <2>1 DEF ViewRecord
    <2>. QED  BY <1>3, <2>2, <2>3 DEF Answers, IInv, ViewTypes
  <1>9. view[v].request = "WAIT_RUNNING_JOB"
    BY <1>3 DEF Answers
  <1>10. view[v].pc \notin {"idle", "ask"}
    BY <1>0, <1>9 DEF FollowsOrAsks, Asking
  <1>11. ASSUME Tails(v), NEW j \in JobIds, view[v].job = j
         PROVE  Follows(v, j)'
    <2>1. Follows(v, j)
      BY <1>0, <1>11 DEF FollowsOrAsks
    <2>2. SameAgain(v, j)
      BY <1>9, <2>1 DEF Follows
    <2>3. ASSUME NEW x \in Found(jobid)
          PROVE  /\ x = j \/ (jobid = -1 /\ Gone(j))
                 /\ x \in JobIds
      <3>1. x \in JobIds /\ (jobid # -1 => x = jobid)
            /\ (jobid = -1 /\ busy_slots > 0 => x = firstjob[1])
        BY <1>0, <1>2, FoundFacts
      <3>2. job[j].state = "RUNNING" => busy_slots > 0
        BY <1>0, RunningFacts DEF JobsInv
      <3>. QED  BY <1>0, <1>1, <2>2, <3>1, <3>2 DEF SameAgain
    <2>4. ASSUME a.type = "WAITJOB_OK"
          PROVE  Gone(j) /\ ResultOf(v, j, a.errorlevel)
      <3>1. PICK x \in Found(jobid) : /\ job[x].state \in Ended
                                     /\ a.errorlevel = job[x].errorlevel
        BY <1>3, <2>4
      <3>2. x \in JobIds => job[x].proc = "ended"
        BY <1>0, <3>1 DEF Reports, Reported
      <3>3. Gone(j)
        BY <2>3, <3>2 DEF Gone
      <3>. QED  BY <1>0, <1>1, <2>3, <3>1, <3>3 DEF ResultOf
    <2>5. \A x \in JobIds : <<v, x>> \in first_notify' =>
            x = j \/ (view[v].cmd.jobid = -1 /\ Gone(j))
      <3>1. \A x \in JobIds : <<v, x>> \in first_notify =>
              x = j \/ (view[v].cmd.jobid = -1 /\ Gone(j))
        BY <2>1 DEF Follows
      <3>2. ASSUME NEW x \in JobIds, <<v, x>> \in first_notify'
            PROVE  <<v, x>> \in first_notify \/ x \in Found(jobid)
        <4>1. CASE first_notify' = first_notify
          BY <3>2, <4>1
        <4>2. ASSUME NEW k \in Found(jobid),
                     first_notify' = first_notify \cup {<<v, k>>}
              PROVE  <<v, x>> \in first_notify \/ x \in Found(jobid)
          BY <3>2, <4>2
        <4>. QED  BY <1>3, <4>1, <4>2
      <3>. QED  BY <1>1, <2>3, <3>1, <3>2
    <2>6. Gone(j)' <=> Gone(j)
      BY <1>4 DEF Gone
    <2>7. Begun(j)' <=> Begun(j)
      BY <1>4 DEF Begun
    <2>8. /\ Begun(j)' /\ view'[v].offset <= Len(file'[j])
          /\ view'[v].cmd.jobid \in {-1, j} /\ view'[v].request = ""
          /\ view'[v].pc = "done" => /\ view'[v].offset = Len(file'[j])
                                     /\ ~view'[v].waiting_end
      BY <1>4, <1>6, <1>8, <2>1, <2>7 DEF Follows
    <2>9. ~view[v].waiting_end => Gone(j)' /\ ResultOf(v, j, view[v].end_res)'
      <3>1. ~view[v].waiting_end => Gone(j) /\ ResultOf(v, j, view[v].end_res)
        BY <2>1 DEF Follows
      <3>. QED  BY <1>4, <1>6, <1>8, <2>6, <3>1 DEF ResultOf
    <2>10. a.type = "WAITJOB_OK" => Gone(j)' /\ ResultOf(v, j, view[v].answer.errorlevel)'
      BY <1>4, <1>6, <1>8, <2>4, <2>6 DEF ResultOf
    <2>11. \A x \in JobIds : <<v, x>> \in first_notify' =>
             x = j \/ (view'[v].cmd.jobid = -1 /\ Gone(j)')
      BY <1>6, <1>8, <2>5, <2>6
    <2>12. /\ view'[v].answer.type \in {"", "WAITJOB_OK", "LIST_LINE"}
           /\ view'[v].answer.type = "WAITJOB_OK" =>
                Gone(j)' /\ ResultOf(v, j, view[v].answer.errorlevel)'
           /\ ~view'[v].waiting_end =>
                Gone(j)' /\ ResultOf(v, j, view[v].end_res)'
      BY <1>3, <1>6, <1>8, <2>9, <2>10
    <2>. QED  BY <2>8, <2>11, <2>12 DEF Follows
  <1>12. FollowsOrAsks(v)'
    BY <1>0, <1>6, <1>8, <1>10, <1>11 DEF FollowsOrAsks, Asking, Tails
  <1>13. Means(v)'
    BY <1>0, <1>3, <1>6, <1>8, <1>9 DEF Means
  <1>14. /\ first_notify' \subseteq Viewers \X JobIds
         /\ \A u \in Viewers \ {v} : \A x \in JobIds :
              <<u, x>> \in first_notify' => <<u, x>> \in first_notify
    <2>1. \A j \in Found(jobid) : j \in JobIds
      BY <1>0, <1>2, FoundFacts
    <2>2. first_notify \subseteq Viewers \X JobIds
      BY DEF IInv, ViewTypes
    <2>3. CASE first_notify' = first_notify
      BY <2>2, <2>3
    <2>4. ASSUME NEW j \in Found(jobid), first_notify' = first_notify \cup {<<v, j>>}
          PROVE  /\ first_notify' \subseteq Viewers \X JobIds
                 /\ \A u \in Viewers \ {v} : \A x \in JobIds :
                      <<u, x>> \in first_notify' => <<u, x>> \in first_notify
      BY <2>1, <2>2, <2>4
    <2>. QED  BY <1>3, <2>3, <2>4
  <1>. QED  BY <1>4, <1>7, <1>8, <1>12, <1>13, <1>14, OneView

-----------------------------------------------------------------------------
(* A viewer ends, with what its answer says.                               *)
LEMMA EndsStep ==
    ASSUME IInv, NEW v \in Viewers, NEW y \in ViewRecord,
           view' = [view EXCEPT ![v] = y],
           UNCHANGED <<jobVars, job, first_notify, file>>,
           \/ y.pc = "failed"
           \/ y.pc = "done" /\ view[v].cmd.request \notin {"TAIL", "CAT"},
           y.cmd = view[v].cmd, y.request = view[v].request,
           y.early = view[v].early, y.answer.pids \subseteq view[v].answer.pids,
           y.running = view[v].running, view[v].request # "KILL_ALL",
           ~view[v].early => y.hit \subseteq Targets(view[v].cmd),
           ~view[v].early /\ view[v].cmd.request = "KILL_ALL" /\ y.pc = "done" =>
             view[v].running \subseteq y.hit
    PROVE  IInv'
  <1>1. view'[v] = y /\ Means(v)
    BY DEF IInv, ViewTypes, Signals
  <1>2. FollowsOrAsks(v)'
    BY <1>1, EndedView
  <1>3. Means(v)'
    BY <1>1 DEF Means
  <1>4. first_notify' = first_notify /\ first_notify \subseteq Viewers \X JobIds
    BY DEF IInv, ViewTypes
  <1>. QED  BY <1>2, <1>3, <1>4, OneView

(* -i, -p and -o show something, and whoever got a line or no file ends.   *)
LEMMA ShowsStep ==
    ASSUME IInv, NEW v \in Viewers,
           Shows(v) \/ RequestFails(v) \/ OutputNotStored(v)
    PROVE  IInv'
  <1>0. view[v] \in ViewRecord
    BY DEF IInv, ViewTypes
  <1>1. PICK pc, shown :
          /\ view' = [view EXCEPT ![v].pc = pc, ![v].job = shown]
          /\ shown \in JobIds \cup {-1}
          /\ UNCHANGED <<jobVars, job, first_notify, file>>
          /\ \/ pc = "failed"
             \/ pc = "done" /\ view[v].cmd.request \notin {"TAIL", "CAT", "KILL_ALL"}
    <2>1. view[v].answer.job \in JobIds \cup {-1} /\ view[v].job \in JobIds \cup {-1}
      BY <1>0 DEF ViewRecord, Answer
    <2>2. CASE Shows(v)
      BY <2>1, <2>2 DEF Shows, Receives
    <2>3. CASE RequestFails(v) \/ OutputNotStored(v)
      <3>1. /\ view' = [view EXCEPT ![v].pc = "failed"]
            /\ UNCHANGED <<jobVars, job, first_notify, file>>
        BY <2>3 DEF RequestFails, OutputNotStored, Receives
      <3>2. [view EXCEPT ![v].pc = "failed"] =
              [view EXCEPT ![v].pc = "failed", ![v].job = view[v].job]
        BY <1>0 DEF IInv, ViewTypes, ViewRecord
      <3>. QED  BY <2>1, <3>1, <3>2
    <2>. QED  BY <2>2, <2>3
  <1>2. PICK y : y = [view[v] EXCEPT !.pc = pc, !.job = shown]
    OBVIOUS
  <1>3. /\ y.pc = pc /\ y.cmd = view[v].cmd /\ y.request = view[v].request
        /\ y.early = view[v].early /\ y.answer = view[v].answer
        /\ y.hit = view[v].hit /\ y.running = view[v].running
    BY <1>0, <1>2 DEF ViewRecord
  <1>4. y \in ViewRecord
    BY <1>0, <1>1, <1>2 DEF ViewRecord
  <1>5. view' = [view EXCEPT ![v] = y]
    BY <1>1, <1>2 DEF IInv, ViewTypes
  <1>6. ~view[v].early => y.hit \subseteq Targets(view[v].cmd)
    BY <1>3 DEF IInv, Signals, Means
  <1>7. view[v].request # "KILL_ALL"
    BY DEF IInv, Signals, Means, Shows, RequestFails, OutputNotStored, Receives
  <1>. QED  BY <1>1, <1>3, <1>4, <1>5, <1>6, <1>7, EndsStep

(* -k and -T signal the groups in their answers, -k without -1 and 0.      *)
LEMMA KillStep ==
    ASSUME IInv, NEW v \in Viewers, KillJob(v) \/ KillAll(v)
    PROVE  IInv'
  <1>0. /\ view[v] \in ViewRecord /\ view[v].answer.pids \subseteq Int
        /\ ~view[v].early =>
             /\ view[v].answer.pids \subseteq Targets(view[v].cmd) \cup {-1}
             /\ view[v].cmd.request = "KILL_ALL" /\ view[v].pc = "ask" =>
                  view[v].running \subseteq view[v].answer.pids
    BY DEF IInv, ViewTypes, ViewRecord, Answer, Signals, Means
  <1>1. PICK pc, hit :
          /\ view' = [view EXCEPT ![v].pc = pc, ![v].hit = hit]
          /\ UNCHANGED <<jobVars, job, first_notify, file>>
          /\ pc \in {"done", "failed"}
          /\ hit \subseteq view[v].answer.pids
          /\ view[v].cmd.request \notin {"TAIL", "CAT"}
          /\ ~view[v].early => hit \subseteq Targets(view[v].cmd)
          /\ ~view[v].early /\ view[v].cmd.request = "KILL_ALL" =>
               view[v].running \subseteq hit
    <2>1. CASE KillJob(v)
      <3>1. PICK pc : pc = IF view[v].answer.pids \subseteq {-1, 0} THEN "failed"
                           ELSE "done"
        OBVIOUS
      <3>2. PICK hit : hit = view[v].answer.pids \ {-1, 0}
        OBVIOUS
      <3>3. view' = [view EXCEPT ![v].pc = pc, ![v].hit = hit]
        BY <2>1, <3>1, <3>2 DEF KillJob
      <3>4. /\ hit \subseteq view[v].answer.pids
            /\ ~view[v].early => hit \subseteq Targets(view[v].cmd)
        BY <1>0, <3>2
      <3>5. /\ view[v].cmd.request = "KILL_JOB"
            /\ UNCHANGED <<jobVars, job, first_notify, file>>
        BY <2>1 DEF KillJob, Receives
      <3>. QED  BY <3>1, <3>3, <3>4, <3>5
    <2>2. CASE KillAll(v)
      <3>1. PICK hit : hit = view[v].answer.pids
        OBVIOUS
      <3>2. view' = [view EXCEPT ![v].pc = "done", ![v].hit = hit]
        BY <2>2, <3>1 DEF KillAll
      <3>3. /\ view[v].cmd.request = "KILL_ALL" /\ view[v].pc = "ask"
            /\ UNCHANGED <<jobVars, job, first_notify, file>>
        BY <2>2 DEF KillAll, Receives
      <3>4. -1 \in Targets(view[v].cmd)
        BY <3>3 DEF Targets
      <3>. QED  BY <1>0, <3>1, <3>2, <3>3, <3>4
    <2>. QED  BY <2>1, <2>2
  <1>2. PICK y : y = [view[v] EXCEPT !.pc = pc, !.hit = hit]
    OBVIOUS
  <1>3. /\ y.pc = pc /\ y.cmd = view[v].cmd /\ y.request = view[v].request
        /\ y.early = view[v].early /\ y.answer = view[v].answer
        /\ y.hit = hit /\ y.running = view[v].running
    BY <1>0, <1>2 DEF ViewRecord
  <1>4. y \in ViewRecord
    BY <1>0, <1>1, <1>2 DEF ViewRecord
  <1>5. view' = [view EXCEPT ![v] = y]
    BY <1>1, <1>2 DEF IInv, ViewTypes
  <1>6. view[v].request # "KILL_ALL"
    BY DEF IInv, Signals, Means, KillJob, KillAll, Receives
  <1>. QED  BY <1>1, <1>3, <1>4, <1>5, <1>6, EndsStep

(* A command line is typed.                                                *)
LEMMA TypeStep ==
    ASSUME IInv, NEW v \in Viewers, NEW cmd \in ViewCommands, Type(v, cmd)
    PROVE  IInv'
  <1>0. /\ view[v] \in ViewRecord /\ FollowsOrAsks(v) /\ cmd \in ViewCommand
        /\ cmd.request = "KILL_ALL" => cmd.jobid = -1
        /\ -1 \notin JobIds
    BY OutputAssumption DEF IInv, ViewTypes, Following, JobIds
  <1>1. PICK request : request = IF cmd.request = "KILL_ALL" THEN "KILL_ALL"
                                 ELSE IF cmd.request = "INFO" THEN "INFO"
                                 ELSE "ASK_OUTPUT"
    OBVIOUS
  <1>2. PICK y : y = [NoView EXCEPT !.pc = "ask", !.cmd = cmd, !.request = request]
    OBVIOUS
  <1>3. y = [pc |-> "ask", cmd |-> cmd, request |-> request, answer |-> NoAnswer,
             job |-> -1, offset |-> 0, waiting_end |-> TRUE, end_res |-> 0,
             early |-> FALSE, running |-> {}, hit |-> {}]
    BY <1>2 DEF NoView
  <1>4. /\ NoAnswer \in Answer /\ NoAnswer.pids = {} /\ NoAnswer.job = -1
    BY NoAnswerFacts
  <1>5. request \in {"ASK_OUTPUT", "KILL_ALL", "INFO"}
    BY <1>1
  <1>6. y \in ViewRecord
    <2>1. NoView \in ViewRecord
      BY NoViewType
    <2>. QED  BY <1>0, <1>2, <1>5, <2>1 DEF ViewRecord
  <1>7. view' = [view EXCEPT ![v] = y] /\ view'[v] = y
    BY <1>1, <1>2 DEF Type, IInv, ViewTypes
  <1>8. /\ view[v].pc = "idle" /\ UNCHANGED <<jobVars, job, first_notify, file>>
    BY DEF Type
  <1>9. Asking(v)'
    <2>1. \A j \in JobIds : <<v, j>> \notin first_notify
      BY <1>0, <1>8 DEF FollowsOrAsks, Asking
    <2>2. /\ view'[v].pc = "ask" /\ view'[v].waiting_end /\ view'[v].offset = 0
          /\ view'[v].request = request /\ view'[v].answer.job = -1
      BY <1>3, <1>4, <1>7
    <2>3. view'[v].request # "WAIT_RUNNING_JOB"
      BY <1>5, <2>2
    <2>4. \A j \in JobIds : view'[v].answer.job # j
      BY <1>0, <2>2
    <2>. QED  BY <1>8, <2>1, <2>2, <2>3, <2>4 DEF Asking
  <1>10. FollowsOrAsks(v)'
    BY <1>3, <1>7, <1>9 DEF FollowsOrAsks, Tails
  <1>11. Means(v)'
    <2>1. /\ view'[v].cmd = cmd /\ view'[v].request = request
          /\ view'[v].pc = "ask" /\ view'[v].answer = NoAnswer
          /\ view'[v].running = {} /\ view'[v].hit = {}
      BY <1>3, <1>7
    <2>2. NoAnswer.type = "" /\ NoAnswer.pids = {}
      BY NoAnswerFacts
    <2>3. request \in {"", "KILL_ALL"} \/ cmd.request # "KILL_ALL"
      BY <1>1
    <2>4. request = "KILL_ALL" => cmd.request = "KILL_ALL"
      BY <1>1
    <2>. QED  BY <1>0, <2>1, <2>2, <2>3, <2>4 DEF Means
  <1>12. first_notify' = first_notify /\ first_notify \subseteq Viewers \X JobIds
    BY <1>8 DEF IInv, ViewTypes
  <1>. QED  BY <1>6, <1>7, <1>8, <1>10, <1>11, <1>12, OneView

(* A viewer goes on with its file.                                         *)
LEMMA FollowsStep ==
    ASSUME IInv, NEW v \in Viewers, NEW y \in ViewRecord, NEW j \in JobIds,
           view' = [view EXCEPT ![v] = y],
           UNCHANGED <<jobVars, job, first_notify, file>>,
           y.pc \in {"open", "select", "read", "done"}, y.job = j,
           y.cmd = view[v].cmd, y.request # "KILL_ALL",
           view[v].cmd.request # "KILL_ALL",
           y.early = view[v].early, y.answer.pids \subseteq view[v].answer.pids,
           y.hit = view[v].hit,
           Follows(v, j)'
    PROVE  IInv'
  <1>1. view'[v] = y /\ Means(v)
    BY DEF IInv, ViewTypes, Signals
  <1>2. FollowsOrAsks(v)'
    <2>1. Asking(v)'
      BY <1>1 DEF Asking
    <2>2. -1 \notin JobIds
      BY OutputAssumption DEF JobIds
    <2>. QED  BY <1>1, <2>1, <2>2 DEF FollowsOrAsks
  <1>3. Means(v)'
    BY <1>1 DEF Means
  <1>4. first_notify' = first_notify /\ first_notify \subseteq Viewers \X JobIds
    BY DEF IInv, ViewTypes
  <1>. QED  BY <1>2, <1>3, <1>4, OneView

(* The viewer has the name of the file, and asks again.                    *)
LEMMA OutputStoredStep ==
    ASSUME IInv, NEW v \in Viewers, OutputStored(v)
    PROVE  IInv'
  <1>0. /\ view[v] \in ViewRecord /\ Asking(v)
        /\ -1 \notin JobIds
    BY OutputAssumption DEF IInv, ViewTypes, Following, FollowsOrAsks, JobIds
  <1>1. /\ view[v].pc = "ask" /\ view[v].answer.job # -1
        /\ view[v].cmd.request # "KILL_ALL"
        /\ UNCHANGED <<jobVars, job, first_notify, file>>
        /\ UNCHANGED <<destroyed, firstjob>>
    BY DEF OutputStored, Receives, jobVars
  <1>2. view[v].answer.job \in JobIds
    BY <1>0, <1>1 DEF ViewRecord, Answer
  <1>3. PICK j \in JobIds : j = view[v].answer.job
    BY <1>2
  <1>4. /\ Begun(j) /\ SameAgain(v, j)
        /\ \A x \in JobIds : <<v, x>> \notin first_notify
        /\ view[v].waiting_end /\ view[v].offset = 0
    BY <1>0, <1>1, <1>3 DEF Asking
  <1>5. PICK y : y = [view[v] EXCEPT !.pc = "open", !.job = j,
                        !.request = "WAIT_RUNNING_JOB", !.answer = NoAnswer]
    OBVIOUS
  <1>6. /\ NoAnswer \in Answer /\ NoAnswer.pids = {} /\ NoAnswer.type = ""
    BY NoAnswerFacts
  <1>7. /\ y.pc = "open" /\ y.job = j /\ y.request = "WAIT_RUNNING_JOB"
        /\ y.answer = NoAnswer /\ y.cmd = view[v].cmd /\ y.early = view[v].early
        /\ y.hit = view[v].hit /\ y.waiting_end = view[v].waiting_end
        /\ y.offset = view[v].offset
    BY <1>0, <1>5 DEF ViewRecord
  <1>8. y \in ViewRecord
    BY <1>0, <1>5, <1>6 DEF ViewRecord
  <1>9. view' = [view EXCEPT ![v] = y] /\ view'[v] = y
    BY <1>3, <1>5 DEF OutputStored, IInv, ViewTypes
  <1>10. Follows(v, j)'
    <2>1. SameAgain(v, j)' /\ Begun(j)'
      BY <1>1, <1>4, <1>7, <1>9 DEF SameAgain, Begun, Gone
    <2>2. 0 <= Len(file[j])
      BY LenProperties DEF IInv, JobsInv, JobTypes
    <2>3. view[v].cmd.jobid \in {-1, j}
      BY <1>4 DEF SameAgain
    <2>. QED  BY <1>1, <1>4, <1>6, <1>7, <1>9, <2>1, <2>2, <2>3 DEF Follows
  <1>. QED  BY <1>1, <1>6, <1>7, <1>8, <1>9, <1>10, FollowsStep

(* The file of a viewer that follows one.                                  *)
LEMMA FollowedFile ==
    ASSUME IInv, NEW v \in Viewers, Tails(v)
    PROVE  \E j \in JobIds : /\ view[v].job = j /\ Follows(v, j)
                             /\ file[j] \in Seq(Chars) /\ Len(file[j]) \in Nat
  <1>1. /\ view[v] \in ViewRecord /\ FollowsOrAsks(v)
        /\ file \in [JobIds -> Seq(Chars)]
    BY DEF IInv, ViewTypes, Following, JobsInv, JobTypes
  <1>2. view[v].job \in JobIds
    BY <1>1 DEF FollowsOrAsks, ViewRecord
  <1>. QED  BY <1>1, <1>2, LenProperties DEF FollowsOrAsks

(* The file is opened.                                                     *)
LEMMA OpenFileStep ==
    ASSUME IInv, NEW v \in Viewers, OpenFile(v)
    PROVE  IInv'
  <1>0. view[v] \in ViewRecord /\ view[v].pc = "open"
    BY DEF IInv, ViewTypes, OpenFile
  <1>1. PICK j \in JobIds : /\ view[v].job = j /\ Follows(v, j)
                            /\ file[j] \in Seq(Chars) /\ Len(file[j]) \in Nat
    BY <1>0, FollowedFile DEF Tails
  <1>2. PICK offset : offset = IF view[v].cmd.request = "TAIL"
                               THEN SeekAtLastLines(file[j], LastLines) ELSE 0
    OBVIOUS
  <1>3. offset \in Nat /\ offset <= Len(file[j])
    <2>1. SeekAtLastLines(file[j], LastLines) \in 0 .. Len(file[j])
      BY <1>1, SeekFacts DEF Enough
    <2>. QED  BY <1>1, <1>2, <2>1
  <1>4. PICK y : y = [view[v] EXCEPT !.pc = "select", !.offset = offset]
    OBVIOUS
  <1>5. /\ y.pc = "select" /\ y.job = j /\ y.request = view[v].request
        /\ y.answer = view[v].answer /\ y.cmd = view[v].cmd
        /\ y.early = view[v].early /\ y.hit = view[v].hit
        /\ y.waiting_end = view[v].waiting_end /\ y.offset = offset
        /\ y.end_res = view[v].end_res
    BY <1>0, <1>1, <1>4 DEF ViewRecord
  <1>6. y \in ViewRecord
    BY <1>0, <1>3, <1>4 DEF ViewRecord
  <1>7. /\ view' = [view EXCEPT ![v] = y] /\ view'[v] = y
        /\ UNCHANGED <<jobVars, job, first_notify, file>>
        /\ UNCHANGED <<destroyed, firstjob>>
    BY <1>1, <1>2, <1>4 DEF OpenFile, IInv, ViewTypes, jobVars
  <1>8. Follows(v, j)'
    BY <1>1, <1>3, <1>5, <1>7 DEF Follows, SameAgain, Begun, Gone, ResultOf
  <1>9. y.request # "KILL_ALL"
    BY <1>1, <1>5 DEF Follows
  <1>10. view[v].cmd.request # "KILL_ALL"
    BY <1>0 DEF IInv, Signals, Means
  <1>. QED  BY <1>5, <1>6, <1>7, <1>8, <1>9, <1>10, FollowsStep

(* The viewer looks for news: none, the end of the job, or a line.         *)
LEMMA TailSelectStep ==
    ASSUME IInv, NEW v \in Viewers, TailSelect(v)
    PROVE  IInv'
  <1>0. view[v] \in ViewRecord /\ view[v].pc = "select"
    BY DEF IInv, ViewTypes, TailSelect
  <1>1. PICK j \in JobIds : view[v].job = j /\ Follows(v, j)
    BY <1>0, FollowedFile DEF Tails
  <1>2. PICK a \in Answer : a = view[v].answer
    BY <1>0 DEF ViewRecord
  <1>3. PICK pc, waiting_end, end_res :
          /\ pc = IF a.type = "LIST_LINE" THEN "failed" ELSE "read"
          /\ waiting_end = (view[v].waiting_end /\ a.type = "")
          /\ end_res = IF a.type = "WAITJOB_OK" THEN a.errorlevel
                       ELSE view[v].end_res
    OBVIOUS
  <1>4. /\ pc \in {"failed", "read"} /\ waiting_end \in BOOLEAN
        /\ end_res \in Int
    BY <1>0, <1>3 DEF Answer, ViewRecord
  <1>5. /\ NoAnswer \in Answer /\ NoAnswer.pids = {} /\ NoAnswer.type = ""
    BY NoAnswerFacts
  <1>6. PICK y : y = [view[v] EXCEPT !.pc = pc, !.waiting_end = waiting_end,
                        !.end_res = end_res, !.answer = NoAnswer]
    OBVIOUS
  <1>7. /\ y.pc = pc /\ y.job = j /\ y.request = view[v].request
        /\ y.answer = NoAnswer /\ y.cmd = view[v].cmd
        /\ y.early = view[v].early /\ y.hit = view[v].hit
        /\ y.waiting_end = waiting_end /\ y.offset = view[v].offset
        /\ y.end_res = end_res /\ y.running = view[v].running
    BY <1>0, <1>1, <1>6 DEF ViewRecord
  <1>8. y \in ViewRecord
    BY <1>0, <1>4, <1>5, <1>6 DEF ViewRecord
  <1>9. /\ view' = [view EXCEPT ![v] = y] /\ view'[v] = y
        /\ UNCHANGED <<jobVars, job, first_notify, file>>
        /\ UNCHANGED <<destroyed, firstjob>>
    BY <1>2, <1>3, <1>6 DEF TailSelect, IInv, ViewTypes, jobVars
  <1>12. /\ ~view[v].early => view[v].hit \subseteq Targets(view[v].cmd)
         /\ view[v].cmd.request # "KILL_ALL" /\ view[v].request # "KILL_ALL"
    BY <1>0 DEF IInv, Signals, Means
  <1>10. CASE pc = "failed"
    BY <1>5, <1>7, <1>8, <1>9, <1>10, <1>12, EndsStep
  <1>11. CASE pc = "read"
    <2>1. a.type \in {"", "WAITJOB_OK"}
      BY <1>1, <1>2, <1>3, <1>11 DEF Follows
    <2>2. ASSUME ~waiting_end
          PROVE  Gone(j) /\ ResultOf(v, j, end_res)
      <3>1. CASE a.type = "WAITJOB_OK"
        BY <1>1, <1>2, <1>3, <3>1 DEF Follows
      <3>2. CASE a.type = ""
        <4>1. ~view[v].waiting_end /\ end_res = view[v].end_res
          BY <1>3, <2>2, <3>2
        <4>. QED  BY <1>1, <4>1 DEF Follows
      <3>. QED  BY <2>1, <3>1, <3>2
    <2>3. Follows(v, j)'
      <3>1. ~view'[v].waiting_end => Gone(j)' /\ ResultOf(v, j, view[v].end_res)'
        BY <1>7, <1>9, <2>2 DEF Gone, ResultOf
      <3>2. /\ SameAgain(v, j)' <=> SameAgain(v, j)
            /\ Begun(j)' <=> Begun(j)
            /\ Gone(j)' <=> Gone(j)
        BY <1>7, <1>9 DEF SameAgain, Begun, Gone
      <3>. QED  BY <1>1, <1>5, <1>7, <1>9, <1>11, <3>1, <3>2 DEF Follows
    <2>4. y.request # "KILL_ALL"
      BY <1>1, <1>7 DEF Follows
    <2>. QED  BY <1>5, <1>7, <1>8, <1>9, <1>11, <1>12, <2>3, <2>4, FollowsStep
  <1>. QED  BY <1>4, <1>10, <1>11

(* The viewer reads on, and ends where the file does if the job has ended. *)
LEMMA TailReadStep ==
    ASSUME IInv, NEW v \in Viewers, TailRead(v)
    PROVE  IInv'
  <1>0. view[v] \in ViewRecord /\ view[v].pc = "read"
    BY DEF IInv, ViewTypes, TailRead
  <1>1. PICK j \in JobIds : /\ view[v].job = j /\ Follows(v, j)
                            /\ file[j] \in Seq(Chars) /\ Len(file[j]) \in Nat
    BY <1>0, FollowedFile DEF Tails
  <1>2. PICK len \in Nat : len = Len(file[j])
    BY <1>1
  <1>3. PICK offset \in Nat : offset = view[v].offset
    BY <1>0 DEF ViewRecord
  <1>4. offset <= len
    BY <1>1, <1>2, <1>3 DEF Follows
  <1>5. PICK res : res = IF len - offset < BSIZE THEN len - offset ELSE BSIZE
    OBVIOUS
  <1>6. /\ res \in Nat /\ offset + res \in Nat /\ offset + res <= len
        /\ res = 0 => offset + res = len
    BY <1>4, <1>5, OutputAssumption
  <1>7. PICK pc : pc = IF res = 0 /\ ~view[v].waiting_end THEN "done" ELSE "select"
    OBVIOUS
  <1>8. PICK y : y = [view[v] EXCEPT !.offset = offset + res, !.pc = pc]
    OBVIOUS
  <1>9. /\ y.pc = pc /\ y.job = j /\ y.request = view[v].request
        /\ y.answer = view[v].answer /\ y.cmd = view[v].cmd
        /\ y.early = view[v].early /\ y.hit = view[v].hit
        /\ y.waiting_end = view[v].waiting_end /\ y.offset = offset + res
        /\ y.end_res = view[v].end_res
    BY <1>0, <1>1, <1>8 DEF ViewRecord
  <1>10. pc \in {"select", "done"}
    BY <1>7
  <1>11. y \in ViewRecord
    BY <1>0, <1>6, <1>8, <1>10 DEF ViewRecord
  <1>12. /\ view' = [view EXCEPT ![v] = y] /\ view'[v] = y
         /\ UNCHANGED <<jobVars, job, first_notify, file>>
         /\ UNCHANGED <<destroyed, firstjob>>
    <2>1. view' = [view EXCEPT ![v].offset = offset + res, ![v].pc = pc]
      BY <1>1, <1>2, <1>3, <1>5, <1>7 DEF TailRead, Stops, IInv, ViewTypes
    <2>. QED  BY <1>8, <2>1 DEF TailRead, IInv, ViewTypes, jobVars
  <1>13. Follows(v, j)'
    <2>1. /\ SameAgain(v, j)' <=> SameAgain(v, j)
          /\ Begun(j)' <=> Begun(j)
          /\ Gone(j)' <=> Gone(j)
      BY <1>9, <1>12 DEF SameAgain, Begun, Gone
    <2>2. /\ ResultOf(v, j, view[v].end_res)' <=> ResultOf(v, j, view[v].end_res)
          /\ ResultOf(v, j, view[v].answer.errorlevel)' <=>
               ResultOf(v, j, view[v].answer.errorlevel)
      BY <1>9, <1>12 DEF ResultOf
    <2>3. pc = "done" => offset + res = Len(file'[j]) /\ ~view'[v].waiting_end
      BY <1>2, <1>6, <1>7, <1>9, <1>12
    <2>4. offset + res <= Len(file'[j])
      BY <1>2, <1>6, <1>12
    <2>. QED  BY <1>1, <1>9, <1>12, <2>1, <2>2, <2>3, <2>4 DEF Follows
  <1>14. y.request # "KILL_ALL"
    BY <1>1, <1>9 DEF Follows
  <1>15. view[v].cmd.request # "KILL_ALL"
    BY <1>0 DEF IInv, Signals, Means
  <1>. QED  BY <1>15, <1>9, <1>10, <1>11, <1>12, <1>13, <1>14, FollowsStep

-----------------------------------------------------------------------------
(* Every step keeps the invariant.                                         *)
LEMMA NextIInv == IInv /\ [Next]_vars => IInv'
  <1> SUFFICES ASSUME IInv, [Next]_vars PROVE IInv'
    OBVIOUS
  <1>1. CASE \E line \in JobLines : Newjob(line)
    <2>1. JobsInv' /\ Calm
      BY <1>1, NewjobStep DEF IInv
    <2>. QED  BY <1>1, <2>1, JobsAlone DEF Newjob
  <1>2. CASE Runjob
    BY <1>2, RunjobStep, JobsAlone DEF IInv, Runjob
  <1>3. ASSUME NEW j \in JobIds, RunjobOk(j)
        PROVE  IInv'
    BY <1>3, RunjobOkStep, JobsAlone DEF IInv, RunjobOk
  <1>4. ASSUME NEW j \in JobIds, EndJob(j)
        PROVE  IInv'
    BY <1>4, EndJobTold
  <1>5. ASSUME NEW v \in Viewers, Serve(v)
        PROVE  IInv'
    BY <1>5, SendOutputStep, OtherAnswers, WaitRunningJobStep DEF Serve
  <1>6. ASSUME NEW j \in JobIds, JobClient(j)
        PROVE  IInv'
    <2>1. CASE RunChild(j)
      BY <2>1, RunChildStep, JobsAlone DEF IInv, RunChild
    <2>2. ASSUME NEW e \in ExitCodes, Exits(j, e)
          PROVE  IInv'
      BY <2>2, ExitsStep, JobsAlone DEF IInv, Exits
    <2>. QED  BY <1>6, <2>1, <2>2 DEF JobClient
  <1>7. ASSUME NEW j \in JobIds, NEW ch \in Chars, Write(j, ch)
        PROVE  IInv'
    BY <1>7, WriteStep, JobsAlone DEF IInv, Write
  <1>8. CASE ClearFinished
    BY <1>8, ClearFinishedStep, JobsAlone DEF IInv, ClearFinished
  <1>9. ASSUME NEW v \in Viewers, NEW cmd \in ViewCommands, Type(v, cmd)
        PROVE  IInv'
    BY <1>9, TypeStep
  <1>10. ASSUME NEW v \in Viewers, Viewer(v)
         PROVE  IInv'
    BY <1>10, ShowsStep, KillStep, OutputStoredStep, OpenFileStep,
       TailSelectStep, TailReadStep DEF Viewer
  <1>11. CASE UNCHANGED vars
    <2>1. UNCHANGED <<firstjob, first_finished_job, jobids, destroyed, job,
                      first_notify, file, view>>
      BY <1>11 DEF vars, jobVars
    <2>2. JobsInv'
      BY <2>1 DEF IInv, JobsInv, JobTypes, Lists, Reports, Reported
    <2>3. Calm
      <3>1. \A j \in JobIds : Len(file[j]) \in Nat
        BY LenProperties DEF IInv, JobsInv, JobTypes
      <3>. QED  BY <2>1, <3>1 DEF Calm, Begun, Gone
    <2>. QED  BY <2>1, <2>2, <2>3, JobsAlone
  <1>. QED
    BY <1>1, <1>2, <1>3, <1>4, <1>5, <1>6, <1>7, <1>8, <1>9, <1>10, <1>11
       DEF Next, ServerLoop

(* The invariant holds in every reachable state.                           *)
LEMMA Invariance == Spec => []IInv
  <1>. QED  BY InitIInv, NextIInv, PTL DEF Spec

(* tail_file and the two requests of c_tail and c_cat: a viewer that ends  *)
(* by itself has shown the whole output of a job that has ended, and of a  *)
(* named one it returns the errorlevel.                                    *)
THEOREM TailIsComplete == Spec => []TailComplete
  <1>1. IInv => TailComplete
    <2> SUFFICES ASSUME IInv, NEW v \in Viewers,
                        view[v].cmd.request \in {"TAIL", "CAT"},
                        view[v].pc = "done"
                 PROVE  LET j == view[v].job
                        IN  /\ view[v].offset = Len(file[j])
                            /\ job[j].proc = "ended" \/ j \in destroyed
                            /\ view[v].cmd.jobid = j /\ j \notin destroyed =>
                                 view[v].end_res = job[j].errorlevel
      BY DEF TailComplete
    <2>1. PICK j \in JobIds : view[v].job = j /\ Follows(v, j)
      BY FollowedFile DEF Tails
    <2>. QED  BY <2>1 DEF Follows, Gone, ResultOf
  <1>. QED  BY <1>1, Invariance, PTL

(* c_kill_job and c_kill_all_jobs: whatever the memory of a new job holds, *)
(* after RUNJOB_OK of the jobs asked about -k signals the group that is    *)
(* meant and -T all the groups that run, and nothing else but, for a job   *)
(* that is being skipped, process 1.                                       *)
THEOREM SignalsAreForJobs == Spec => []SignalsReachJobs
  <1>1. IInv => SignalsReachJobs
    BY DEF IInv, Signals, Means, SignalsReachJobs, Targets
  <1>. QED  BY <1>1, Invariance, PTL

(* Only tail_file itself leaves the state in which the file is opened.     *)
LEMMA OnlyOpenFile ==
    ASSUME IInv, [Next]_vars, NEW v \in Viewers,
           view[v].pc = "open", view'[v].pc = "select"
    PROVE  OpenFile(v)
  <1>0. view[v] \in ViewRecord /\ view \in [Viewers -> ViewRecord]
    BY DEF IInv, ViewTypes
  <1>1. view'[v] # view[v] /\ view'[v].pc # view[v].pc
    OBVIOUS
  <1>2. ASSUME UNCHANGED view
        PROVE  FALSE
    BY <1>1, <1>2
  <1>3. ASSUME NEW j \in JobIds, EndJob(j)
        PROVE  FALSE
    <2>1. PICK a : a = [NoAnswer EXCEPT !.type = "WAITJOB_OK",
                                        !.errorlevel = job[j].errorlevel]
      OBVIOUS
    <2>2. view'[v] = IF Told(v, j) THEN [view[v] EXCEPT !.answer = a] ELSE view[v]
      BY <1>3, <2>1 DEF EndJob
    <2>. QED  BY <1>0, <1>1, <2>2 DEF ViewRecord
  <1>4. ASSUME NEW u \in Viewers, NEW request, NEW a, NEW jobs,
               Answers(u, request, a, jobs)
        PROVE  FALSE
    BY <1>0, <1>1, <1>4 DEF Answers, ViewRecord
  <1>5. ASSUME NEW u \in Viewers, Serve(u)
        PROVE  FALSE
    BY <1>4, <1>5 DEF Serve, SendOutput, SendOutputLine, WaitRunningJob,
                      KillAllJobs, JobInfo
  <1>6. ASSUME NEW u \in Viewers, NEW cmd \in ViewCommands, Type(u, cmd)
        PROVE  FALSE
    BY <1>0, <1>1, <1>6 DEF Type
  <1>7. ASSUME NEW u \in Viewers, Viewer(u)
        PROVE  u = v /\ OpenFile(u)
    <2>1. u = v
      BY <1>0, <1>1, <1>7 DEF Viewer, Shows, RequestFails, OutputStored,
         OutputNotStored, KillJob, KillAll, OpenFile, TailSelect, TailRead
    <2>. QED
      BY <1>7, <2>1 DEF Viewer, Shows, RequestFails, OutputStored,
         OutputNotStored, KillJob, KillAll, TailSelect, TailRead, Receives
  <1>8. ASSUME NEW j \in JobIds, JobClient(j)
        PROVE  UNCHANGED view
    BY <1>8 DEF JobClient, RunChild, Exits
  <1>. QED
    BY <1>2, <1>3, <1>5, <1>6, <1>7, <1>8
       DEF Next, ServerLoop, Newjob, Runjob, RunjobOk, Write, ClearFinished, vars

(* seek_at_last_lines, from an action of the reachable states: -t begins   *)
(* where LastLines line ends, or all of them, are left, and in the middle  *)
(* of a line only if a whole block is left.                                *)
THEOREM LastLinesAreShown == Spec => LastLinesShown
  <1>1. ASSUME IInv, [Next]_vars, NEW v \in Viewers, NEW text \in Range(file),
               NEW o \in 0 .. Len(text), TailBegins(v, text, o)
        PROVE  LET all == NewLines(text)
               IN  /\ Cardinality({n \in all : n > o}) =
                        IF Cardinality(all) < LastLines THEN Cardinality(all)
                        ELSE LastLines
                   /\ LineStart(text, o) \/ Len(text) - o >= BSIZE
    <2>0. view[v].cmd.request = "TAIL" /\ view[v].pc = "open"
          /\ view'[v].pc = "select"
      BY <1>1 DEF TailBegins
    <2>1. PICK j \in JobIds : view[v].job = j /\ file[j] \in Seq(Chars)
      BY <1>1, <2>0, FollowedFile DEF Tails
    <2>2. view[v] \in ViewRecord /\ view \in [Viewers -> ViewRecord]
      BY <1>1 DEF IInv, ViewTypes
    <2>3. OpenFile(v)
      BY <1>1, <2>0, OnlyOpenFile
    <2>4. view'[v].offset = SeekAtLastLines(file[j], LastLines)
      BY <2>0, <2>1, <2>2, <2>3 DEF OpenFile, ViewRecord
    <2>5. text = file[j] /\ o = view'[v].offset
      BY <1>1, <2>1 DEF TailBegins
    <2>6. Enough(text, LastLines, o)
      BY <2>1, <2>4, <2>5, SeekFacts
    <2>. QED  BY <2>6 DEF Enough, EndsBehind
  <1>2. IInv /\ [Next]_vars =>
          [\A v \in Viewers : \A text \in Range(file) :
             \A o \in 0 .. Len(text) : TailBegins(v, text, o) =>
               LET all == NewLines(text)
               IN  /\ Cardinality({n \in all : n > o}) =
                        IF Cardinality(all) < LastLines THEN Cardinality(all)
                        ELSE LastLines
                   /\ LineStart(text, o) \/ Len(text) - o >= BSIZE]_vars
    BY <1>1
  <1>. QED  BY <1>2, Invariance, PTL DEF Spec, LastLinesShown
=============================================================================
