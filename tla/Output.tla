------------------------------- MODULE Output -------------------------------
(***************************************************************************)
(* Looking at jobs from outside: -t and -c follow the output file of a     *)
(* job, -o and -p show its file and its process group, -k and -T send      *)
(* SIGTERM to one or to all of the groups, -i shows the information kept   *)
(* about it (client.c, tail.c and the functions of jobs.c behind them).    *)
(*                                                                         *)
(* A viewer asks the server and then acts on an answer that may be out of  *)
(* date: the job's client announces the process and the file only after    *)
(* the server has marked the job RUNNING, the command writes while the     *)
(* file is read, ends while the viewer is between its two requests, and    *)
(* the result may be cleared.  Module Server has the server's loop; here   *)
(* one handled message is one action, and a job takes one slot.            *)
(***************************************************************************)
EXTENDS Integers, Sequences, FiniteSets, SequencesExt

CONSTANTS
    Viewers,        \* the ts processes that look at jobs
    ViewCommands,   \* their command lines
    JobLines,       \* the command lines that submit jobs
    ExitCodes,      \* how a command may end
    JobIdBound,     \* bound: the number of jobs ever submitted
    MaxSlots,       \* max_slots
    MaxText,        \* bound: the length of an output file
    BSIZE,          \* the block size of tail.c (1024)
    LastLines,      \* the lines -t shows (10)
    Garbage         \* what the memory of a new job may hold for its pid

JobIds == 0 .. (JobIdBound - 1)

(* A character of an output file: the end of a line, or any other.         *)
Chars == {"nl", "x"}

(* The process group of the command of job j.  1 is the system's init, and *)
(* to kill(), 0 is the sender's own group.                                 *)
Pid(j) == j + 2
Pids   == {Pid(j) : j \in JobIds}

JobLine     == [store_output: BOOLEAN, skipped: BOOLEAN]
ViewCommand == [request: {"TAIL", "CAT", "SHOW_PID", "SHOW_OUTPUT_FILE",
                          "KILL_JOB", "KILL_ALL", "INFO"},
                jobid: JobIds \cup {-1}]

ASSUME OutputAssumption ==
    /\ IsFiniteSet(Viewers)
    /\ ViewCommands \subseteq ViewCommand
    /\ \A cmd \in ViewCommands : cmd.request = "KILL_ALL" => cmd.jobid = -1
    /\ JobLines \subseteq JobLine
    /\ ExitCodes \subseteq Int
    /\ JobIdBound \in Nat /\ MaxSlots \in Nat /\ MaxText \in Nat
    /\ BSIZE \in Nat \ {0} /\ LastLines \in Nat \ {0}
    /\ Garbage \subseteq Int

Ended == {"FINISHED", "SKIPPED"}

(* struct Job, and the job's client, before s_newjob.  output_filename     *)
(* says whether there is one; proc is the client's command: "none",        *)
(* "running" or "ended"; reports are the messages RUNJOB_OK and ENDJOB     *)
(* that the client has sent and the server has not read.  announced is a   *)
(* history: the server has handled RUNJOB_OK.                              *)
NoJob == [state |-> "NONE", store_output |-> FALSE, skipped |-> FALSE,
          pid |-> 0, output_filename |-> FALSE, errorlevel |-> 0,
          proc |-> "none", reports |-> <<>>, announced |-> FALSE]

(* The server's answer to a viewer; the type "" is none, as it is for the  *)
(* viewer's request.  pids are the process groups in the answer, job is    *)
(* the one whose file it names, or -1.                                     *)
NoAnswer == [type |-> "", pids |-> {}, job |-> -1, errorlevel |-> 0]

(* A viewer: where it is ("idle", "ask", "open", "select", "read", "done"  *)
(* or "failed") and in which command, the messages in flight, the          *)
(* variables of tail_file and its place in the file, and three histories:  *)
(* early says that an answer was about a job that was not announced,       *)
(* running are the groups whose command ran when -T was answered, hit are  *)
(* the arguments of kill(-pid).                                            *)
NoView == [pc |-> "idle", cmd |-> [request |-> "INFO", jobid |-> -1],
           request |-> "", answer |-> NoAnswer, job |-> -1,
           offset |-> 0, waiting_end |-> TRUE, end_res |-> 0,
           early |-> FALSE, running |-> {}, hit |-> {}]

VARIABLES
    firstjob, first_finished_job,   \* the queue and the list of results
    job,                            \* the struct Job of every id
    jobids,                         \* the next id
    first_notify,                   \* who waits for which job
    destroyed,                      \* the jobs whose memory was freed
    file,                           \* the output file of every job
    view                            \* the viewers

jobVars == <<firstjob, first_finished_job, jobids, destroyed>>
vars    == <<jobVars, job, first_notify, file, view>>

Init ==
    /\ firstjob = <<>> /\ first_finished_job = <<>>
    /\ job = [j \in JobIds |-> NoJob]
    /\ jobids = 0
    /\ first_notify = {}
    /\ destroyed = {}
    /\ file = [j \in JobIds |-> <<>>]
    /\ view = [v \in Viewers |-> NoView]

-----------------------------------------------------------------------------
(* Jobs, from NEWJOB to the end.                                           *)

Running    == {j \in JobIds : job[j].state = "RUNNING"}
busy_slots == Cardinality(Running)

(* s_newjob and init_job.  Nothing sets pid: it is what the memory held.   *)
Newjob(line) ==
    /\ jobids \in JobIds
    /\ \E pid \in Garbage :
         job' = [job EXCEPT ![jobids] =
           [NoJob EXCEPT !.state = "QUEUED", !.pid = pid,
                         !.store_output = line.store_output,
                         !.skipped = line.skipped]]
    /\ firstjob' = Append(firstjob, jobids)
    /\ jobids' = jobids + 1
    /\ UNCHANGED <<first_finished_job, destroyed, first_notify, file, view>>

(* next_run_job: RUNJOB is sent to the client of the first queued job.     *)
Runjob ==
    /\ busy_slots < MaxSlots
    /\ \E q \in DOMAIN firstjob :
         /\ job[firstjob[q]].state = "QUEUED"
         /\ \A r \in DOMAIN firstjob :
              r < q => job[firstjob[r]].state # "QUEUED"
         /\ job' = [job EXCEPT ![firstjob[q]].state = "RUNNING"]
    /\ UNCHANGED <<jobVars, first_notify, file, view>>

(* run_child makes the output file, with the command in its first line;    *)
(* run_parent sends RUNJOB_OK.  A skipped job is only reported, with -1    *)
(* for its pid.                                                            *)
RunChild(j) ==
    /\ job[j].state = "RUNNING" /\ job[j].proc = "none"
    /\ \/ /\ ~job[j].skipped
          /\ job' = [job EXCEPT ![j].proc = "running",
                                ![j].reports = <<"RUNJOB_OK">>]
          /\ file' = [file EXCEPT ![j] =
               IF job[j].store_output THEN <<"nl">> ELSE <<>>]
       \/ /\ job[j].skipped
          /\ job' = [job EXCEPT ![j].proc = "ended",
                                ![j].errorlevel = -1,
                                ![j].reports = <<"RUNJOB_OK", "ENDJOB">>]
          /\ UNCHANGED file
    /\ UNCHANGED <<jobVars, first_notify, view>>

(* The command writes; the bound is MaxText.                               *)
Write(j, ch) ==
    /\ job[j].proc = "running" /\ job[j].store_output
    /\ Len(file[j]) < MaxText
    /\ file' = [file EXCEPT ![j] = Append(@, ch)]
    /\ UNCHANGED <<jobVars, job, first_notify, view>>

(* The command ends and its client says so.                                *)
Exits(j, errorlevel) ==
    /\ job[j].proc = "running"
    /\ job' = [job EXCEPT ![j].proc = "ended", ![j].errorlevel = errorlevel,
                          ![j].reports = Append(@, "ENDJOB")]
    /\ UNCHANGED <<jobVars, first_notify, file, view>>

(* A plausible mistake: pid is set only where there is a file name.        *)
RunjobOkOfFile(j) ==
    /\ job[j].reports # <<>> /\ Head(job[j].reports) = "RUNJOB_OK"
    /\ job' = [job EXCEPT ![j].pid =
                             IF ~job[j].skipped /\ job[j].store_output
                             THEN Pid(j) ELSE @,
                          ![j].output_filename =
                             ~job[j].skipped /\ job[j].store_output,
                          ![j].announced = TRUE,
                          ![j].reports = Tail(@)]
    /\ UNCHANGED <<jobVars, first_notify, file, view>>

(* s_process_runjob_ok.                                                    *)
RunjobOk(j) ==
    /\ job[j].reports # <<>> /\ Head(job[j].reports) = "RUNJOB_OK"
    /\ job' = [job EXCEPT ![j].pid = IF job[j].skipped THEN -1 ELSE Pid(j),
                          ![j].output_filename =
                             ~job[j].skipped /\ job[j].store_output,
                          ![j].announced = TRUE,
                          ![j].reports = Tail(@)]
    /\ UNCHANGED <<jobVars, first_notify, file, view>>

(* A plausible mistake: nobody is told of a job that failed.               *)
ToldOfSuccess(v, j) == <<v, j>> \in first_notify /\ job[j].errorlevel = 0

(* check_notify_list: viewer v is told that job j has ended.               *)
Told(v, j) == <<v, j>> \in first_notify

(* job_finished, which puts the job into the list of results, and          *)
(* check_notify_list.                                                      *)
EndJob(j) ==
    /\ job[j].reports # <<>> /\ Head(job[j].reports) = "ENDJOB"
    /\ job' = [job EXCEPT ![j].state = IF job[j].skipped THEN "SKIPPED"
                                       ELSE "FINISHED",
                          ![j].reports = Tail(@)]
    /\ \E q \in DOMAIN firstjob :
         firstjob[q] = j /\ firstjob' = RemoveAt(firstjob, q)
    /\ first_finished_job' = Append(first_finished_job, j)
    /\ view' = [v \in Viewers |->
         IF Told(v, j)
         THEN [view[v] EXCEPT !.answer =
                 [NoAnswer EXCEPT !.type = "WAITJOB_OK",
                                  !.errorlevel = job[j].errorlevel]]
         ELSE view[v]]
    /\ first_notify' = {n \in first_notify : n[2] # j}
    /\ UNCHANGED <<jobids, destroyed, file>>

(* -C, by some other client.                                               *)
ClearFinished ==
    /\ first_finished_job # <<>>
    /\ destroyed' = destroyed \cup Range(first_finished_job)
    /\ job' = [j \in JobIds |->
         IF j \in Range(first_finished_job) THEN NoJob ELSE job[j]]
    /\ first_finished_job' = <<>>
    /\ UNCHANGED <<firstjob, jobids, first_notify, file, view>>

-----------------------------------------------------------------------------
(* The server answers the viewers.                                         *)

(* The job that a viewer gets when it names none, as a set of at most one: *)
(* the first of the queue if any job runs, or else the last result.        *)
LastRun ==
    IF busy_slots > 0 THEN {firstjob[1]}
    ELSE {Last(first_finished_job) : n \in {1} \cap DOMAIN first_finished_job}

(* get_job, for a viewer that names one.                                   *)
Named(jobid) == {jobid} \cap (Range(firstjob) \cup Range(first_finished_job))

Found(jobid) == IF jobid = -1 THEN LastRun ELSE Named(jobid)

(* Viewer v's request is answered, from what is known of jobs.             *)
Answers(v, request, a, jobs) ==
    /\ view[v].request = request
    /\ view' = [view EXCEPT
         ![v].request = "", ![v].answer = a,
         ![v].early = @ \/ \E j \in jobs : ~job[j].announced,
         ![v].running = {Pid(j) : j \in {k \in JobIds :
             request = "KILL_ALL" /\ job[k].proc = "running"}}]

(* s_send_output of a job found.  A queued job is refused if it was named, *)
(* and shown without a file otherwise.                                     *)
SendOutput(v) ==
    LET jobid == view[v].cmd.jobid
    IN  \E j \in Found(jobid) :
          /\ jobid = -1 \/ job[j].state # "QUEUED"
          /\ job[j].state # "SKIPPED"
          /\ Answers(v, "ASK_OUTPUT",
               [NoAnswer EXCEPT !.type = "ANSWER_OUTPUT",
                  !.pids = {job[j].pid},
                  !.job = IF job[j].store_output /\ job[j].output_filename
                          THEN j ELSE -1], {j})
          /\ UNCHANGED <<jobVars, job, first_notify, file>>

SendOutputLine(v) ==
    LET jobid == view[v].cmd.jobid
    IN  /\ \A j \in Found(jobid) :
             \/ jobid # -1 /\ job[j].state = "QUEUED"
             \/ job[j].state = "SKIPPED"
        /\ Answers(v, "ASK_OUTPUT", [NoAnswer EXCEPT !.type = "LIST_LINE"], {})
        /\ UNCHANGED <<jobVars, job, first_notify, file>>

(* s_wait_running_job: the answer comes at once, or when the job ends.     *)
WaitRunningJob(v) ==
    /\ \/ \E j \in Found(view[v].cmd.jobid) :
            \/ /\ job[j].state \in Ended
               /\ Answers(v, "WAIT_RUNNING_JOB",
                    [NoAnswer EXCEPT !.type = "WAITJOB_OK",
                                     !.errorlevel = job[j].errorlevel], {})
               /\ UNCHANGED first_notify
            \/ /\ job[j].state \notin Ended
               /\ Answers(v, "WAIT_RUNNING_JOB", NoAnswer, {})
               /\ first_notify' = first_notify \cup {<<v, j>>}
       \/ /\ Found(view[v].cmd.jobid) = {}
          /\ Answers(v, "WAIT_RUNNING_JOB",
                     [NoAnswer EXCEPT !.type = "LIST_LINE"], {})
          /\ UNCHANGED first_notify
    /\ UNCHANGED <<jobVars, job, file>>

(* s_kill_all_jobs: the pid of every job in the state RUNNING.             *)
KillAllJobs(v) ==
    /\ Answers(v, "KILL_ALL",
         [NoAnswer EXCEPT !.type = "COUNT_RUNNING",
                          !.pids = {job[j].pid : j \in Running}], Running)
    /\ UNCHANGED <<jobVars, job, first_notify, file>>

(* s_job_info of any job that is known.                                    *)
JobInfo(v) ==
    /\ Answers(v, "INFO",
         [NoAnswer EXCEPT !.type = IF Found(view[v].cmd.jobid) = {}
                                   THEN "LIST_LINE" ELSE "INFO_DATA"], {})
    /\ UNCHANGED <<jobVars, job, first_notify, file>>

-----------------------------------------------------------------------------
(* tail.c                                                                  *)

NewLines(text) == {n \in DOMAIN text : text[n] = "nl"}

(* seek_at_last_lines, by where it is: it reads the block before           *)
(* last_lseek, which begins at begin, and has then found lines_found line  *)
(* ends.  It goes on until there are enough of them, and stops behind the  *)
(* one that is too many, or where the block begins.                        *)
SeekBack(text, lines) ==
    LET ends == NewLines(text)
        seek[last_lseek \in 0 .. Len(text)] ==
          LET begin == IF last_lseek < BSIZE THEN 0 ELSE last_lseek - BSIZE
              lines_found == Cardinality({n \in ends : n > begin})
          IN  IF last_lseek = 0 THEN 0
              ELSE IF lines_found < lines THEN seek[begin]
              ELSE IF lines_found = lines THEN begin
              ELSE CHOOSE n \in ends :
                     Cardinality({m \in ends : m > n}) = lines
    IN  seek

(* A plausible mistake: the end of the last line counts as a line.         *)
SeekAtLastLinesLess(text, lines) == SeekBack(text, lines - 1)[Len(text)]

(* How many characters of the file are passed over.                        *)
SeekAtLastLines(text, lines) == SeekBack(text, lines)[Len(text)]

-----------------------------------------------------------------------------
(* The viewers.                                                            *)

(* A user types a command line: c_tail and the others send their request.  *)
Type(v, cmd) ==
    /\ view[v].pc = "idle"
    /\ view' = [view EXCEPT ![v] =
         [NoView EXCEPT !.pc = "ask", !.cmd = cmd,
            !.request = IF cmd.request = "KILL_ALL" THEN "KILL_ALL"
                        ELSE IF cmd.request = "INFO" THEN "INFO"
                        ELSE "ASK_OUTPUT"]]
    /\ UNCHANGED <<jobVars, job, first_notify, file>>

(* Viewer v, in command request, goes on from its answer.                  *)
Receives(v, requests, type) ==
    /\ view[v].pc = "ask"
    /\ view[v].cmd.request \in requests
    /\ view[v].answer.type = type
    /\ UNCHANGED <<jobVars, job, first_notify, file>>

(* -i prints the lines of either answer; -p and -o print what they got.    *)
Shows(v) ==
    /\ \/ Receives(v, {"INFO"}, "INFO_DATA")
       \/ Receives(v, {"INFO"}, "LIST_LINE")
       \/ Receives(v, {"SHOW_PID"}, "ANSWER_OUTPUT")
       \/ /\ Receives(v, {"SHOW_OUTPUT_FILE"}, "ANSWER_OUTPUT")
          /\ view[v].answer.job # -1
    /\ view' = [view EXCEPT ![v].pc = "done", ![v].job = view[v].answer.job]

(* get_output_file has got a line instead: the program exits.              *)
RequestFails(v) ==
    /\ view[v].cmd.request # "INFO"
    /\ Receives(v, {view[v].cmd.request}, "LIST_LINE")
    /\ view' = [view EXCEPT ![v].pc = "failed"]

(* c_tail and c_cat send a second request before they open the file.       *)
OutputStored(v) ==
    /\ Receives(v, {"TAIL", "CAT"}, "ANSWER_OUTPUT")
    /\ view[v].answer.job # -1
    /\ view' = [view EXCEPT ![v].pc = "open", ![v].job = view[v].answer.job,
                            ![v].request = "WAIT_RUNNING_JOB",
                            ![v].answer = NoAnswer]

(* There is no name, and -t, -c and -o give up.                            *)
OutputNotStored(v) ==
    /\ Receives(v, {"TAIL", "CAT", "SHOW_OUTPUT_FILE"}, "ANSWER_OUTPUT")
    /\ view[v].answer.job = -1
    /\ view' = [view EXCEPT ![v].pc = "failed"]

(* c_kill_job refuses the pids -1 and 0, and signals the group otherwise.  *)
KillJob(v) ==
    /\ Receives(v, {"KILL_JOB"}, "ANSWER_OUTPUT")
    /\ view' = [view EXCEPT
         ![v].pc = IF view[v].answer.pids \subseteq {-1, 0} THEN "failed"
                   ELSE "done",
         ![v].hit = view[v].answer.pids \ {-1, 0}]

(* c_kill_all_jobs takes every pid as it comes.                            *)
KillAll(v) ==
    /\ Receives(v, {"KILL_ALL"}, "COUNT_RUNNING")
    /\ view' = [view EXCEPT ![v].pc = "done", ![v].hit = view[v].answer.pids]

(* tail_file opens the file and, for -t, goes to its last lines.           *)
OpenFile(v) ==
    /\ view[v].pc = "open"
    /\ view' = [view EXCEPT
         ![v].pc = "select",
         ![v].offset = IF view[v].cmd.request = "TAIL"
                       THEN SeekAtLastLines(file[view[v].job], LastLines)
                       ELSE 0]
    /\ UNCHANGED <<jobVars, job, first_notify, file>>

(* select returns, at the latest after a second; if there is an answer, it *)
(* is the end of the job, or a line, after which the program exits.        *)
TailSelect(v) ==
    LET a == view[v].answer
    IN  /\ view[v].pc = "select"
        /\ view' = [view EXCEPT
             ![v].pc = IF a.type = "LIST_LINE" THEN "failed" ELSE "read",
             ![v].waiting_end = @ /\ a.type = "",
             ![v].end_res = IF a.type = "WAITJOB_OK" THEN a.errorlevel ELSE @,
             ![v].answer = NoAnswer]
        /\ UNCHANGED <<jobVars, job, first_notify, file>>

(* A plausible mistake: the end of the job is the end of the loop.         *)
StopsEarly(v, res) == ~view[v].waiting_end

(* The condition of tail_file's loop, after a read of res characters: the  *)
(* end of the file was reached, and the end of the job was known before.   *)
Stops(v, res) == res = 0 /\ ~view[v].waiting_end

(* A block is read and printed.                                            *)
TailRead(v) ==
    LET left == Len(file[view[v].job]) - view[v].offset
        res  == IF left < BSIZE THEN left ELSE BSIZE
    IN  /\ view[v].pc = "read"
        /\ view' = [view EXCEPT
             ![v].offset = @ + res,
             ![v].pc = IF Stops(v, res) THEN "done" ELSE "select"]
        /\ UNCHANGED <<jobVars, job, first_notify, file>>

-----------------------------------------------------------------------------
Serve(v) ==
    \/ SendOutput(v) \/ SendOutputLine(v) \/ WaitRunningJob(v)
    \/ KillAllJobs(v) \/ JobInfo(v)

ServerLoop ==
    \/ Runjob
    \/ \E j \in JobIds : RunjobOk(j) \/ EndJob(j)
    \/ \E v \in Viewers : Serve(v)

JobClient(j) == RunChild(j) \/ \E e \in ExitCodes : Exits(j, e)

Viewer(v) ==
    \/ Shows(v) \/ RequestFails(v) \/ OutputStored(v) \/ OutputNotStored(v)
    \/ KillJob(v) \/ KillAll(v) \/ OpenFile(v) \/ TailSelect(v) \/ TailRead(v)

Next ==
    \/ \E line \in JobLines : Newjob(line)
    \/ ServerLoop
    \/ \E j \in JobIds : JobClient(j)
    \/ \E j \in JobIds : \E ch \in Chars : Write(j, ch)
    \/ ClearFinished
    \/ \E v \in Viewers : \E cmd \in ViewCommands : Type(v, cmd)
    \/ \E v \in Viewers : Viewer(v)

Spec == Init /\ [][Next]_vars

(* The server and the clients run; every command ends sooner or later, and *)
(* need not write anything.  Nobody has to type anything.  The server      *)
(* reaches every connection in each round of its loop.                     *)
FairSpec ==
    /\ Spec
    /\ WF_vars(Runjob)
    /\ \A j \in JobIds : WF_vars(RunjobOk(j) \/ EndJob(j))
                           /\ WF_vars(JobClient(j))
    /\ \A v \in Viewers : WF_vars(Serve(v)) /\ WF_vars(Viewer(v))

-----------------------------------------------------------------------------
(* Where -t begins: offset o of text.                                      *)
TailBegins(v, text, o) ==
    /\ view[v].cmd.request = "TAIL"
    /\ view[v].pc = "open" /\ view'[v].pc = "select"
    /\ text = file[view[v].job] /\ o = view'[v].offset

LineStart(text, o) == o = 0 \/ text[o] = "nl"

(* -t shows the last lines: at first, LastLines line ends or all of them,  *)
(* wherever the blocks of seek_at_last_lines happen to begin and whether   *)
(* the last line is complete or not.  The first line that it shows is      *)
(* whole, unless there is at least a whole block to show: the search also  *)
(* ends, in the middle of a line, where a block with the last line end it  *)
(* needs begins.                                                           *)
LastLinesShown ==
    [][\A v \in Viewers : \A text \in Range(file) :
         \A o \in 0 .. Len(text) : TailBegins(v, text, o) =>
           LET all == NewLines(text)
           IN  /\ Cardinality({n \in all : n > o}) =
                    IF Cardinality(all) < LastLines THEN Cardinality(all)
                    ELSE LastLines
               /\ LineStart(text, o) \/ Len(text) - o >= BSIZE]_vars

(* -t and -c that end by themselves have shown everything the command ever *)
(* wrote, although the two requests may find different jobs when none is   *)
(* named, and the last characters may be written between a read and the    *)
(* news of the end.  Of a named job they return the errorlevel.            *)
TailComplete ==
    \A v \in Viewers :
        /\ view[v].cmd.request \in {"TAIL", "CAT"}
        /\ view[v].pc = "done"
        => LET j == view[v].job
           IN  /\ view[v].offset = Len(file[j])
               /\ job[j].proc = "ended" \/ j \in destroyed
               /\ view[v].cmd.jobid = j /\ j \notin destroyed =>
                    view[v].end_res = job[j].errorlevel

(* Unless the server was asked before it knew of the process: -k signals   *)
(* the group of the job it names, or of some job if it names none; -T      *)
(* signals groups of jobs, all of those whose command ran when the server  *)
(* was asked, and, for a job that is just being skipped, the argument -1.  *)
SignalsReachJobs ==
    \A v \in Viewers :
        LET cmd == view[v].cmd
        IN  \/ view[v].early
            \/ /\ view[v].hit \subseteq
                     IF cmd.request = "KILL_ALL" THEN Pids \cup {-1}
                     ELSE IF cmd.jobid = -1 THEN Pids ELSE {Pid(cmd.jobid)}
               /\ cmd.request = "KILL_ALL" /\ view[v].pc = "done" =>
                    view[v].running \subseteq view[v].hit

(* Every viewer returns, if every command ends.                            *)
ViewersReturn ==
    \A v \in Viewers :
        view[v].pc = "ask" ~> view[v].pc \in {"done", "failed"}
=============================================================================
