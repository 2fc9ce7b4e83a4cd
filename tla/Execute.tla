------------------------------ MODULE Execute ------------------------------
(***************************************************************************)
(* A ts client runs its job (execute.c, signals.c, mail.c): the part of    *)
(* its life from RUNJOB, when module Server has it in "wait_logdir", to    *)
(* ENDJOB.                                                                 *)
(*                                                                         *)
(* Five processes work together.  The client (run_parent) forks the child  *)
(* that becomes the command (run_child), which may fork gzip; afterwards   *)
(* the client forks sendmail and the program of TS_ONFINISH.  The child    *)
(* tells the client the name of the output file through a pipe.  The       *)
(* client waits with wait(), which takes any child, and SIGINT may come at *)
(* any moment: from the terminal, for the whole group of processes, or for *)
(* the client alone.                                                       *)
(***************************************************************************)
EXTENDS Integers, Sequences, FiniteSets

CONSTANTS
    ExitStatus,     \* what the command may call exit() with
    MaxOutput,      \* bound: how much there may be in the output file
    MaxSigints      \* bound: the number of SIGINTs

ASSUME ExecuteAssumption ==
    /\ ExitStatus \subseteq Nat
    /\ MaxOutput \in Nat \ {0}
    /\ MaxSigints \in Nat

(* struct Command_line, as parse_opts lets it pass; onfinish: there is a   *)
(* TS_ONFINISH.                                                            *)
Options ==
    {o \in [store_output: BOOLEAN, gzip: BOOLEAN, stderr_apart: BOOLEAN,
            send_output_by_mail: BOOLEAN, should_go_background: BOOLEAN,
            onfinish: BOOLEAN] :
       o.send_output_by_mail => o.store_output /\ ~o.gzip}

(* The children of the client.                                             *)
Children == {"command", "sendmail", "hook"}

(* What an errorlevel may be if it is computed from a status that was      *)
(* never set, as far as anybody asks.                                      *)
UnsetLevels == {-1, 0, 1}

VARIABLES
    options,      \* the command line
    pc,           \* where the client is
    sigint,       \* its disposition of SIGINT: "default", "blocked", "handler"
    pending,      \* a SIGINT is blocked and pending
    result,       \* result.errorlevel, a signed char
    proc,         \* each child: "none", "running", "zombie" or "reaped"
    stage,        \* where the child of run_child is
    status,       \* how it has ended: exited or not, and a code in 0 .. 255
    pipe,         \* the pipe on which it sends the name and the time
    gzip,         \* "none", "running", "ended" or "failed"
    written,      \* how much the command has written
    stored,       \* how much of it is in the output file
    copied,       \* how many blocks of the file copy_output has passed
    mailed,       \* how many of them sendmail has got
    sent,         \* the messages sent to the server
    sigints,      \* bound: the SIGINTs so far
    forwarded,    \* history: the handler has sent SIGINT to the command
    interrupted   \* history: the wait()s that were interrupted

clientVars == <<pc, sigint, pending, result, sent>>
fileVars   == <<written, stored, copied, mailed>>
histVars   == <<sigints, forwarded, interrupted>>
childVars  == <<stage, status, pipe, gzip>>
vars == <<options, clientVars, proc, childVars, fileVars, histVars>>

(* Where the client waits for a child.                                     *)
Waits == {"wait", "mail_wait", "hook_wait"}
Over  == {"ended", "failed", "killed"}

(* RUNJOB has come.                                                        *)
Init ==
    /\ options \in Options
    /\ pc = "get_logdir"
    /\ sigint = "default"
    /\ pending = FALSE
    /\ result = 0
    /\ proc = [c \in Children |-> "none"]
    /\ stage = "file"
    /\ status = [exited |-> TRUE, code |-> 0]
    /\ pipe = <<>>
    /\ gzip = "none"
    /\ written = 0 /\ stored = 0 /\ copied = 0 /\ mailed = 0
    /\ sent = <<>>
    /\ sigints = 0
    /\ forwarded = FALSE
    /\ interrupted = {}

-----------------------------------------------------------------------------
(* run_job and run_parent.                                                 *)

(* get_logdir: a message to the server, and its answer.                    *)
GetLogdir ==
    /\ pc = "get_logdir"
    /\ pc' = "block_sigint"
    /\ sent' = Append(sent, "GET_LOGDIR")
    /\ UNCHANGED <<options, sigint, pending, result, proc, childVars,
                   fileVars, histVars>>

(* A plausible mistake: SIGINT is not blocked.                             *)
BlockSigintNot ==
    /\ pc = "block_sigint"
    /\ pc' = "fork"
    /\ UNCHANGED <<options, sigint, pending, result, sent, proc, childVars,
                   fileVars, histVars>>

BlockSigint ==
    /\ pc = "block_sigint"
    /\ pc' = "fork"
    /\ sigint' = "blocked"
    /\ UNCHANGED <<options, pending, result, sent, proc, childVars,
                   fileVars, histVars>>

Fork ==
    /\ pc = "fork"
    /\ pc' = IF options.store_output THEN "read_name" ELSE "read_time"
    /\ proc' = [proc EXCEPT !["command"] = "running"]
    /\ UNCHANGED <<options, sigint, pending, result, sent, childVars,
                   fileVars, histVars>>

(* error("forking") ends the client.                                       *)
ForkFails ==
    /\ pc = "fork"
    /\ pc' = "failed"
    /\ UNCHANGED <<options, sigint, pending, result, sent, proc, childVars,
                   fileVars, histVars>>

(* A plausible mistake: the client keeps its own copy of p[1] open.        *)
WriterAlways == TRUE

(* Some process has the writing end of the pipe open.  gzip has inherited  *)
(* it.                                                                     *)
Writer ==
    \/ proc["command"] = "running" /\ stage \in {"file", "name", "time"}
    \/ gzip = "running"

(* read: what was sent, or the end of the file, which is an error().       *)
ReadName ==
    /\ pc = "read_name"
    /\ \/ /\ pipe # <<>>
          /\ pc' = "read_time"
          /\ pipe' = Tail(pipe)
       \/ /\ pipe = <<>> /\ ~Writer
          /\ pc' = "failed"
          /\ UNCHANGED pipe
    /\ UNCHANGED <<options, sigint, pending, result, sent, proc, stage,
                   status, gzip, fileVars, histVars>>

ReadTime ==
    /\ pc = "read_time"
    /\ \/ /\ pipe # <<>>
          /\ pc' = "install"
          /\ pipe' = Tail(pipe)
       \/ /\ pipe = <<>> /\ ~Writer
          /\ pc' = "failed"
          /\ UNCHANGED pipe
    /\ UNCHANGED <<options, sigint, pending, result, sent, proc, stage,
                   status, gzip, fileVars, histVars>>

(* The children of C get SIGINT, and those of D die of it.  A child that   *)
(* has not called exec yet dies; a program may have a handler of its own.  *)
(* To a child that has ended the signal does nothing.                      *)
Dying(C) ==
    {D \in SUBSET {c \in C : proc[c] = "running"} :
        "command" \in C /\ proc["command"] = "running" /\ stage # "command"
          => "command" \in D}

Kills(D) ==
    /\ proc' = [c \in Children |-> IF c \in D THEN "zombie" ELSE proc[c]]
    /\ status' = IF "command" \in D THEN [exited |-> FALSE, code |-> 2]
                 ELSE status

(* kill(signals_child_pid, SIGINT) by the handler.                         *)
HandlerKills ==
    /\ forwarded' = TRUE
    /\ \E D \in Dying({"command"}) : Kills(D)

(* A plausible mistake: SIGINT is ignored instead of blocked.              *)
InstallDrops ==
    /\ pc = "install"
    /\ pc' = "runjob_ok"
    /\ sigint' = "handler"
    /\ pending' = FALSE
    /\ UNCHANGED <<options, result, sent, proc, childVars, fileVars,
                   histVars>>

(* unblock_sigint_and_install_handler: a pending SIGINT comes now.         *)
Install ==
    /\ pc = "install"
    /\ pc' = "runjob_ok"
    /\ sigint' = "handler"
    /\ pending' = FALSE
    /\ IF pending THEN HandlerKills ELSE UNCHANGED <<proc, status, forwarded>>
    /\ UNCHANGED <<options, result, sent, stage, pipe, gzip, fileVars,
                   sigints, interrupted>>

RunjobOk ==
    /\ pc = "runjob_ok"
    /\ pc' = "wait"
    /\ sent' = Append(sent, "RUNJOB_OK")
    /\ UNCHANGED <<options, sigint, pending, result, proc, childVars,
                   fileVars, histVars>>

(* wait(): the status of any child that has ended, or at once if there is  *)
(* no child left.                                                          *)
ReapsAny ==
    \/ \E c \in Children :
         proc[c] = "zombie" /\ proc' = [proc EXCEPT ![c] = "reaped"]
    \/ (\A c \in Children : proc[c] \in {"none", "reaped"}) /\ UNCHANGED proc

(* A plausible mistake: WEXITSTATUS, which is 0 then, of a command that    *)
(* was killed.                                                             *)
ErrorlevelOfExit(st) ==
    IF ~st.exited THEN 0
    ELSE IF st.code > 127 THEN st.code - 256 ELSE st.code

(* The cast of WEXITSTATUS to a signed char; -1 after a signal.            *)
Errorlevel(st) ==
    IF ~st.exited THEN -1
    ELSE IF st.code > 127 THEN st.code - 256 ELSE st.code

(* wait() for the command.                                                 *)
Wait ==
    /\ pc = "wait"
    /\ pc' = "mail"
    /\ ReapsAny
    /\ result' = Errorlevel(status)
    /\ UNCHANGED <<options, sigint, pending, sent, childVars, fileVars,
                   histVars>>

-----------------------------------------------------------------------------
(* mail.c                                                                  *)

(* run_sendmail and write_header, if there is to be a mail.                *)
RunSendmail ==
    /\ pc = "mail"
    /\ pc' = IF options.send_output_by_mail THEN "open" ELSE "hook"
    /\ proc' = [proc EXCEPT !["sendmail"] =
         IF options.send_output_by_mail THEN "running" ELSE @]
    /\ UNCHANGED <<options, sigint, pending, result, sent, childVars,
                   fileVars, histVars>>

(* A call fails and error() ends the client: the fork of sendmail, the     *)
(* open of copy_output, the fork of hook_on_finish.                        *)
MailFails ==
    /\ \/ pc = "mail" /\ options.send_output_by_mail
       \/ pc = "open"
       \/ pc = "hook" /\ options.onfinish
    /\ pc' = "failed"
    /\ UNCHANGED <<options, sigint, pending, result, sent, proc, childVars,
                   fileVars, histVars>>

OpenOutput ==
    /\ pc = "open"
    /\ pc' = "copy"
    /\ UNCHANGED <<options, sigint, pending, result, sent, proc, childVars,
                   fileVars, histVars>>

(* copy_output, block by block, to the end of the file as it is then.  A   *)
(* sendmail that has ended takes nothing, which is only a warning.         *)
CopyOutput ==
    /\ pc = "copy"
    /\ IF copied < stored
       THEN /\ copied' = copied + 1
            /\ mailed' = IF proc["sendmail"] = "running" THEN mailed + 1
                         ELSE mailed
            /\ UNCHANGED pc
       ELSE pc' = "mail_wait" /\ UNCHANGED <<copied, mailed>>
    /\ UNCHANGED <<options, sigint, pending, result, sent, proc, childVars,
                   written, stored, histVars>>

(* A plausible mistake: nobody waits for sendmail.                         *)
MailWaitNot ==
    /\ pc = "mail_wait"
    /\ pc' = "hook"
    /\ UNCHANGED <<options, sigint, pending, result, sent, proc, childVars,
                   fileVars, histVars>>

MailWait ==
    /\ pc = "mail_wait"
    /\ pc' = "hook"
    /\ ReapsAny
    /\ UNCHANGED <<options, sigint, pending, result, sent, childVars,
                   fileVars, histVars>>

(* hook_on_finish.                                                         *)
HookOnFinish ==
    /\ pc = "hook"
    /\ pc' = IF options.onfinish THEN "hook_wait" ELSE "end"
    /\ proc' = [proc EXCEPT !["hook"] =
         IF options.onfinish THEN "running" ELSE @]
    /\ UNCHANGED <<options, sigint, pending, result, sent, childVars,
                   fileVars, histVars>>

HookWait ==
    /\ pc = "hook_wait"
    /\ pc' = "end"
    /\ ReapsAny
    /\ UNCHANGED <<options, sigint, pending, result, sent, childVars,
                   fileVars, histVars>>

(* c_end_of_job, and the end of the client.                                *)
EndOfJob ==
    /\ pc = "end"
    /\ pc' = "ended"
    /\ sent' = Append(sent, "ENDJOB")
    /\ UNCHANGED <<options, sigint, pending, result, proc, childVars,
                   fileVars, histVars>>

-----------------------------------------------------------------------------
(* run_child, until exec.                                                  *)

ChildAt(s) == proc["command"] = "running" /\ stage = s

(* The child or the command ends.                                          *)
Dies(st) ==
    /\ proc' = [proc EXCEPT !["command"] = "zombie"]
    /\ status' = st

Aborts == Dies([exited |-> FALSE, code |-> 6])

(* The output file is made, with the command line in it, and gzip is       *)
(* started.  With -z and -E together an assert() that compares the result  *)
(* of dup2 with 0 fails always.                                            *)
RunChild ==
    /\ ChildAt("file")
    /\ IF ~options.store_output
       THEN /\ stage' = "time"
            /\ UNCHANGED <<proc, status, gzip, written, stored>>
       ELSE /\ written' = 1 /\ stored' = 1
            /\ IF options.gzip /\ options.stderr_apart
               THEN Aborts /\ UNCHANGED <<stage, gzip>>
               ELSE /\ stage' = "name"
                    /\ gzip' = IF options.gzip THEN "running" ELSE gzip
                    /\ UNCHANGED <<proc, status>>
    /\ UNCHANGED <<options, clientVars, pipe, copied, mailed, histVars>>

(* run_gzip cannot fork: exit(-1).                                         *)
GzipForkFails ==
    /\ ChildAt("file")
    /\ options.store_output /\ options.gzip /\ ~options.stderr_apart
    /\ written' = 1 /\ stored' = 1
    /\ Dies([exited |-> TRUE, code |-> 255])
    /\ UNCHANGED <<options, clientVars, stage, pipe, gzip, copied, mailed,
                   histVars>>

(* mkstemp fails, and with it the assert() after it.                       *)
MkstempFails ==
    /\ ChildAt("file")
    /\ options.store_output
    /\ Aborts
    /\ UNCHANGED <<options, clientVars, stage, pipe, gzip, fileVars,
                   histVars>>

SendName ==
    /\ ChildAt("name")
    /\ stage' = "time"
    /\ pipe' = Append(pipe, "name")
    /\ UNCHANGED <<options, clientVars, proc, status, gzip, fileVars,
                   histVars>>

SendTime ==
    /\ ChildAt("time")
    /\ stage' = "setsid"
    /\ pipe' = Append(pipe, "time")
    /\ UNCHANGED <<options, clientVars, proc, status, gzip, fileVars,
                   histVars>>

(* setsid: the child leaves the client's group.                            *)
Setsid ==
    /\ ChildAt("setsid")
    /\ stage' = "exec"
    /\ UNCHANGED <<options, clientVars, proc, status, pipe, gzip, fileVars,
                   histVars>>

(* execvp; if it fails, exit(-1).                                          *)
Exec ==
    /\ ChildAt("exec")
    /\ \/ stage' = "command" /\ UNCHANGED <<proc, status>>
       \/ Dies([exited |-> TRUE, code |-> 255]) /\ UNCHANGED stage
    /\ UNCHANGED <<options, clientVars, pipe, gzip, fileVars, histVars>>

-----------------------------------------------------------------------------
(* The programs that are run.                                              *)

(* The command writes, to the file or to gzip, or to the terminal.  Where  *)
(* there is no gzip any more it gets an error or SIGPIPE.                  *)
CommandWrites ==
    /\ ChildAt("command")
    /\ options.store_output
    /\ options.gzip => gzip = "running"
    /\ written < MaxOutput
    /\ written' = written + 1
    /\ stored' = IF options.gzip THEN stored ELSE stored + 1
    /\ UNCHANGED <<options, clientVars, proc, childVars, copied, mailed,
                   histVars>>

(* It calls exit(n), of which the system keeps a byte.                     *)
CommandExits(n) ==
    /\ ChildAt("command")
    /\ Dies([exited |-> TRUE, code |-> n % 256])
    /\ UNCHANGED <<options, clientVars, stage, pipe, gzip, fileVars,
                   histVars>>

(* A signal from elsewhere, such as that of ts -k, kills it.               *)
CommandKilled ==
    /\ ChildAt("command")
    /\ Dies([exited |-> FALSE, code |-> 15])
    /\ UNCHANGED <<options, clientVars, stage, pipe, gzip, fileVars,
                   histVars>>

(* gzip reads to the end of its input and writes the rest.                 *)
GzipEnds ==
    /\ gzip = "running"
    /\ proc["command"] # "running"
    /\ gzip' = "ended"
    /\ stored' = written
    /\ UNCHANGED <<options, clientVars, proc, stage, pipe, status, written,
                   copied, mailed, histVars>>

(* It ends before: it cannot be run, or it is killed.  Nobody is told.     *)
GzipFails ==
    /\ gzip = "running"
    /\ gzip' = "failed"
    /\ UNCHANGED <<options, clientVars, proc, stage, pipe, status, fileVars,
                   histVars>>

(* sendmail ends after the end of its input; or there is none.             *)
SendmailEnds ==
    /\ proc["sendmail"] = "running"
    /\ proc' = [proc EXCEPT !["sendmail"] = "zombie"]
    /\ UNCHANGED <<options, clientVars, childVars, fileVars, histVars>>

HookEnds ==
    /\ proc["hook"] = "running"
    /\ proc' = [proc EXCEPT !["hook"] = "zombie"]
    /\ UNCHANGED <<options, clientVars, childVars, fileVars, histVars>>

-----------------------------------------------------------------------------
(* A SIGINT for the client.                                                *)

(* It ends a client that has no handler yet.  Blocked, or handled between  *)
(* two calls, it disturbs no call.                                         *)
Undisturbed ==
    /\ pc' = IF sigint = "default" THEN "killed" ELSE pc
    /\ UNCHANGED <<result, copied, interrupted>>

(* sigint_handler in one of the wait()s, which fails: status is not set,   *)
(* and the client goes on.                                                 *)
WaitInterrupted ==
    /\ pc \in Waits
    /\ interrupted' = interrupted \cup {pc}
    /\ pc' = CASE pc = "wait"      -> "mail"
               [] pc = "mail_wait" -> "hook"
               [] pc = "hook_wait" -> "end"
    /\ IF pc = "wait" THEN result' \in UnsetLevels ELSE UNCHANGED result
    /\ UNCHANGED copied

(* The handler in the write() of copy_output, to a pipe that is full: the  *)
(* block is lost with a warning.                                           *)
WriteInterrupted ==
    /\ pc = "copy" /\ copied < stored /\ proc["sendmail"] = "running"
    /\ copied' = copied + 1
    /\ UNCHANGED <<pc, result, interrupted>>

(* SIGINT for the client, and for the children of group.                   *)
Sigint(group) ==
    /\ pc \notin Over
    /\ sigints < MaxSigints
    /\ sigints' = sigints + 1
    /\ pending' = (pending \/ sigint = "blocked")
    /\ forwarded' = (forwarded \/ sigint = "handler")
    /\ \E D \in Dying(group \cup IF sigint = "handler" THEN {"command"} ELSE {}) :
         Kills(D)
    /\ Undisturbed \/ WaitInterrupted \/ WriteInterrupted
    /\ UNCHANGED <<options, sigint, sent, stage, pipe, written, stored, mailed>>

SigintClient == Sigint({}) /\ UNCHANGED gzip

(* The children in the client's group: the command leaves it by setsid.    *)
Group == {"sendmail", "hook"} \cup
         IF stage \in {"file", "name", "time", "setsid"} THEN {"command"} ELSE {}

(* The terminal sends SIGINT to a client of ts -f and to its group, in     *)
(* which gzip stays, too.                                                  *)
SigintGroup ==
    /\ ~options.should_go_background
    /\ Sigint(Group)
    /\ gzip' = IF gzip = "running" THEN "failed" ELSE gzip

-----------------------------------------------------------------------------
Client ==
    \/ GetLogdir \/ BlockSigint \/ Fork \/ ForkFails \/ ReadName \/ ReadTime
    \/ Install \/ RunjobOk \/ Wait \/ RunSendmail \/ MailFails \/ OpenOutput
    \/ CopyOutput \/ MailWait \/ HookOnFinish \/ HookWait \/ EndOfJob

Child ==
    \/ RunChild \/ GzipForkFails \/ MkstempFails \/ SendName \/ SendTime
    \/ Setsid \/ Exec

Command == CommandKilled \/ \E n \in ExitStatus : CommandExits(n)

Next ==
    \/ Client \/ Child \/ Command \/ CommandWrites
    \/ GzipEnds \/ GzipFails \/ SendmailEnds \/ HookEnds
    \/ SigintClient \/ SigintGroup

Spec == Init /\ [][Next]_vars

(* The system runs every process, and every program ends sooner or later.  *)
FairSpec ==
    /\ Spec
    /\ WF_vars(Client) /\ WF_vars(Child) /\ WF_vars(Command)
    /\ WF_vars(GzipEnds) /\ WF_vars(SendmailEnds) /\ WF_vars(HookEnds)

-----------------------------------------------------------------------------
(* ENDJOB reports success if and only if the command has ended, with       *)
(* exit(0): -W, -w and the exit code of ts -f depend on it.  wait() takes  *)
(* any child and knows nothing of gzip; only if SIGINT interrupts the      *)
(* wait() for the command another result is possible, as status is not set *)
(* then.                                                                   *)
ResultIsTheCommands ==
    pc = "ended" /\ "wait" \notin interrupted =>
      /\ proc["command"] = "reaped"
      /\ result = 0 <=> status.exited /\ status.code = 0

(* Unless SIGINT interrupts the wait() for the command: when ENDJOB is     *)
(* sent, everything the command has written is in the output file, if gzip *)
(* does not fail and has ended; when the mail is complete, sendmail has    *)
(* got all blocks of the file, but for one with each SIGINT; and if no     *)
(* wait() was interrupted no helper is left.                               *)
OutputComplete ==
    "wait" \notin interrupted =>
      /\ pc = "ended" /\ gzip \in {"none", "ended"} => stored = written
      /\ pc = "mail_wait" /\ proc["sendmail"] = "running" =>
           mailed \in (written - sigints) .. written
      /\ pc = "ended" /\ interrupted = {} =>
           /\ proc["sendmail"] \in {"none", "reaped"}
           /\ proc["hook"] \in {"none", "reaped"}

(* A client that ends without ENDJOB, killed by SIGINT or by an error,     *)
(* leaves no command behind: the server would give its slot to another.    *)
(* The exception is a command that has survived SIGINT, which interrupted  *)
(* the wait() for it, if then a call in mail.c fails.                      *)
NoOrphan ==
    pc \in {"killed", "failed"} /\ proc["command"] = "running" =>
      "wait" \in interrupted /\ stage = "command"

(* A SIGINT that came while the client was busy starting the command is    *)
(* not lost: the command gets it.                                          *)
SigintForwarded ==
    pc \in {"runjob_ok", "mail", "open", "copy", "hook", "end", "ended"} \cup Waits
      /\ sigints > 0 => forwarded

(* The client returns: no read from the pipe and no wait() is for ever,    *)
(* whatever dies first.                                                    *)
ClientReturns == <>(pc \in Over)
=============================================================================
