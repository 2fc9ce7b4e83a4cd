--------------------------- MODULE ExecuteProofs ---------------------------
(***************************************************************************)
(* Proofs of the safety properties of Execute, for all exit statuses and   *)
(* without the bounds on output and SIGINTs that TLC needs.                *)
(***************************************************************************)
EXTENDS Execute, TLAPS

(* The parts of the client's life: nothing forked yet, the command being   *)
(* started with SIGINT blocked, and the handler installed.                 *)
Early    == {"get_logdir", "block_sigint"}
Blocked  == {"fork", "read_name", "read_time", "install"}
Handling ==
    {"runjob_ok", "mail", "open", "copy", "hook", "end", "ended"} \cup Waits

(* After the wait() for the command, for sendmail and for the hook.        *)
AfterMail == {"hook", "hook_wait", "end", "ended"}
AfterHook == {"end", "ended"}
Mailing   == {"open", "copy", "mail_wait"}
AfterWait == {"mail"} \cup Mailing \cup AfterMail

(* Types, as far as the proof needs them.                                  *)
Types ==
    /\ options \in Options
    /\ pc \in Early \cup Blocked \cup Handling \cup Over
    /\ sigint \in {"default", "blocked", "handler"}
    /\ result \in Int
    /\ proc \in [Children -> {"none", "running", "zombie", "reaped"}]
    /\ stage \in {"file", "name", "time", "setsid", "exec", "command"}
    /\ status.code \in 0 .. 255
    /\ pipe \in Seq({"name", "time"})
    /\ gzip \in {"none", "running", "ended", "failed"}
    /\ written \in Nat /\ stored \in Nat /\ copied \in Nat /\ mailed \in Nat
    /\ sigints \in Nat
    /\ interrupted \subseteq Waits

(* What SIGINT does depends on where the client is, and one that has come  *)
(* is pending or has been forwarded.                                       *)
Signals ==
    /\ pc \in Early => sigint = "default" /\ sigints = 0
    /\ pc \in Blocked => sigint = "blocked" /\ (sigints > 0 => pending)
    /\ pc \in Handling => sigint = "handler" /\ (sigints > 0 => forwarded)

(* Which children there can be.  A command that survives the SIGINT that   *)
(* interrupts the wait() for it is there for good: a child that has not    *)
(* called exec yet dies of SIGINT.                                         *)
Processes ==
    /\ pc \in Early \cup {"fork"} => proc["command"] = "none"
    /\ pc \in {"read_name", "read_time", "install", "runjob_ok", "wait"} =>
         proc["command"] \in {"running", "zombie"}
    /\ "wait" \in interrupted => proc["command"] # "none"
    /\ "wait" \in interrupted /\ proc["command"] = "running" =>
         stage = "command"
    /\ pc \in Early \cup Blocked \cup {"runjob_ok", "wait", "mail"} =>
         proc["sendmail"] = "none"
    /\ pc \notin AfterHook \cup {"hook_wait"} \cup Over =>
         proc["hook"] = "none"
    /\ proc["command"] = "none" => stage = "file" /\ gzip = "none"
    /\ interrupted = {} =>
         /\ pc \in Mailing => proc["sendmail"] \in {"running", "zombie"}
         /\ pc = "hook_wait" => proc["hook"] \in {"running", "zombie"}
         /\ pc \in AfterMail => proc["sendmail"] \in {"none", "reaped"}
         /\ pc \in AfterHook => proc["hook"] \in {"none", "reaped"}

(* How much the child has sent when it is at stage s, and how much of it   *)
(* the client has read.                                                    *)
Names == IF options.store_output THEN 1 ELSE 0

SentAt(s) ==
    IF s \in {"file", "name"} THEN 0 ELSE IF s = "time" THEN Names
    ELSE Names + 1

(* The pipe holds the difference.                                          *)
Piped ==
    /\ stage = "name" => options.store_output
    /\ pc \in Early \cup {"fork"} => pipe = <<>>
    /\ pc = "read_name" => options.store_output /\ Len(pipe) = SentAt(stage)
    /\ pc = "read_time" => Len(pipe) = SentAt(stage) - Names

(* What the output file lacks is with gzip; what sendmail lacks of what    *)
(* was read for it, SIGINT has taken.                                      *)
Files ==
    /\ options.gzip /\ options.store_output /\ stage # "file" => gzip # "none"
    /\ ~options.gzip => gzip = "none"
    /\ gzip = "ended" => proc["command"] # "running"
    /\ gzip \notin {"running", "failed"} => stored = written
    /\ pc \in Early \cup Blocked \cup {"runjob_ok", "wait", "mail", "open"} =>
         copied = 0
    /\ pc \in Mailing => options.send_output_by_mail
    /\ options.gzip => copied = 0
    /\ copied <= stored /\ mailed <= copied
    /\ pc \in Mailing /\ proc["sendmail"] = "running" =>
         copied - mailed <= sigints
    /\ "wait" \notin interrupted /\ pc = "mail_wait" => copied = stored

(* After an undisturbed wait() the result is that of the command.          *)
Results ==
    "wait" \notin interrupted /\ pc \in AfterWait =>
      /\ proc["command"] = "reaped"
      /\ result = 0 <=> status.exited /\ status.code = 0

IInv ==
    Types /\ Signals /\ Processes /\ Piped /\ Files /\ Results /\ NoOrphan
-----------------------------------------------------------------------------
(* The invariant holds at the start ...                                    *)
LEMMA InitIInv == Init => IInv
  <1> SUFFICES ASSUME Init PROVE IInv
    OBVIOUS
  <1>1. Types
    BY DEF Init, Types, Early
  <1>2. NoOrphan /\ Signals /\ Processes /\ Piped /\ Files /\ Results
    BY DEF Init, Signals, Processes, Piped, Files, Results, NoOrphan, Children,
       Early, Blocked, Handling, AfterWait, Mailing, AfterMail,
        AfterHook, Waits
  <1>. QED  BY <1>1, <1>2 DEF IInv

(* Every step in which the client starts the command preserves the         *)
(* invariant ...                                                           *)
LEMMA StartStep ==
    ASSUME IInv, ReadName \/ ReadTime \/ Install \/ Wait \/ CopyOutput
    PROVE  IInv'
  <1> USE DEF Children, Early, Blocked, Handling, AfterWait, Mailing, AfterMail,
        AfterHook,
        Waits, Over, clientVars, fileVars, histVars, childVars
  <1>1. CASE ReadName
    <2>1. pipe # <<>> =>
            Tail(pipe) \in Seq({"name", "time"}) /\ Len(Tail(pipe)) = Len(pipe) - 1
      BY DEF IInv, Types
    <2>2. pc' = "failed" => proc["command"] # "running"
      BY <1>1 DEF IInv, Types, Piped, SentAt, Names, ReadName, Writer
    <2>3. Types' /\ Signals' /\ Processes' /\ NoOrphan'
      BY <1>1, <2>1, <2>2
         DEF IInv, Types, Signals, Processes, NoOrphan, ReadName
    <2>4. Piped' /\ Files' /\ Results'
      BY <1>1, <2>1 DEF IInv, Types, Piped, Files, Results, SentAt, Names, ReadName
    <2>. QED  BY <2>3, <2>4 DEF IInv
  <1>2. CASE ReadTime
    <2>1. pipe # <<>> =>
            Tail(pipe) \in Seq({"name", "time"}) /\ Len(Tail(pipe)) = Len(pipe) - 1
      BY DEF IInv, Types
    <2>2. pc' = "failed" => proc["command"] # "running"
      BY <1>2 DEF IInv, Types, Piped, SentAt, Names, ReadTime, Writer
    <2>3. Types' /\ Signals' /\ Processes' /\ NoOrphan'
      BY <1>2, <2>1, <2>2
         DEF IInv, Types, Signals, Processes, NoOrphan, ReadTime
    <2>4. Piped' /\ Files' /\ Results'
      BY <1>2, <2>1 DEF IInv, Types, Piped, Files, Results, SentAt, Names, ReadTime
    <2>. QED  BY <2>3, <2>4 DEF IInv
  <1>3. CASE Install
    <2>1. status'.code \in 0 .. 255
      BY <1>3 DEF IInv, Types, Install, HandlerKills, Kills, Dying
    <2>2. Types'
      BY <1>3, <2>1 DEF IInv, Types, Install, HandlerKills, Kills, Dying
    <2>3. Signals' /\ Processes' /\ NoOrphan'
      BY <1>3 DEF IInv, Types, Signals, Processes, NoOrphan, Install,
         HandlerKills, Kills, Dying
    <2>4. Piped' /\ Files' /\ Results'
      BY <1>3 DEF IInv, Types, Processes, NoOrphan, Piped, Files, Results,
         SentAt, Names, Install, HandlerKills, Kills, Dying
    <2>. QED  BY <2>2, <2>3, <2>4 DEF IInv
  <1>4. CASE Wait
    <2>1. /\ result' \in Int
          /\ result' = 0 <=> status.exited /\ status.code = 0
          /\ proc' = [proc EXCEPT !["command"] = "reaped"]
      <3>1. proc' = [proc EXCEPT !["command"] = "reaped"]
        BY <1>4 DEF Wait, ReapsAny, IInv, Types, Processes
      <3>2. status.code \in 0 .. 255 /\ result' = Errorlevel(status)
        BY <1>4 DEF Wait, IInv, Types
      <3>. QED  BY <3>1, <3>2 DEF Errorlevel
    <2>2. Types'
      BY <1>4, <2>1 DEF IInv, Types, Wait
    <2>3. Signals' /\ Processes' /\ NoOrphan'
      BY <1>4, <2>1 DEF IInv, Types, Signals, Processes, NoOrphan, Wait
    <2>4. Piped' /\ Files' /\ Results'
      BY <1>4, <2>1 DEF IInv, Types, Processes, NoOrphan, Piped, Files,
         Results, SentAt, Names, Wait
    <2>. QED  BY <2>2, <2>3, <2>4 DEF IInv
  <1>5. CASE CopyOutput
    <2>2. Types'
      BY <1>5 DEF IInv, Types, CopyOutput
    <2>3. Signals' /\ Processes' /\ NoOrphan'
      BY <1>5 DEF IInv, Types, Signals, Processes, NoOrphan, CopyOutput
    <2>4. Piped' /\ Files' /\ Results'
      BY <1>5 DEF IInv, Types, Processes, NoOrphan, Piped, Files, Results,
         SentAt, Names, CopyOutput, Options
    <2>. QED  BY <2>2, <2>3, <2>4 DEF IInv
  <1>. QED  BY <1>1, <1>2, <1>3, <1>4, <1>5

(* ... and so does every other step of the client, ...                     *)
LEMMA ClientStep ==
    ASSUME IInv, Client
    PROVE  IInv'
  <1> USE DEF IInv, Types, Signals, Processes, Piped, Files, Results, NoOrphan,
        SentAt, Names, Children, Early, Blocked, Handling, AfterWait, Mailing, AfterMail,
        AfterHook, Waits, Over, clientVars, fileVars, histVars, childVars
  <1>1. CASE GetLogdir
    BY <1>1 DEF GetLogdir
  <1>2. CASE BlockSigint
    BY <1>2 DEF BlockSigint
  <1>3. CASE Fork
    BY <1>3 DEF Fork
  <1>4. CASE ForkFails
    BY <1>4 DEF ForkFails
  <1>5. CASE RunjobOk
    BY <1>5 DEF RunjobOk
  <1>6. CASE RunSendmail
    BY <1>6 DEF RunSendmail, Options
  <1>11. CASE MailFails
    BY <1>11 DEF MailFails
  <1>12. CASE OpenOutput
    BY <1>12 DEF OpenOutput
  <1>7. CASE MailWait
    BY <1>7 DEF MailWait, ReapsAny
  <1>8. CASE HookOnFinish
    BY <1>8 DEF HookOnFinish
  <1>9. CASE HookWait
    BY <1>9 DEF HookWait, ReapsAny
  <1>10. CASE EndOfJob
    BY <1>10 DEF EndOfJob
  <1>. QED  BY <1>1, <1>2, <1>3, <1>4, <1>5, <1>6, <1>7, <1>8, <1>9, <1>10,
            <1>11, <1>12, StartStep DEF Client

(* ... every step of the processes that set no status, ...                 *)
LEMMA HelperStep ==
    ASSUME IInv, \/ SendName \/ SendTime \/ Setsid
                 \/ CommandWrites
                 \/ GzipEnds \/ GzipFails \/ SendmailEnds \/ HookEnds
    PROVE  IInv'
  <1> USE DEF IInv, Types, Signals, Processes, Piped, Files, Results, NoOrphan,
        SentAt, Names, Children, Early, Blocked, Handling, AfterWait, Mailing, AfterMail,
        AfterHook, Waits, Over, clientVars, fileVars, histVars, childVars, ChildAt
  <1>1. CASE SendName
    BY <1>1 DEF SendName
  <1>2. CASE SendTime
    BY <1>2 DEF SendTime
  <1>3. CASE Setsid
    BY <1>3 DEF Setsid
  <1>4. CASE CommandWrites
    BY <1>4 DEF CommandWrites
  <1>5. CASE GzipEnds
    <2>1. options.gzip /\ copied = 0 /\ stored' = written
      BY <1>5 DEF GzipEnds
    <2>2. Types' /\ Signals' /\ Processes' /\ NoOrphan'
      BY <1>5 DEF GzipEnds
    <2>3. pc \notin Mailing
      BY <2>1 DEF Options
    <2>4. Piped' /\ Results'
      BY <1>5 DEF GzipEnds
    <2>5. Files'
      BY <1>5, <2>1, <2>3 DEF GzipEnds
    <2>. QED  BY <2>2, <2>4, <2>5
  <1>6. CASE SendmailEnds
    BY <1>6 DEF SendmailEnds
  <1>7. CASE HookEnds
    BY <1>7 DEF HookEnds
  <1>8. CASE GzipFails
    BY <1>8 DEF GzipFails
  <1>. QED  BY <1>1, <1>2, <1>3, <1>4, <1>5, <1>6, <1>7, <1>8

(* ... every step with which the child or the command may end, ...         *)
LEMMA ChildStep ==
    ASSUME IInv, RunChild \/ GzipForkFails \/ MkstempFails \/ Exec \/ Command
    PROVE  IInv'
  <1> USE DEF Children, Early, Blocked, Handling, AfterWait, Mailing, AfterMail,
        AfterHook,
        Waits, Over, clientVars, fileVars, histVars, childVars,
        ChildAt
  <1>1. CASE RunChild
    <2>1. status'.code \in 0 .. 255
      BY <1>1 DEF IInv, Types, RunChild, Dies, Aborts
    <2>2. Types'
      BY <1>1, <2>1 DEF IInv, Types, RunChild, Dies, Aborts
    <2>3. Signals' /\ Processes' /\ NoOrphan'
      BY <1>1 DEF IInv, Types, Signals, Processes, NoOrphan, RunChild, Dies,
         Aborts
    <2>4. Piped' /\ Files' /\ Results'
      BY <1>1 DEF IInv, Types, Processes, NoOrphan, Piped, Files, Results,
         SentAt, Names, RunChild, Dies, Aborts
    <2>. QED  BY <2>2, <2>3, <2>4 DEF IInv
  <1>2. CASE MkstempFails
    <2>1. status'.code \in 0 .. 255
      BY <1>2 DEF IInv, Types, MkstempFails, Dies, Aborts
    <2>2. Types'
      BY <1>2, <2>1 DEF IInv, Types, MkstempFails, Dies, Aborts
    <2>3. Signals' /\ Processes' /\ NoOrphan'
      BY <1>2 DEF IInv, Types, Signals, Processes, NoOrphan, MkstempFails,
         Dies, Aborts
    <2>4. Piped' /\ Files' /\ Results'
      BY <1>2 DEF IInv, Types, Processes, NoOrphan, Piped, Files, Results,
         SentAt, Names, MkstempFails, Dies, Aborts
    <2>. QED  BY <2>2, <2>3, <2>4 DEF IInv
  <1>3. CASE Exec
    <2>1. status'.code \in 0 .. 255
      BY <1>3 DEF IInv, Types, Exec, Dies
    <2>2. Types'
      BY <1>3, <2>1 DEF IInv, Types, Exec, Dies
    <2>3. Signals' /\ Processes' /\ NoOrphan'
      BY <1>3 DEF IInv, Types, Signals, Processes, NoOrphan, Exec, Dies
    <2>4. Piped' /\ Files' /\ Results'
      BY <1>3 DEF IInv, Types, Processes, NoOrphan, Piped, Files, Results,
         SentAt, Names, Exec, Dies
    <2>. QED  BY <2>2, <2>3, <2>4 DEF IInv
  <1>4. CASE CommandKilled
    <2>1. status'.code \in 0 .. 255
      BY <1>4 DEF IInv, Types, CommandKilled, Dies
    <2>2. Types'
      BY <1>4, <2>1 DEF IInv, Types, CommandKilled, Dies
    <2>3. Signals' /\ Processes' /\ NoOrphan'
      BY <1>4 DEF IInv, Types, Signals, Processes, NoOrphan, CommandKilled,
         Dies
    <2>4. Piped' /\ Files' /\ Results'
      BY <1>4 DEF IInv, Types, Processes, NoOrphan, Piped, Files, Results,
         SentAt, Names, CommandKilled, Dies
    <2>. QED  BY <2>2, <2>3, <2>4 DEF IInv
  <1>5. ASSUME NEW n \in ExitStatus, CommandExits(n)
        PROVE  IInv'
    <2>0. n % 256 \in 0 .. 255
      BY ExecuteAssumption
    <2>1. status'.code \in 0 .. 255
      BY <1>5, <2>0 DEF IInv, Types, CommandExits, Dies
    <2>2. Types'
      BY <1>5, <2>0, <2>1 DEF IInv, Types, CommandExits, Dies
    <2>3. Signals' /\ Processes' /\ NoOrphan'
      BY <1>5, <2>0 DEF IInv, Types, Signals, Processes, NoOrphan,
         CommandExits, Dies
    <2>4. Piped' /\ Files' /\ Results'
      BY <1>5, <2>0 DEF IInv, Types, Processes, NoOrphan, Piped, Files,
         Results, SentAt, Names, CommandExits, Dies
    <2>. QED  BY <2>2, <2>3, <2>4 DEF IInv
  <1>6. CASE GzipForkFails
    <2>1. status'.code \in 0 .. 255
      BY <1>6 DEF IInv, Types, GzipForkFails, Dies
    <2>2. Types'
      BY <1>6, <2>1 DEF IInv, Types, GzipForkFails, Dies
    <2>3. Signals' /\ Processes' /\ NoOrphan'
      BY <1>6 DEF IInv, Types, Signals, Processes, NoOrphan, GzipForkFails,
         Dies
    <2>4. Piped' /\ Files' /\ Results'
      BY <1>6 DEF IInv, Types, Processes, NoOrphan, Piped, Files, Results,
         SentAt, Names, GzipForkFails, Dies
    <2>. QED  BY <2>2, <2>3, <2>4 DEF IInv
  <1>. QED  BY <1>1, <1>2, <1>3, <1>4, <1>5, <1>6 DEF Command

(* ... and every SIGINT: whichever children it kills, ...                   *)
LEMMA KillsStep ==
    ASSUME IInv, NEW C \in SUBSET Children, NEW D \in Dying(C), Kills(D)
    PROVE  /\ proc' \in [Children -> {"none", "running", "zombie", "reaped"}]
           /\ \A c \in Children :
                proc[c] # "running" => proc'[c] = proc[c]
           /\ \A c \in Children :
                proc[c] = "running" => proc'[c] \in {"running", "zombie"}
           /\ \A c \in Children \ C : proc'[c] = proc[c]
           /\ "command" \in C /\ proc'["command"] = "running" =>
                stage = "command"
           /\ status'.code \in 0 .. 255
           /\ proc["command"] # "running" => status' = status
  <1>1. /\ D \subseteq {c \in C : proc[c] = "running"}
        /\ "command" \in C /\ proc["command"] = "running" /\ stage # "command"
             => "command" \in D
    BY DEF Dying
  <1>2. proc \in [Children -> {"none", "running", "zombie", "reaped"}]
    BY DEF IInv, Types
  <1>3. /\ proc' = [c \in Children |-> IF c \in D THEN "zombie" ELSE proc[c]]
        /\ "command" \in Children
    BY DEF Kills, Children
  <1>4. status'.code \in 0 .. 255
    BY DEF Kills, IInv, Types
  <1>5. proc["command"] # "running" => status' = status
    BY <1>1 DEF Kills
  <1>6. \A c \in Children : proc'[c] = IF c \in D THEN "zombie" ELSE proc[c]
    BY <1>3
  <1>7. proc' \in [Children -> {"none", "running", "zombie", "reaped"}]
    BY <1>2, <1>3
  <1>. QED  BY <1>1, <1>2, <1>3, <1>4, <1>5, <1>6, <1>7

(* ... and whatever call of the client it interrupts.                      *)
LEMMA SigintStep ==
    ASSUME IInv, NEW group \in SUBSET Children, Sigint(group),
           \/ UNCHANGED gzip
           \/ gzip' = IF gzip = "running" THEN "failed" ELSE gzip
    PROVE  IInv'
  <1> USE DEF Children, Early, Blocked, Handling, AfterWait, Mailing, AfterMail,
        AfterHook, Waits, Over
  <1> DEFINE C == group \cup IF sigint = "handler" THEN {"command"} ELSE {}
  <1>0. C \in SUBSET Children /\ (sigint = "handler" => "command" \in C)
    OBVIOUS
  <1>1. PICK D \in Dying(C) : Kills(D)
    BY DEF Sigint
  <1>2. /\ proc' \in [Children -> {"none", "running", "zombie", "reaped"}]
        /\ \A c \in Children : proc[c] # "running" => proc'[c] = proc[c]
        /\ \A c \in Children :
             proc[c] = "running" => proc'[c] \in {"running", "zombie"}
        /\ "command" \in C /\ proc'["command"] = "running" => stage = "command"
        /\ status'.code \in 0 .. 255
        /\ proc["command"] # "running" => status' = status
    <2> HIDE DEF C
    <2>. QED  BY <1>0, <1>1, KillsStep
  <1>3. /\ UNCHANGED <<options, sigint, sent, stage, pipe, written, stored, mailed>>
        /\ sigints' = sigints + 1
        /\ pending' = (pending \/ sigint = "blocked")
        /\ forwarded' = (forwarded \/ sigint = "handler")
        /\ pc \notin Over
    BY DEF Sigint
  <1> HIDE DEF C
  <1>4. CASE Undisturbed
    <2>1. Types'
      BY <1>2, <1>3, <1>4 DEF IInv, Types, Undisturbed
    <2>2. Signals' /\ Processes' /\ NoOrphan'
      BY <1>0, <1>2, <1>3, <1>4 DEF IInv, Types, Signals, Processes, NoOrphan, Undisturbed
    <2>3. Piped' /\ Files' /\ Results'
      BY <1>2, <1>3, <1>4 DEF IInv, Types, Signals, Processes, Piped, Files,
         Results, SentAt, Names, Undisturbed
    <2>. QED  BY <2>1, <2>2, <2>3 DEF IInv
  <1>5. CASE WaitInterrupted
    <2>1. /\ pc \in Waits /\ result' \in Int /\ interrupted' = interrupted \cup {pc}
          /\ pc' \in {"mail", "hook", "end"} /\ (pc' = "mail" <=> pc = "wait")
          /\ pc' = "end" <=> pc = "hook_wait"
          /\ pc # "wait" => result' = result
          /\ copied' = copied
      BY <1>5 DEF WaitInterrupted, UnsetLevels, IInv, Types
    <2>2. Types'
      BY <1>2, <1>3, <2>1 DEF IInv, Types
    <2>3. Signals' /\ Processes' /\ NoOrphan'
      BY <1>0, <1>2, <1>3, <2>1 DEF IInv, Types, Signals, Processes, NoOrphan
    <2>4. Piped' /\ Files' /\ Results'
      BY <1>2, <1>3, <2>1 DEF IInv, Types, Signals, Processes, Piped, Files,
         Results, SentAt, Names
    <2>. QED  BY <2>2, <2>3, <2>4 DEF IInv
  <1>6. CASE WriteInterrupted
    <2>1. Types'
      BY <1>2, <1>3, <1>6 DEF IInv, Types, WriteInterrupted
    <2>2. Signals' /\ Processes' /\ NoOrphan'
      BY <1>0, <1>2, <1>3, <1>6 DEF IInv, Types, Signals, Processes, NoOrphan,
         WriteInterrupted
    <2>3. Piped' /\ Files' /\ Results'
      BY <1>2, <1>3, <1>6 DEF IInv, Types, Signals, Processes, Piped, Files,
         Results, SentAt, Names, Options, WriteInterrupted
    <2>. QED  BY <2>1, <2>2, <2>3 DEF IInv
  <1>. QED  BY <1>4, <1>5, <1>6 DEF Sigint

(* ... every step keeps it, one lemma per process and phase ...            *)
LEMMA NextIInv == IInv /\ [Next]_vars => IInv'
  <1> SUFFICES ASSUME IInv, [Next]_vars PROVE IInv'
    OBVIOUS
  <1>1. CASE UNCHANGED vars
    BY <1>1 DEF vars, clientVars, fileVars, histVars, childVars, IInv, Types,
       Signals, Processes, Piped, Files, Results, NoOrphan, SentAt, Names
  <1>2. CASE SigintClient
    BY <1>2, SigintStep DEF SigintClient
  <1>3. CASE SigintGroup
    <2>1. Group \in SUBSET Children
      BY DEF Group, Children
    <2>. QED  BY <1>3, <2>1, SigintStep DEF SigintGroup
  <1>. QED  BY <1>1, <1>2, <1>3, ClientStep, HelperStep, ChildStep
            DEF Next, Child

(* ... and so it always holds.                                             *)
LEMMA Invariance == Spec => []IInv
  BY InitIInv, NextIInv, PTL DEF Spec

-----------------------------------------------------------------------------
(* The result that ENDJOB reports is the command's, unless a wait() was    *)
(* interrupted: whatever ends first, the first wait() reaps the command,   *)
(* since no other child is there yet.                                      *)
THEOREM ResultReported == Spec => []ResultIsTheCommands
  <1>1. IInv => ResultIsTheCommands
    BY DEF IInv, Results, ResultIsTheCommands, AfterWait, AfterMail
  <1>. QED  BY <1>1, Invariance, PTL

(* When ENDJOB is sent nothing is missing in the output file, gzip may run *)
(* or fail; of the blocks of a mail only those are missing that SIGINT has *)
(* taken, one each; and sendmail and the hook have been waited for.  Where *)
(* a wait() was interrupted less is said, as the code does less.           *)
THEOREM OutputIsComplete == Spec => []OutputComplete
  <1>1. IInv => OutputComplete
    BY DEF IInv, Types, Options, Files, Processes, OutputComplete, Mailing,
       AfterHook, AfterMail
  <1>. QED  BY <1>1, Invariance, PTL

(* A client that SIGINT or an error ends has not left a command running:   *)
(* SIGINT is blocked around fork, the pipe cannot end before a command     *)
(* that goes on to run has announced itself, and a call of mail.c that     *)
(* fails comes after the wait().  The only way to an orphan, which the     *)
(* property names, is a wait() that SIGINT has interrupted while the       *)
(* command survived.                                                       *)
THEOREM NoOrphans == Spec => []NoOrphan
  <1>1. IInv => NoOrphan
    BY DEF IInv
  <1>. QED  BY <1>1, Invariance, PTL

(* No SIGINT that came while the command was being started is lost.        *)
THEOREM SigintsForwarded == Spec => []SigintForwarded
  <1>1. IInv => SigintForwarded
    BY DEF IInv, Types, Signals, SigintForwarded, Handling
  <1>. QED  BY <1>1, Invariance, PTL
============================================================================
