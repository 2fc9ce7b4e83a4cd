------------------------------ MODULE Framing ------------------------------
(***************************************************************************)
(* How messages travel (msg.c) and how both ends keep in step.             *)
(*                                                                         *)
(* Server takes a message for one item.  Here a connection is two streams  *)
(* of units.  A struct Msg is one unit, which send and recv move whole;    *)
(* behind it there may be integers (send_ints) and texts (send_bytes), one *)
(* unit for each integer and each character.  What follows a header is     *)
(* written nowhere: each end knows it from the fields of the header or     *)
(* from its own command line, and has to decide as the other one does.     *)
(* The kernel passes a long text on in pieces, and a client may be killed  *)
(* between two of them.  The server has one thread: while it reads the     *)
(* rest of a message it serves nobody else.                                *)
(*                                                                         *)
(* The requests are those with something behind the header, in either      *)
(* direction, and the version check before each of them.  Jobs run one at  *)
(* a time in the order of submission; the order of reading, the slots and  *)
(* the dependencies are the business of Server.                            *)
(***************************************************************************)
EXTENDS Integers, Sequences, SequencesExt, FiniteSets, FiniteSetsExt

CONSTANTS
    Clients,          \* ts processes, each with one command line
    Mortal,           \* those that may be killed
    CommandLines,     \* what users may type
    Names,            \* names of environment variables
    PieceSize         \* how much of a text is sure to arrive in one piece

ASSUME FramingAssumption ==
    /\ IsFiniteSet(Clients) /\ Mortal \subseteq Clients
    /\ PieceSize \in Nat \ {0}
    /\ \A l \in CommandLines : /\ Len(l.gpu_nums) <= PieceSize
                               /\ Len(l.depend_on) <= PieceSize

(* A text is a sequence of characters: "a", "b", "=", "nl", "?" and "NUL". *)
JobIds == 0 .. (Cardinality(Clients) - 1)
None   == "none"

(* struct Command_line.  The texts of other requests are in label.         *)
NoLine == [request |-> None, jobid |-> -1, command |-> <<>>, label |-> <<>>,
           env |-> <<>>, gpu_nums |-> <<>>, wait_free_gpus |-> TRUE,
           depend_on |-> <<>>, store_output |-> TRUE, require_elevel |-> FALSE]

(* struct Msg: the fields that tell what follows, and those that answer.   *)
NoMsg == [type |-> None, jobid |-> -1, size |-> 0, command_size |-> 0,
          label_size |-> 0, env_size |-> 0, gpus |-> 0,
          wait_free_gpus |-> TRUE, depend_on_size |-> 0,
          store_output |-> FALSE, last_errorlevel |-> 0]

(* struct Job.  info is what pinfo_addinfo has collected.                  *)
NoJob == [state |-> None, command |-> <<>>, label |-> <<>>, info |-> <<>>,
          gpu_ids |-> <<>>, depend_on |-> <<>>, output_filename |-> <<>>]

VARIABLES
    line,        \* the command line of each client
    pc,          \* where each client is
    jobid,       \* the id it was told for its job
    out,         \* the writes it has still to do
    up,          \* the stream from each client to the server
    down,        \* the stream from the server to each client
    left,        \* recv_bytes of a client: what is still to come
    got,         \* and what has come, in this call
    elevel,      \* the last_errorlevel that came with RUNJOB
    shown,       \* what the client has printed, if anything
    conns,       \* the connections that the server has open
    server,      \* "select", "read", "schedule" or "exited"
    reading,     \* the message that the server is reading
    sending,     \* the writes that the server has still to do, and to whom
    job,         \* the job table
    firstjob,    \* ids of the jobs in the queue
    first_finished_job,
    owner,       \* client_cs[].jobid
    environ,     \* the environment of the server
    logdir,
    torn,        \* history: clients killed in the middle of a message
    cut          \* history: clients for which a write of s_job_info was short

clientVars == <<line, pc, jobid, out, left, got, elevel, shown>>
tableVars  == <<job, firstjob, first_finished_job, owner>>
serverVars == <<conns, server, reading, sending, tableVars, environ, logdir>>
histories  == <<torn, cut>>
vars       == <<clientVars, up, down, serverVars, histories>>

-----------------------------------------------------------------------------
(* What is on the wire.                                                    *)

Header(m)       == <<[of |-> "msg", v |-> m]>>
Units(field, s) == [n \in DOMAIN s |-> [of |-> field, v |-> s[n]]]

(* strlen(s) + 1.  An empty text stands for a null pointer, of size 0.     *)
Size(s) == IF s = <<>> THEN 0 ELSE Len(s) + 1

(* A plausible mistake: the null character is counted and not sent.        *)
AsciizWithoutNul(s) == s

(* The bytes of a text, with the null character.                           *)
Asciiz(s) == IF s = <<>> THEN <<>> ELSE Append(s, "NUL")

(* send_bytes of a string.                                                 *)
Bytes(field, s) == Units(field, Asciiz(s))

(* send_ints: the number, and the integers if there are any.               *)
Ints(field, s) == <<Units(field \o "_num", <<Len(s)>>), Units(field, s)>>

(* Nothing is written for an empty array or a text of size 0.              *)
Writes(ws) == SelectSeq(ws, LAMBDA w : w # <<>>)

(* c_new_job.                                                              *)
NewJobMsg(l) ==
    [NoMsg EXCEPT !.type = "NEWJOB",
                  !.command_size = Size(l.command),
                  !.label_size = Size(l.label),
                  !.env_size = Size(l.env),
                  !.gpus = Len(l.gpu_nums),
                  !.wait_free_gpus = l.wait_free_gpus,
                  !.depend_on_size = Len(l.depend_on)]

NewJobWrites(l) ==
    <<Header(NewJobMsg(l))>>
    \o (IF l.wait_free_gpus THEN <<>> ELSE Ints("gpu", l.gpu_nums))
    \o (IF l.depend_on = <<>> THEN <<>> ELSE Ints("depend", l.depend_on))
    \o <<Bytes("command", l.command), Bytes("label", l.label),
         Bytes("env", l.env)>>

(* c_get_env, c_set_env, c_unset_env and c_set_logdir.                     *)
TextRequests == {"GET_ENV", "SET_ENV", "UNSET_ENV", "SET_LOGDIR"}

TextWrites(type, s) ==
    <<Header([NoMsg EXCEPT !.type = type, !.size = Size(s)]), Bytes("text", s)>>

Msg(type, j) == <<Header([NoMsg EXCEPT !.type = type, !.jobid = j])>>

Request(l) ==
    IF l.request = "NEWJOB" THEN NewJobWrites(l)
    ELSE IF l.request \in TextRequests THEN TextWrites(l.request, l.label)
    ELSE Msg(l.request, l.jobid)

(* A plausible mistake: the message is sent once and two answers are read. *)
VersionWritesOnce == Msg("GET_VERSION", -1)

(* c_check_version.                                                        *)
VersionWrites == Msg("GET_VERSION", -1) \o Msg("GET_VERSION", -1)

(* c_send_runjob_ok: a job that is skipped has no file.                    *)
RunjobOkWrites(ofname) ==
    <<Header([NoMsg EXCEPT !.type = "RUNJOB_OK",
                           !.store_output = ofname # <<>>,
                           !.size = Size(ofname)]),
      Bytes("ofilename", ofname)>>

(* A plausible mistake: whether there are dependencies is not looked at.   *)
PartsAlwaysDepend(m) ==
    IF m.type = "NEWJOB"
    THEN <<"depend_num", "depend", "command">>
         \o (IF m.label_size > 0 THEN <<"label">> ELSE <<>>)
         \o (IF m.env_size > 0 THEN <<"env">> ELSE <<>>)
    ELSE <<>>

(* What client_read and s_newjob expect behind a header.                   *)
Parts(m) ==
    IF m.type = "NEWJOB"
    THEN (IF m.wait_free_gpus THEN <<>> ELSE <<"gpu_num", "gpu">>)
         \o (IF m.depend_on_size = 0 THEN <<>> ELSE <<"depend_num", "depend">>)
         \o <<"command">>
         \o (IF m.label_size > 0 THEN <<"label">> ELSE <<>>)
         \o (IF m.env_size > 0 THEN <<"env">> ELSE <<>>)
    ELSE IF m.type = "RUNJOB_OK" /\ m.store_output THEN <<"ofilename">>
    ELSE IF m.type \in TextRequests THEN <<"text">>
    ELSE <<>>

Counts == {"gpu_num", "depend_num"}
Arrays == {"gpu", "depend"}
Fields == Arrays \cup {"command", "label", "env", "ofilename", "text"}

(* The size that the header gives for a text.                              *)
SizeOf(m, part) ==
    CASE part = "command" -> m.command_size
      [] part = "label"   -> m.label_size
      [] part = "env"     -> m.env_size
      [] part \in {"ofilename", "text"} -> m.size
      [] OTHER -> 0

-----------------------------------------------------------------------------
Over(c) == pc[c] \in {"done", "error", "dead"}

NotReading == [from |-> None, msg |-> NoMsg, todo |-> <<>>, left |-> 0,
               data |-> [f \in Fields |-> <<>>]]
NotSending == [to |-> None, writes |-> <<>>]

Init ==
    /\ line = [c \in Clients |-> NoLine]
    /\ pc = [c \in Clients |-> "idle"]
    /\ jobid = [c \in Clients |-> -1]
    /\ out = [c \in Clients |-> <<>>]
    /\ up = [c \in Clients |-> <<>>]
    /\ down = [c \in Clients |-> <<>>]
    /\ left = [c \in Clients |-> 0]
    /\ got = [c \in Clients |-> <<>>]
    /\ elevel = [c \in Clients |-> 0]
    /\ shown = [c \in Clients |-> {}]
    /\ conns = {}
    /\ server = "select"
    /\ reading = NotReading
    /\ sending = NotSending
    /\ job = [j \in JobIds |-> NoJob]
    /\ firstjob = <<>> /\ first_finished_job = <<>>
    /\ owner = [c \in Clients |-> -1]
    /\ environ = [n \in Names |-> <<>>]
    /\ logdir = <<"a">>
    /\ torn = {} /\ cut = {}

-----------------------------------------------------------------------------
(* msg.c                                                                   *)

(* send_bytes, send_msg, send_ints: the next piece of the first write of   *)
(* ws goes into the stream.                                                *)
Piece(ws) == SubSeq(ws[1], 1, Min({PieceSize, Len(ws[1])}))

Unsent(ws) ==
    LET rest == SubSeq(ws[1], Len(Piece(ws)) + 1, Len(ws[1]))
    IN  IF rest = <<>> THEN Tail(ws) ELSE <<rest>> \o Tail(ws)

(* How much one recv returns: all there is, but not more than wanted.      *)
Takes(wanted, stream) == Min({wanted, Len(stream)})

(* A plausible mistake: the offset is not moved on.                        *)
StoreAtStart(data, units) == [n \in DOMAIN units |-> units[n].v]

(* recv(fd, data + offset, ...).                                           *)
Store(data, units) == data \o [n \in DOMAIN units |-> units[n].v]

(* The text in a buffer, without the null character.                       *)
String(data) == SelectSeq(data, LAMBDA ch : ch # "NUL")

-----------------------------------------------------------------------------
(* client.c                                                                *)

Goto(c, label) == pc' = [pc EXCEPT ![c] = label]

(* main: the socket is connected and c_check_version sends its message     *)
(* twice.                                                                  *)
Start(c) ==
    /\ pc[c] = "idle" /\ server # "exited"
    /\ conns' = conns \cup {c}
    /\ out' = [out EXCEPT ![c] = VersionWrites]
    /\ Goto(c, "version")
    /\ \E l \in CommandLines : line' = [line EXCEPT ![c] = l]
    /\ UNCHANGED <<jobid, left, got, elevel, shown, up, down, server, reading,
                   sending, tableVars, environ, logdir, histories>>

(* A client sends.  What goes to a closed connection is lost.              *)
Send(c) ==
    /\ out[c] # <<>>
    /\ up' = [up EXCEPT ![c] = IF c \in conns THEN @ \o Piece(out[c]) ELSE @]
    /\ out' = [out EXCEPT ![c] = Unsent(@)]
    /\ UNCHANGED <<line, pc, jobid, left, got, elevel, shown, down, serverVars,
                   histories>>

(* What the client does after its request.                                 *)
AfterRequest(l) ==
    CASE l.request = "NEWJOB" -> "newjob_ok"
      [] l.request = "INFO" -> "info"
      [] l.request \in {"SET_ENV", "UNSET_ENV", "SET_LOGDIR"} -> "closing"
      [] OTHER -> "answer"

(* The command runs unless -W and a bad result forbid it.  run_job asks    *)
(* for the log directory first.                                            *)
RunOrSkip(c) ==
    IF line[c].depend_on # <<>> /\ line[c].require_elevel /\ elevel[c] # 0
    THEN /\ Goto(c, "closing")
         /\ out' = [out EXCEPT ![c] = Writes(RunjobOkWrites(<<>>))
                                        \o Msg("ENDJOB", -1)]
    ELSE /\ Goto(c, "logdir")
         /\ out' = [out EXCEPT ![c] = Msg("GET_LOGDIR", -1)]

(* recv_msg, in a client that has sent everything; the next header.        *)
Msg0(c) == Head(down[c]).v

RecvMsg(c, label) ==
    /\ pc[c] = label
    /\ out[c] = <<>> /\ down[c] # <<>>
    /\ down' = [down EXCEPT ![c] = Tail(@)]
    /\ UNCHANGED <<line, up, serverVars, histories>>

(* recv_bytes is called for as much as the header says.                    *)
Expect(c, size) ==
    /\ left' = [left EXCEPT ![c] = size]
    /\ got' = [got EXCEPT ![c] = <<>>]

(* c_check_version: the first answer, and the second one, after which the  *)
(* request is sent.                                                        *)
RecvVersion(c) ==
    /\ RecvMsg(c, "version")
    /\ Goto(c, "version2")
    /\ UNCHANGED <<jobid, out, left, got, elevel, shown>>

SendRequest(c) ==
    /\ Goto(c, AfterRequest(line[c]))
    /\ out' = [out EXCEPT ![c] = Writes(Request(line[c]))]

RecvSecondVersion(c) ==
    /\ RecvMsg(c, "version2")
    /\ SendRequest(c)
    /\ UNCHANGED <<jobid, left, got, elevel, shown>>

(* c_wait_newjob_ok.                                                       *)
RecvNewjobOk(c) ==
    /\ RecvMsg(c, "newjob_ok")
    /\ jobid' = [jobid EXCEPT ![c] = Msg0(c).jobid]
    /\ Goto(c, "commands")
    /\ UNCHANGED <<out, left, got, elevel, shown>>

(* c_wait_server_commands: the header of RUNJOB, then recv_ints.           *)
RecvRunjob(c) ==
    /\ RecvMsg(c, "commands")
    /\ elevel' = [elevel EXCEPT ![c] = Msg0(c).last_errorlevel]
    /\ Goto(c, "gpu_num")
    /\ UNCHANGED <<jobid, out, left, got, shown>>

RecvGpuNum(c) ==
    /\ RecvMsg(c, "gpu_num")
    /\ Expect(c, Msg0(c))
    /\ IF Msg0(c) = 0 THEN RunOrSkip(c) ELSE Goto(c, "gpu") /\ UNCHANGED out
    /\ UNCHANGED <<jobid, elevel, shown>>

(* get_logdir, c_show_label, c_show_cmd, c_get_env, c_get_logdir and       *)
(* c_show_info: the header of the answer.  c_get_env prints an empty line  *)
(* if no text follows.                                                     *)
RecvAnswer(c) ==
    \E label \in {"logdir", "answer", "info"} :
        /\ RecvMsg(c, label)
        /\ Expect(c, Msg0(c).size)
        /\ \/ /\ Msg0(c).type = "LIST_LINE" /\ Msg0(c).size # 0
              /\ Goto(c, label \o "_line") /\ UNCHANGED shown
           \/ /\ Msg0(c).type = "LIST_LINE" /\ Msg0(c).size = 0
              /\ Goto(c, "done")
              /\ shown' = [shown EXCEPT ![c] = {<<>>}]
           \/ /\ Msg0(c).type = "INFO_DATA"
              /\ Goto(c, "info_data") /\ UNCHANGED shown
        /\ UNCHANGED <<jobid, out, elevel>>

(* The text has come.  recv_bytes returns the size of the last piece, and  *)
(* all callers but c_show_info compare it with the size of the text.       *)
LineRead(c, n, text) ==
    \/ /\ pc[c] \in {"logdir_line", "answer_line"} /\ n # Len(text)
       /\ Goto(c, "error") /\ UNCHANGED <<out, shown>>
    \/ /\ pc[c] = "logdir_line" /\ n = Len(text)
       /\ Goto(c, "running")
       /\ out' = [out EXCEPT ![c] =
             Writes(RunjobOkWrites(IF line[c].store_output
                                   THEN String(text) ELSE <<>>))]
       /\ UNCHANGED shown
    \/ /\ pc[c] = "answer_line" /\ n = Len(text)
       /\ Goto(c, "done") /\ UNCHANGED out
       /\ shown' = [shown EXCEPT ![c] = {String(text)}]
    \/ /\ pc[c] = "info_line"
       /\ Goto(c, "info") /\ UNCHANGED out
       /\ shown' = [shown EXCEPT ![c] = {String(text)}]

(* The second read of recv_ints: there is only one, whatever it returns.   *)
RecvGpus(c) ==
    /\ pc[c] = "gpu"
    /\ out[c] = <<>> /\ down[c] # <<>>
    /\ LET n == Takes(left[c], down[c])
       IN  /\ down' = [down EXCEPT ![c] = SubSeq(@, n + 1, Len(@))]
           /\ got' = [got EXCEPT ![c] = Store(@, SubSeq(down[c], 1, n))]
    /\ RunOrSkip(c)
    /\ UNCHANGED <<line, jobid, left, elevel, shown, up, serverVars,
                   histories>>

(* One recv of recv_bytes in a client.                                     *)
RecvBytes(c) ==
    /\ pc[c] \in {"logdir_line", "answer_line", "info_line"}
    /\ out[c] = <<>> /\ down[c] # <<>>
    /\ LET n    == Takes(left[c], down[c])
           text == Store(got[c], SubSeq(down[c], 1, n))
       IN  /\ down' = [down EXCEPT ![c] = SubSeq(@, n + 1, Len(@))]
           /\ got' = [got EXCEPT ![c] = text]
           /\ left' = [left EXCEPT ![c] = @ - n]
           /\ IF n = left[c] THEN LineRead(c, n, text)
                             ELSE UNCHANGED <<pc, out, shown>>
    /\ UNCHANGED <<line, jobid, elevel, up, serverVars, histories>>

(* c_show_info copies what comes to its output, up to the end.             *)
RecvInfo(c) ==
    /\ pc[c] = "info_data" /\ down[c] # <<>>
    /\ got' = [got EXCEPT ![c] = Store(@, down[c])]
    /\ down' = [down EXCEPT ![c] = <<>>]
    /\ UNCHANGED <<line, pc, jobid, out, left, elevel, shown, up, serverVars,
                   histories>>

(* The server has closed the connection and everything has been read.      *)
RecvEof(c) ==
    /\ c \notin conns /\ sending.to # c
    /\ out[c] = <<>> /\ down[c] = <<>>
    /\ \/ /\ pc[c] \in {"version", "newjob_ok", "logdir", "answer"}
          /\ Goto(c, "error") /\ UNCHANGED <<out, shown>>
       \/ /\ pc[c] = "version2"
          /\ SendRequest(c) /\ UNCHANGED shown
       \/ /\ pc[c] \in {"commands", "info"}
          /\ Goto(c, "done") /\ UNCHANGED <<out, shown>>
       \/ /\ pc[c] = "info_data"
          /\ shown' = [shown EXCEPT ![c] = {got[c]}]
          /\ Goto(c, "done") /\ UNCHANGED out
    /\ UNCHANGED <<line, jobid, left, got, elevel, up, down, serverVars,
                   histories>>

(* The command has ended, and ENDJOB is sent.                              *)
CommandEnds(c) ==
    /\ pc[c] = "running" /\ out[c] = <<>>
    /\ Goto(c, "closing")
    /\ out' = [out EXCEPT ![c] = Msg("ENDJOB", -1)]
    /\ UNCHANGED <<line, jobid, left, got, elevel, shown, up, down, serverVars,
                   histories>>

(* main closes the socket.                                                 *)
Close(c) ==
    /\ pc[c] = "closing" /\ out[c] = <<>>
    /\ Goto(c, "done")
    /\ UNCHANGED <<line, jobid, out, left, got, elevel, shown, up, down,
                   serverVars, histories>>

(* The client is killed, perhaps in the middle of a message.               *)
Killed(c) ==
    /\ c \in Mortal /\ pc[c] # "idle" /\ ~Over(c)
    /\ Goto(c, "dead")
    /\ out' = [out EXCEPT ![c] = <<>>]
    /\ torn' = IF out[c] # <<>> /\ out[c][1][1].of # "msg"
               THEN torn \cup {c} ELSE torn
    /\ UNCHANGED <<line, jobid, left, got, elevel, shown, up, down, serverVars,
                   cut>>

-----------------------------------------------------------------------------
(* server.c and jobs.c                                                     *)

Ready(phase) == server = phase /\ sending = NotSending

(* The server sends; it does nothing else meanwhile.                       *)
ServerSend ==
    /\ sending # NotSending
    /\ down' = [down EXCEPT ![sending.to] =
                  IF Over(sending.to) THEN @ ELSE @ \o Piece(sending.writes)]
    /\ sending' = LET rest == Unsent(sending.writes)
                  IN  IF rest = <<>> THEN NotSending
                      ELSE [sending EXCEPT !.writes = rest]
    /\ UNCHANGED <<clientVars, up, conns, server, reading, tableVars, environ,
                   logdir, histories>>

Answer(c, ws) == sending' = [to |-> c, writes |-> Writes(ws)]

(* client_read: the header.                                                *)
ClientRead(c) ==
    /\ Ready("select") /\ c \in conns /\ up[c] # <<>>
    /\ up' = [up EXCEPT ![c] = Tail(@)]
    /\ server' = "read"
    /\ LET m == Head(up[c]).v IN
       reading' = [NotReading EXCEPT
                     !.from = c, !.msg = m, !.todo = Parts(m),
                     !.left = IF Parts(m) = <<>> THEN 0
                              ELSE SizeOf(m, Parts(m)[1])]
    /\ UNCHANGED <<clientVars, down, conns, sending, tableVars, environ, logdir,
                   histories>>

(* job_finished, as far as the lists go.                                   *)
JobFinished(j) ==
    /\ job' = [job EXCEPT ![j].state = "FINISHED"]
    /\ firstjob' = SelectSeq(firstjob, LAMBDA x : x # j)
    /\ first_finished_job' = Append(first_finished_job, j)

(* client_read finds the connection closed: clean_after_client_disappeared.*)
ClientDisappeared(c) ==
    /\ Ready("select") /\ c \in conns /\ up[c] = <<>> /\ Over(c)
    /\ server' = "schedule"
    /\ conns' = conns \ {c}
    /\ IF owner[c] = -1 THEN UNCHANGED tableVars
       ELSE JobFinished(owner[c]) /\ owner' = [owner EXCEPT ![c] = -1]
    /\ UNCHANGED <<clientVars, up, down, reading, sending, environ, logdir,
                   histories>>

-----------------------------------------------------------------------------
(* The rest of a message.                                                  *)

Part == Head(reading.todo)

(* The connection that is read has ended.                                  *)
AtEof == up[reading.from] = <<>> /\ Over(reading.from)

(* The next part but n - 1.                                                *)
Skip(n, r) ==
    LET rest == SubSeq(r.todo, n + 1, Len(r.todo))
    IN  [r EXCEPT !.todo = rest,
                  !.left = IF rest = <<>> THEN 0 ELSE SizeOf(r.msg, rest[1])]

(* The first read of recv_ints.  At the end of the stream it leaves the    *)
(* number as it was: num_gpus as the header has it, depend_on_size 0.      *)
RecvNum ==
    /\ Ready("read") /\ reading.todo # <<>> /\ Part \in Counts
    /\ up[reading.from] # <<>> \/ AtEof
    /\ LET n == IF ~AtEof THEN Head(up[reading.from]).v
                ELSE IF Part = "gpu_num" THEN reading.msg.gpus ELSE 0
       IN  reading' = IF n = 0 THEN Skip(2, reading)
                      ELSE [Skip(1, reading) EXCEPT !.left = n]
    /\ up' = [up EXCEPT ![reading.from] = IF AtEof THEN @ ELSE Tail(@)]
    /\ UNCHANGED <<clientVars, down, conns, server, sending, tableVars, environ,
                   logdir, histories>>

(* The second one, whose result is only looked at for -1; the array came   *)
(* in one piece.  At the end of the stream the contents stay undefined,    *)
(* and nobody will ever see them.                                          *)
RecvInts ==
    /\ Ready("read") /\ reading.todo # <<>> /\ Part \in Arrays
    /\ up[reading.from] # <<>> \/ AtEof
    /\ LET n == Takes(reading.left, up[reading.from])
       IN  /\ reading' = Skip(1, [reading EXCEPT !.data[Part] =
                                   Store(@, SubSeq(up[reading.from], 1, n))])
           /\ up' = [up EXCEPT ![reading.from] = SubSeq(@, n + 1, Len(@))]
    /\ UNCHANGED <<clientVars, down, conns, server, sending, tableVars, environ,
                   logdir, histories>>

(* The callers that stop the server when the last piece is not the whole.  *)
Checked(type) == type \in {"RUNJOB_OK", "GET_ENV", "SET_ENV", "UNSET_ENV"}

(* recv_bytes.  At the end of the stream recv returns 0 for ever and the   *)
(* loop goes on: no step.                                                  *)
RecvText ==
    /\ Ready("read") /\ reading.todo # <<>> /\ Part \in Fields \ Arrays
    /\ up[reading.from] # <<>>
    /\ LET n == Takes(reading.left, up[reading.from])
           r == [reading EXCEPT !.left = @ - n,
                                !.data[Part] =
                                  Store(@, SubSeq(up[reading.from], 1, n))]
       IN  /\ up' = [up EXCEPT ![reading.from] = SubSeq(@, n + 1, Len(@))]
           /\ \/ /\ n # reading.left
                 /\ reading' = r /\ UNCHANGED <<server, conns>>
              \/ /\ n = reading.left
                 /\ Checked(r.msg.type) /\ n # SizeOf(r.msg, Part)
                 /\ server' = "exited" /\ conns' = {} /\ reading' = r
              \/ /\ n = reading.left
                 /\ Checked(r.msg.type) => n = SizeOf(r.msg, Part)
                 /\ reading' = Skip(1, r) /\ UNCHANGED <<server, conns>>
    /\ UNCHANGED <<clientVars, down, sending, tableVars, environ, logdir,
                   histories>>

-----------------------------------------------------------------------------
(* The message is complete, and handled.                                   *)

Handles(type) ==
    /\ Ready("read") /\ reading.todo = <<>> /\ reading.msg.type = type
    /\ server' = "schedule" /\ reading' = NotReading
    /\ UNCHANGED <<clientVars, up, down, torn>>

Data(field) == reading.data[field]

(* send_list_line: the size of an empty line is 1.                         *)
ListLine(s) ==
    <<Header([NoMsg EXCEPT !.type = "LIST_LINE", !.size = Len(s) + 1]),
      Units("line", Append(s, "NUL"))>>

(* s_newjob: the id is the next one; everything that came is stored.       *)
NewJob ==
    /\ Handles("NEWJOB")
    /\ LET j == Len(firstjob) + Len(first_finished_job) IN
       /\ job' = [job EXCEPT ![j] =
             [NoJob EXCEPT !.state = "QUEUED",
                           !.command = String(Data("command")),
                           !.label = String(Data("label")),
                           !.info = String(Data("env")),
                           !.gpu_ids = Data("gpu"),
                           !.depend_on = Data("depend")]]
       /\ firstjob' = Append(firstjob, j)
       /\ owner' = [owner EXCEPT ![reading.from] = j]
       /\ Answer(reading.from, Msg("NEWJOB_OK", j))
    /\ UNCHANGED <<conns, first_finished_job, environ, logdir, cut>>

(* s_process_runjob_ok.                                                    *)
RunjobOk ==
    /\ Handles("RUNJOB_OK")
    /\ job' = [job EXCEPT ![owner[reading.from]].output_filename =
                 String(Data("ofilename"))]
    /\ UNCHANGED <<conns, sending, firstjob, first_finished_job, owner, environ,
                   logdir, cut>>

EndJob ==
    /\ Handles("ENDJOB")
    /\ JobFinished(owner[reading.from])
    /\ owner' = [owner EXCEPT ![reading.from] = -1]
    /\ UNCHANGED <<conns, sending, environ, logdir, cut>>

(* get_job, and the last job for -1: of the queue or, if that is empty, of *)
(* the results.                                                            *)
Named(j) ==
    IF j # -1 THEN {x \in {j} \cap JobIds : job[x].state # None}
    ELSE IF firstjob # <<>> THEN {Last(firstjob)}
    ELSE IF first_finished_job # <<>> THEN {Last(first_finished_job)}
    ELSE {}

(* s_send_label and s_send_cmd.                                            *)
LabelLine(S) ==
    IF S = {} THEN <<"?", "nl">>
    ELSE LET s == job[CHOOSE x \in S : TRUE].label
         IN  IF s = <<>> THEN <<>> ELSE Append(s, "nl")

CmdLine(S) == IF S = {} THEN <<"?">> ELSE job[CHOOSE x \in S : TRUE].command

(* s_get_env: nothing follows the header if the variable is not set.       *)
EnvLine(s) ==
    IF s = <<>> THEN <<Header([NoMsg EXCEPT !.type = "LIST_LINE"])>>
    ELSE ListLine(s)

(* The value of a variable, or nothing.                                    *)
Getenv(name) == IF name \in Names THEN environ[name] ELSE <<>>

Query ==
    /\ LET c == reading.from
           S == Named(reading.msg.jobid)
       IN  \/ /\ Handles("GET_VERSION")
              /\ Answer(c, Msg("VERSION", -1))
           \/ /\ Handles("GET_LABEL")
              /\ Answer(c, ListLine(LabelLine(S)))
           \/ /\ Handles("GET_CMD")
              /\ Answer(c, ListLine(CmdLine(S)))
           \/ /\ Handles("GET_ENV")
              /\ Answer(c, EnvLine(Getenv(String(Data("text")))))
           \/ /\ Handles("GET_LOGDIR")
              /\ Answer(c, ListLine(logdir))
    /\ UNCHANGED <<conns, tableVars, environ, logdir, cut>>

(* strtok(var, "="): the words between equal signs.                        *)
Words(s) ==
    LET eq == {0, Len(s) + 1} \cup {n \in DOMAIN s : s[n] = "="}
        Next1(n) == Min({x \in eq : x > n})
    IN  SelectSeq([k \in 1 .. Cardinality(eq) - 1 |->
                     LET a == CHOOSE x \in eq :
                                Cardinality({y \in eq : y < x}) = k - 1
                     IN  SubSeq(s, a + 1, Next1(a) - 1)],
                  LAMBDA w : w # <<>>)

(* s_set_env takes the first two words.  setenv refuses a missing name and *)
(* faults on a missing value.                                              *)
SetEnv ==
    LET w == Words(String(Data("text"))) IN
    /\ Handles("SET_ENV") /\ Len(w) # 1
    /\ environ' = IF w = <<>> THEN environ ELSE [environ EXCEPT ![w[1]] = w[2]]
    /\ UNCHANGED <<conns, sending, tableVars, logdir, cut>>

SetEnvFaults ==
    /\ Ready("read") /\ reading.todo = <<>> /\ reading.msg.type = "SET_ENV"
    /\ Len(Words(String(Data("text")))) = 1
    /\ server' = "exited" /\ conns' = {}
    /\ UNCHANGED <<clientVars, up, down, reading, sending, tableVars, environ,
                   logdir, histories>>

(* s_unset_env.                                                            *)
UnsetEnv ==
    /\ Handles("UNSET_ENV")
    /\ environ' = [environ EXCEPT ![String(Data("text"))] = <<>>]
    /\ UNCHANGED <<conns, sending, tableVars, logdir, cut>>

(* s_set_logdir; the server closes the connection.                         *)
SetLogdir ==
    /\ Handles("SET_LOGDIR")
    /\ logdir' = String(Data("text"))
    /\ conns' = conns \ {reading.from}
    /\ UNCHANGED <<sending, tableVars, environ, cut>>

(* pinfo_dump, by what it may write: each write takes some of what is left *)
(* in number, and always from the start.                                   *)
PinfoDump(info) ==
    LET dump[rest \in 0 .. Len(info)] ==
          IF rest = 0 THEN {<<>>}
          ELSE UNION {{SubSeq(info, 1, n) \o d : d \in dump[rest - n]} :
                        n \in 1 .. rest}
    IN  dump[Len(info)]

(* s_job_info: the running job or the last result for -1.                  *)
InfoOf(j) ==
    IF j # -1 THEN Named(j)
    ELSE IF \E x \in JobIds : job[x].state = "RUNNING" THEN {firstjob[1]}
    ELSE IF first_finished_job # <<>> THEN {Last(first_finished_job)}
    ELSE {}

InfoUnknown ==
    /\ Handles("INFO") /\ InfoOf(reading.msg.jobid) = {}
    /\ Answer(reading.from, ListLine(<<"?", "nl">>))
    /\ conns' = conns \ {reading.from}
    /\ UNCHANGED <<tableVars, environ, logdir, cut>>

(* pinfo_dump, and one write of the command, which may be short.  They     *)
(* come without a size, up to the end of the connection.                   *)
Info ==
    /\ Handles("INFO")
    /\ \E j \in InfoOf(reading.msg.jobid) :
       \E info \in PinfoDump(job[j].info), n \in 0 .. Len(job[j].command) :
         LET command == SubSeq(job[j].command, 1, n)
         IN  /\ Answer(reading.from,
                  Msg("INFO_DATA", -1)
                    \o <<Units("info", info), Units("info", command)>>)
             /\ cut' = IF <<info, command>> = <<job[j].info, job[j].command>>
                       THEN cut ELSE cut \cup {reading.from}
    /\ conns' = conns \ {reading.from}
    /\ UNCHANGED <<tableVars, environ, logdir>>

-----------------------------------------------------------------------------
(* The end of a round of server_loop.  next_run_job finds the first job of *)
(* the queue if nothing runs; s_send_runjob sends the header and the GPUs. *)
Idle == \A j \in JobIds : job[j].state # "RUNNING"

StartJob ==
    /\ Ready("schedule") /\ Idle /\ firstjob # <<>>
    /\ server' = "select"
    /\ LET j == firstjob[1]
           c == CHOOSE x \in conns : owner[x] = j
       IN  /\ job' = [job EXCEPT ![j].state = "RUNNING"]
           /\ \E e \in IF job[j].depend_on = <<>> THEN {0} ELSE {0, 1} :
                Answer(c, <<Header([NoMsg EXCEPT !.type = "RUNJOB",
                                                 !.last_errorlevel = e])>>
                          \o Ints("gpu", job[j].gpu_ids))
    /\ UNCHANGED <<clientVars, up, down, conns, reading, firstjob,
                   first_finished_job, owner, environ, logdir, histories>>

NothingToRun ==
    /\ Ready("schedule") /\ (firstjob = <<>> \/ ~Idle)
    /\ server' = "select"
    /\ UNCHANGED <<clientVars, up, down, conns, reading, sending, tableVars,
                   environ, logdir, histories>>

-----------------------------------------------------------------------------
Server ==
    \/ \E c \in Clients : ClientRead(c) \/ ClientDisappeared(c)
    \/ ServerSend \/ RecvNum \/ RecvInts \/ RecvText
    \/ NewJob \/ RunjobOk \/ EndJob \/ Query \/ SetEnv \/ SetEnvFaults
    \/ UnsetEnv \/ SetLogdir \/ Info \/ InfoUnknown \/ StartJob \/ NothingToRun

Client(c) ==
    \/ Send(c) \/ RecvVersion(c) \/ RecvSecondVersion(c) \/ RecvNewjobOk(c)
    \/ RecvRunjob(c) \/ RecvGpuNum(c) \/ RecvAnswer(c) \/ RecvGpus(c)
    \/ RecvBytes(c) \/ RecvInfo(c) \/ RecvEof(c) \/ CommandEnds(c) \/ Close(c)

Next ==
    \/ Server
    \/ \E c \in Clients : Start(c) \/ Client(c) \/ Killed(c)

Spec == Init /\ [][Next]_vars

(* Both ends run on: the server as long as there is something to do, and   *)
(* each client with its command.                                           *)
FairSpec == Spec /\ WF_vars(Server) /\ \A c \in Clients : WF_vars(Client(c))

-----------------------------------------------------------------------------
(* The unit that comes next, if one has come, is what its reader takes it  *)
(* for.                                                                    *)
Comes(stream, field) == stream # <<>> => stream[1].of = field

(* The two ends never lose step: whenever the server or a client reads,    *)
(* what it reads is the field it means, in every order of messages, pieces *)
(* and deaths.  Nothing on the wire says what a unit is, and one condition *)
(* that differs between c_new_job and s_newjob makes a command a label or  *)
(* a number of GPUs.                                                       *)
Aligned ==
    /\ \A c \in conns \ {reading.from} : Comes(up[c], "msg")
    /\ server = "read" =>
         Comes(up[reading.from], IF reading.todo = <<>> THEN "msg" ELSE Part)
    /\ \A c \in Clients :
         /\ pc[c] \in {"version", "version2", "newjob_ok", "commands", "logdir",
                       "answer", "info"} => Comes(down[c], "msg")
         /\ pc[c] = "gpu_num" => Comes(down[c], "gpu_num")
         /\ pc[c] = "gpu" => Comes(down[c], "gpu")
         /\ pc[c] \in {"logdir_line", "answer_line", "info_line"} =>
              Comes(down[c], "line")
         /\ pc[c] = "info_data" => Comes(down[c], "info")

(* What client c says about job j, when it has asked for it by its id.     *)
Tells(c, request, j, text) ==
    line[c].request = request /\ line[c].jobid = j
      => shown[c] \subseteq {text, <<"?">>, <<"?", "nl">>}

(* A job has the command, the label, the environment, the GPUs and the     *)
(* dependencies that its user has given, however they were cut into        *)
(* pieces; and whoever asks for the command, the label or the information  *)
(* of a job by its id is shown that text in full, "unknown job", or an     *)
(* error.  (The information is the only text whose writer does not go on   *)
(* rightly after a short write.)                                           *)
TextsArriveWhole ==
    \A s \in Clients : jobid[s] # -1 =>
        LET j == job[jobid[s]]
            l == line[s]
        IN  /\ j.command = l.command /\ j.label = l.label /\ j.info = l.env
            /\ j.gpu_ids = l.gpu_nums /\ j.depend_on = l.depend_on
            /\ \A c \in Clients :
                 /\ Tells(c, "GET_CMD", jobid[s], l.command)
                 /\ Tells(c, "GET_LABEL", jobid[s],
                          IF l.label = <<>> THEN <<>> ELSE Append(l.label, "nl"))
                 /\ c \notin cut =>
                      Tells(c, "INFO", jobid[s], l.env \o l.command)

(* The server is in the loop of recv_bytes for ever.                       *)
Spinning ==
    /\ server = "read" /\ reading.todo # <<>>
    /\ Part \in Fields \ Arrays /\ AtEof

(* recv_bytes does not notice the end of a stream, and then the server     *)
(* hangs.  That happens only when the client was killed while it sent this *)
(* message; a client that closes or dies between messages does no harm,    *)
(* whatever the server still expects of it.                                *)
HangsOnlyIfTorn == Spinning => reading.from \in torn

(* As long as the server does not hang or stop, every ts process returns:  *)
(* each read has its write, on both sides, also when other clients die.    *)
RequestsEnd ==
    \A c \in Clients :
        pc[c] # "idle" ~> (Over(c) \/ Spinning)
=============================================================================
