----------------------------- MODULE ServerStart -----------------------------
(***************************************************************************)
(* How ts finds its server, starts one when there is none, and how a       *)
(* server goes away (server_start.c; server_main, end_server and           *)
(* sigterm_handler of server.c).                                           *)
(*                                                                         *)
(* The processes share one name in the file system, the path of the Unix   *)
(* socket.  Several ts commands may look for the server at the same time,  *)
(* and every system call on the path is a step of its own.  A client forks *)
(* at most one server, so that server is called by the name of its client. *)
(* All processes belong to one user.                                       *)
(***************************************************************************)
EXTENDS Naturals, FiniteSets

CONSTANTS
    Clients,       \* the ts commands, each run once
    CheckOwner,    \* should_check_owner: TS_SOCKET is not set
    NoFile,        \* the socket path names nothing
    Stale          \* the path names the socket of a server long dead

ASSUME StartAssumption ==
    /\ CheckOwner \in BOOLEAN
    /\ NoFile # Stale
    /\ NoFile \notin Clients /\ Stale \notin Clients

VARIABLES
    path,        \* the socket file: NoFile, Stale, or the server that bound it
    server,      \* how far the server forked by each client is
    pc,          \* how far each client is in ensure_server_up
    conn,        \* the server each client is connected to, or NoFile
    disturbed,   \* history: clients whose search for the server overlapped
                 \* with another one, or with the end of a server
    unforked     \* history: clients whose fork() failed

vars == <<path, server, pc, conn, disturbed, unforked>>

ServerStates == {"none", "forked", "bound", "listening", "serving",
                 "leaving", "closed", "exiting", "failed", "ended"}

ClientStates == {"start", "check", "unlink", "fork", "wait_up", "retry",
                 "connected", "aborted", "done"}

(* Type correctness; above all, a client that believes to be connected is  *)
(* connected to a process.                                                 *)
TypeOK ==
    /\ path \in Clients \cup {NoFile, Stale}
    /\ server \in [Clients -> ServerStates]
    /\ pc \in [Clients -> ClientStates]
    /\ conn \in [Clients -> Clients \cup {NoFile}]
    /\ disturbed \subseteq Clients /\ unforked \subseteq Clients

Init ==
    /\ path \in {NoFile, Stale}
    /\ server = [s \in Clients |-> "none"]
    /\ pc = [c \in Clients |-> "start"]
    /\ conn = [c \in Clients |-> NoFile]
    /\ disturbed = {} /\ unforked = {}

-----------------------------------------------------------------------------
(* The client: ensure_server_up.                                           *)

(* The listening socket of server s exists and has not been closed.        *)
Listening(s) == server[s] \in {"listening", "serving", "leaving", "exiting"}

(* A plausible mistake: the file alone is taken for a server.              *)
AnswersAnyFile == path # NoFile

(* connect() on the path succeeds.                                         *)
Answers == path \in Clients /\ Listening(path)

(* A plausible mistake: the file of a dead server is left in place.        *)
AfterFailureKeepFile == "fork"

(* errno is ENOENT, or ECONNREFUSED: then the file is unlinked first.      *)
AfterFailure == IF path = NoFile THEN "fork" ELSE "unlink"

TryConnect(c) ==
    /\ pc[c] = "start"
    /\ IF Answers
       THEN /\ conn' = [conn EXCEPT ![c] = path]
            /\ pc' = [pc EXCEPT ![c] =
                        IF CheckOwner THEN "check" ELSE "connected"]
       ELSE pc' = [pc EXCEPT ![c] = AfterFailure] /\ UNCHANGED conn
    /\ UNCHANGED <<path, server>>

(* try_check_ownership stops the client if the path is gone by now.        *)
TryCheckOwnership(c) ==
    /\ pc[c] = "check"
    /\ pc' = [pc EXCEPT ![c] = IF path = NoFile THEN "aborted"
                               ELSE "connected"]
    /\ UNCHANGED <<path, server, conn>>

(* Whatever the path names by now is unlinked.                             *)
Unlink(c) ==
    /\ pc[c] = "unlink"
    /\ path' = NoFile
    /\ pc' = [pc EXCEPT ![c] = "fork"]
    /\ UNCHANGED <<server, conn>>

ForkServer(c) ==
    /\ pc[c] = "fork"
    /\ server' = [server EXCEPT ![c] = "forked"]
    /\ pc' = [pc EXCEPT ![c] = "wait_up"]
    /\ UNCHANGED <<path, conn>>

(* fork() fails.  fork_server returns -1, and the read in wait_server_up   *)
(* returns at once, as that is no descriptor.                              *)
ForkFails(c) ==
    /\ pc[c] = "fork"
    /\ pc' = [pc EXCEPT ![c] = "retry"]
    /\ UNCHANGED <<path, server, conn>>

(* Plausible mistakes: the parent is notified before listen(); the read    *)
(* does not end when the server dies.                                      *)
ServerUpEarly(c) == server[c] # "forked"
ServerUpNoEof(c) ==
    server[c] \notin {"forked", "bound", "listening", "failed", "ended"}

(* The read of wait_server_up returns: the server has written its byte, or *)
(* is dead and the pipe is closed.                                         *)
ServerUp(c) == server[c] \notin {"forked", "bound", "listening"}

WaitServerUp(c) ==
    /\ pc[c] = "wait_up"
    /\ ServerUp(c)
    /\ pc' = [pc EXCEPT ![c] = "retry"]
    /\ UNCHANGED <<path, server, conn>>

(* The second try, on whatever server the path leads to.  "The server      *)
(* didn't come up." is the end of a client that fails now.                 *)
Retry(c) ==
    /\ pc[c] = "retry"
    /\ pc' = [pc EXCEPT ![c] = IF Answers THEN "connected" ELSE "aborted"]
    /\ conn' = IF Answers THEN [conn EXCEPT ![c] = path] ELSE conn
    /\ UNCHANGED <<path, server>>

(* ts -K: the message is read by a server that is in its loop.             *)
ShutdownServer(c) ==
    /\ pc[c] = "connected"
    /\ server[conn[c]] = "serving"
    /\ server' = [server EXCEPT ![conn[c]] = "leaving"]
    /\ pc' = [pc EXCEPT ![c] = "done"]
    /\ UNCHANGED <<path, conn>>

-----------------------------------------------------------------------------
(* The server: server_main, and the ways it ends.                          *)

Advance(s, from, to) ==
    /\ server[s] = from
    /\ server' = [server EXCEPT ![s] = to]
    /\ UNCHANGED <<pc, conn>>

Bind(s) == Advance(s, "forked", "bound") /\ path = NoFile /\ path' = s

(* "Error binding.": EADDRINUSE.                                           *)
BindFails(s) ==
    Advance(s, "forked", "failed") /\ path # NoFile /\ UNCHANGED path

Listen(s) == Advance(s, "bound", "listening") /\ UNCHANGED path

NotifyParent(s) == Advance(s, "listening", "serving") /\ UNCHANGED path

(* end_server closes the listening socket ...                              *)
CloseListener(s) == Advance(s, "leaving", "closed") /\ UNCHANGED path

(* ... and unlinks whatever its path names by then.                        *)
UnlinkPath(s) == Advance(s, "closed", "ended") /\ path' = NoFile

(* sigterm_handler does it the other way round: first unlink, then exit.   *)
Sigterm(s) ==
    /\ \E from \in {"listening", "serving", "leaving"} :
         Advance(s, from, "exiting")
    /\ path' = NoFile

ExitServer(s) == Advance(s, "exiting", "ended") /\ UNCHANGED path

(* The process dies without a handler: SIGKILL, a fault, error().  A file  *)
(* it has bound stays.                                                     *)
Crash(s) ==
    /\ \E from \in {"forked", "bound", "listening", "serving", "leaving"} :
         Advance(s, from, "ended")
    /\ UNCHANGED path

-----------------------------------------------------------------------------
Searching(state) == state \notin {"start", "connected", "aborted", "done"}

(* The histories.  A client is disturbed if, while it looks for the        *)
(* server, another client does so too or some server is on its way out.    *)
Watch ==
    /\ disturbed' = disturbed \cup {c \in Clients :
         /\ Searching(pc'[c])
         /\ \/ \E d \in Clients \ {c} : Searching(pc'[d])
            \/ \E s \in Clients :
                 \/ server'[s] \in {"leaving", "closed", "exiting"}
                 \/ server'[s] = "ended" /\ server[s] # "ended"}
    /\ unforked' = unforked \cup
         {c \in Clients : pc[c] = "fork" /\ pc'[c] = "retry"}

ClientStep(c) ==
    \/ TryCheckOwnership(c) \/ Unlink(c) \/ ForkServer(c)
    \/ ForkFails(c) \/ WaitServerUp(c) \/ Retry(c)

ServerStep(s) ==
    \/ Bind(s) \/ BindFails(s) \/ Listen(s) \/ NotifyParent(s)
    \/ CloseListener(s) \/ UnlinkPath(s) \/ ExitServer(s)

(* Users type commands and end servers; nothing makes them.                *)
Environment(c) ==
    \/ TryConnect(c) \/ ShutdownServer(c) \/ Sigterm(c) \/ Crash(c)

Next == \E c \in Clients :
            (ClientStep(c) \/ ServerStep(c) \/ Environment(c)) /\ Watch

Spec == Init /\ [][Next]_vars

(* Every process that can take a step of its own takes it.                 *)
FairSpec ==
    /\ Spec
    /\ \A c \in Clients : WF_vars(ClientStep(c) /\ Watch)
    /\ \A s \in Clients : WF_vars(ServerStep(s) /\ Watch)

-----------------------------------------------------------------------------
(* A client that looks for the server while nobody else does, and while no *)
(* server is ending, and that can fork if it has to, is connected: beside  *)
(* a running server, without any, or beside the file that a crashed one    *)
(* has left.                                                               *)
LoneClientConnects ==
    \A c \in Clients : pc[c] = "aborted" => c \in disturbed \cup unforked

(* As long as no two clients look for the server at a time there is one    *)
(* server at most, and the path leads to it unless it is being ended.      *)
SequentialStarts ==
    disturbed = {} =>
    \A s, t \in Clients :
        /\ Listening(s) /\ Listening(t) => s = t
        /\ server[s] \in {"listening", "serving", "leaving"} => path = s

(* Every ts command gets past ensure_server_up: it ends up connected, or   *)
(* gives up, and never hangs in the wait for a server that has died.       *)
SearchEnds ==
    \A c \in Clients : Searching(pc[c]) ~> ~Searching(pc[c])
==============================================================================
