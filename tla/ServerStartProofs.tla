-------------------------- MODULE ServerStartProofs --------------------------
(***************************************************************************)
(* Proofs about ServerStart, for any number of clients.                    *)
(*                                                                         *)
(* SequentialStarts and LoneClientConnects are not inductive: they depend  *)
(* on what an undisturbed client has found on its way (Progress), on which *)
(* clients a starting server belongs to (Starting), and on the path naming *)
(* the one live server (PathFollows).                                      *)
(***************************************************************************)
EXTENDS ServerStart, TLAPS

(* A server that is not up yet has a client waiting for it; a client that  *)
(* has not forked has no server, one that is connected is connected to     *)
(* one; a bound path was bound by somebody.                                *)
Starting ==
    /\ \A s \in Clients :
         server[s] \in {"forked", "bound", "listening"} => pc[s] = "wait_up"
    /\ \A c \in Clients :
         /\ pc[c] \in {"start", "check", "unlink", "fork"} =>
              server[c] = "none"
         /\ pc[c] \in {"check", "connected"} => conn[c] \in Clients
    /\ path \in Clients => server[path] \notin {"none", "forked", "failed"}

(* While an undisturbed client searches, nobody else does and no server is *)
(* on its way out.                                                         *)
Undisturbed ==
    \A c \in Clients : Searching(pc[c]) /\ c \notin disturbed =>
        /\ \A d \in Clients : Searching(pc[d]) => d = c
        /\ \A s \in Clients :
             server[s] \notin {"leaving", "closed", "exiting"}

(* What an undisturbed client that could fork has brought about so far.    *)
ProgressOf(c) ==
    /\ pc[c] = "check" => path \in Clients /\ server[path] = "serving"
    /\ pc[c] = "unlink" => (path \in Clients => server[path] = "ended")
    /\ pc[c] = "fork" => path = NoFile
    /\ pc[c] = "wait_up" =>
         /\ server[c] \in {"forked", "bound", "listening", "serving"}
         /\ path = IF server[c] = "forked" THEN NoFile ELSE c
    /\ pc[c] = "retry" => server[c] = "serving" /\ path = c
    /\ pc[c] # "aborted"

Progress == \A c \in Clients \ (disturbed \cup unforked) : ProgressOf(c)

(* A client whose fork failed is past it, and has no server.               *)
Unforked ==
    \A c \in unforked :
        /\ pc[c] \in {"retry", "connected", "aborted", "done"}
        /\ server[c] = "none"

(* As long as nobody was disturbed the path names the one live server.     *)
PathFollows ==
    disturbed = {} =>
    /\ \A s \in Clients :
         /\ server[s] \in {"bound", "listening", "serving", "leaving",
                           "closed"} => path = s
         /\ server[s] = "exiting" => path = NoFile
    /\ \A s, t \in Clients :
         server[s] = "exiting" /\ server[t] = "exiting" => s = t

IInv ==
    TypeOK /\ Starting /\ Undisturbed /\ Progress /\ Unforked /\ PathFollows

(* The initial states satisfy the inductive invariant.                     *)
LEMMA StartInit == Init => IInv
BY StartAssumption
   DEF Init, IInv, TypeOK, Starting, Undisturbed, Progress, Unforked,
       ProgressOf, PathFollows, ServerStates, ClientStates, Searching

(* Every step of ServerStart records disturbances by Watch, so Undisturbed *)
(* holds after it.                                                         *)
LEMMA WatchKeepsUndisturbed ==
    ASSUME Watch PROVE Undisturbed'
BY DEF Watch, Undisturbed, Searching

(* The steps of a client keep the inductive invariant.                     *)
LEMMA ClientKeeps ==
    ASSUME IInv, NEW c \in Clients, Watch,
           ClientStep(c) \/ TryConnect(c) \/ ShutdownServer(c)
    PROVE  IInv'
<1>1. Undisturbed'
  BY WatchKeepsUndisturbed
<1>2. /\ disturbed \subseteq disturbed' /\ disturbed' \subseteq Clients
      /\ unforked' = unforked \cup
           {x \in Clients : pc[x] = "fork" /\ pc'[x] = "retry"}
  BY DEF Watch, IInv, TypeOK
<1> USE StartAssumption, <1>1, <1>2
    DEF IInv, TypeOK, Starting, Undisturbed, Progress, Unforked, ProgressOf,
        PathFollows, ServerStates, ClientStates, Searching
<1>3. CASE TryConnect(c)
  BY <1>3 DEF TryConnect, Answers, AfterFailure, Listening
<1>4. CASE ShutdownServer(c)
  BY <1>4 DEF ShutdownServer
<1>5. CASE TryCheckOwnership(c)
  BY <1>5 DEF TryCheckOwnership
<1>6. CASE Unlink(c)
  BY <1>6 DEF Unlink
<1>7. CASE ForkServer(c)
  BY <1>7 DEF ForkServer
<1>10. CASE ForkFails(c)
  BY <1>10 DEF ForkFails
<1>8. CASE WaitServerUp(c)
  BY <1>8 DEF WaitServerUp, ServerUp
<1>9. CASE Retry(c)
  BY <1>9 DEF Retry, Answers, Listening
<1> QED
  BY <1>3, <1>4, <1>5, <1>6, <1>7, <1>8, <1>9, <1>10
  DEF ClientStep

(* The steps of a server, and its deaths, keep the inductive invariant.    *)
LEMMA ServerKeeps ==
    ASSUME IInv, NEW s \in Clients, Watch,
           ServerStep(s) \/ Sigterm(s) \/ Crash(s)
    PROVE  IInv'
<1>1. Undisturbed'
  BY WatchKeepsUndisturbed
<1>2. /\ disturbed \subseteq disturbed' /\ disturbed' \subseteq Clients
      /\ unforked' = unforked \cup
           {x \in Clients : pc[x] = "fork" /\ pc'[x] = "retry"}
  BY DEF Watch, IInv, TypeOK
<1> USE StartAssumption, <1>1, <1>2
    DEF IInv, TypeOK, Starting, Undisturbed, Progress, Unforked, ProgressOf,
        PathFollows, ServerStates, ClientStates, Searching, Advance
<1>3. CASE Bind(s)
  BY <1>3 DEF Bind
<1>4. CASE BindFails(s)
  BY <1>4 DEF BindFails
<1>5. CASE Listen(s)
  BY <1>5 DEF Listen
<1>6. CASE NotifyParent(s)
  BY <1>6 DEF NotifyParent
<1>7. CASE CloseListener(s)
  BY <1>7 DEF CloseListener
<1>8. CASE UnlinkPath(s)
  BY <1>8 DEF UnlinkPath
<1>9. CASE ExitServer(s)
  BY <1>9 DEF ExitServer
<1>10. CASE Sigterm(s)
  BY <1>10 DEF Sigterm
<1>11. CASE Crash(s)
  BY <1>11 DEF Crash, Watch
<1> QED
  BY <1>3, <1>4, <1>5, <1>6, <1>7, <1>8, <1>9, <1>10, <1>11 DEF ServerStep

(* The inductive invariant holds in every reachable state.                 *)
LEMMA StartInvariant == Spec => []IInv
<1>1. IInv /\ [Next]_vars => IInv'
  <2> SUFFICES ASSUME IInv, [Next]_vars PROVE IInv'
    OBVIOUS
  <2>1. CASE UNCHANGED vars
    BY <2>1 DEF vars, IInv, TypeOK, Starting, Undisturbed, Progress,
                ProgressOf, Unforked, PathFollows, Searching
  <2>2. CASE Next
    <3>1. PICK c \in Clients :
            (ClientStep(c) \/ ServerStep(c) \/ Environment(c)) /\ Watch
      BY <2>2 DEF Next
    <3> QED
      BY <3>1, ClientKeeps, ServerKeeps DEF Environment
  <2> QED
    BY <2>1, <2>2
<1> QED
  BY <1>1, StartInit, PTL DEF Spec

(* Type correctness of the search for the server.                          *)
THEOREM StartTypeCorrect == Spec => []TypeOK
<1>1. IInv => TypeOK
  BY DEF IInv
<1> QED
  BY <1>1, StartInvariant, PTL

(* For any number of clients and any crashes: a ts command that looks for  *)
(* the server undisturbed gets one, also beside a stale socket file,       *)
(* unless its fork() fails.                                                *)
THEOREM LoneClientsConnect == Spec => []LoneClientConnects
<1>1. IInv => LoneClientConnects
  BY DEF IInv, Progress, ProgressOf, LoneClientConnects
<1> QED
  BY <1>1, StartInvariant, PTL

(* For any number of clients: while no two of them look for the server at  *)
(* a time there is at most one server, and the path leads to it.           *)
THEOREM SequentialStartsSafe == Spec => []SequentialStarts
<1>1. IInv => SequentialStarts
  BY StartAssumption DEF IInv, PathFollows, SequentialStarts, Listening
<1> QED
  BY <1>1, StartInvariant, PTL
=============================================================================
