------------------------------ MODULE JobList ------------------------------
(***************************************************************************)
(* The linked lists of jobs.c, one pointer assignment at a time.           *)
(*                                                                         *)
(* Server takes the queue and the list of results for sequences and every  *)
(* operation for one step.  This module has the pointers: firstjob,        *)
(* first_finished_job and the next of every struct Job.  An operation is a *)
(* short program of assignments, and SIGTERM may come between any two of   *)
(* them: its handler walks both lists to save them (TS_SAVELIST) and ends  *)
(* the server.  Searches only read, so they belong to the first assignment *)
(* behind them.  The assignments are taken in the order of the source.     *)
(***************************************************************************)
EXTENDS Integers, Sequences, SequencesExt, FiniteSets

CONSTANTS
    JobIdBound,       \* bound: the number of jobs ever submitted
    MaxFinished       \* TS_MAXFINISHED; Server has the fault of 0

ASSUME ListAssumption == JobIdBound \in Nat /\ MaxFinished \in Nat \ {0}

JobIds  == 0 .. (JobIdBound - 1)
NULL    == -1
Garbage == -2         \* what malloc returns

(* The places that hold a pointer.                                         *)
FIRST    == <<"firstjob", 0>>
FINISHED == <<"first_finished_job", 0>>
TMP      == <<"tmp", 0>>
N(j)     == <<"next", j>>
Cells    == {FIRST, FINISHED, TMP} \cup {N(j) : j \in JobIds}

VARIABLES
    mem,         \* the pointer in each place
    job,         \* each struct Job: "unused", "made" or "freed"
    command,     \* the jobs whose command is there
    running,     \* the jobs in state RUNNING
    todo,        \* the assignments that are still to be done
    doing,       \* the operation they belong to, and its job
    server,      \* "up", "fault" or "saved"
    saved,       \* what the handler of SIGTERM has written
    queue,       \* what the queue should be, as a sequence
    results      \* and the list of results

vars == <<mem, job, command, running, todo, doing, server, saved, queue,
          results>>

Idle    == [op |-> "none", job |-> NULL, behind |-> {}]
NoDump  == [at |-> Idle, queue |-> <<>>, results |-> <<>>,
            should |-> <<>>]

Init ==
    /\ mem = [x \in Cells |-> IF x \in {FIRST, FINISHED} THEN NULL ELSE Garbage]
    /\ job = [j \in JobIds |-> "unused"]
    /\ command = {} /\ running = {}
    /\ todo = <<>> /\ doing = Idle
    /\ server = "up" /\ saved = NoDump
    /\ queue = <<>> /\ results = <<>>

-----------------------------------------------------------------------------
(* Statements: *to = value, *to = *from, destroy_job and the arrival of    *)
(* the command.                                                            *)
Set(to, value)  == [op |-> "set", to |-> to, from |-> to, value |-> value]
Copy(to, from)  == [op |-> "copy", to |-> to, from |-> from, value |-> NULL]
Free(j)         == [op |-> "free", to |-> N(j), from |-> N(j), value |-> j]
Receive(j)      == [op |-> "receive", to |-> N(j), from |-> N(j), value |-> j]

(* What a walk from pointer p meets: the jobs and, at the end, NULL or a   *)
(* pointer that leads nowhere.  A walk in a circle is cut off at a job.    *)
Walk(p) ==
    LET path[n \in 0 .. (JobIdBound + 1)] ==
          IF n = 0 THEN <<p>>
          ELSE LET s == path[n - 1]
               IN  IF Last(s) \in JobIds /\ job[Last(s)] = "made"
                   THEN Append(s, mem[N(Last(s))]) ELSE s
    IN  path[JobIdBound + 1]

Ends(walk) == Last(walk) = NULL

(* The places of list L (a walk that ends).                                *)
FirstOf(L)   == L[1]
LastOf(L)    == L[Len(L) - 1]
QueueWalk    == Walk(mem[FIRST])
FinishedWalk == Walk(mem[FINISHED])

(* The n-th place of the list L that begins in head.                       *)
Place(head, L, n) == IF n = 1 THEN head ELSE N(L[n - 1])

IndexOf(L, j) == CHOOSE n \in DOMAIN L : L[n] = j

(* find_previous_job and the like: the place that points at j, in the list *)
(* that begins in head.                                                    *)
Before(head, j) ==
    LET L == Walk(mem[head]) IN Place(head, L, IndexOf(L, j))

(* The list s after j was taken out.                                       *)
Without(s, j) == RemoveAt(s, IndexOf(s, j))

(* The jobs that stand behind j in the queue.                              *)
Behind(j) ==
    {queue[n] : n \in {m \in DOMAIN queue : \E k \in 1 .. m - 1 : queue[k] = j}}

(* An operation begins: its statements, and what it should do.             *)
Begin(op, j, program, q, r) ==
    /\ todo' = program
    /\ doing' = [op |-> op, job |-> j, behind |-> Behind(j)]
    /\ queue' = q /\ results' = r
    /\ UNCHANGED <<mem, server, saved>>

Ready == server = "up" /\ todo = <<>>

Fault ==
    /\ server' = "fault"
    /\ UNCHANGED <<mem, job, command, running, todo, doing, saved, queue, results>>

-----------------------------------------------------------------------------
(* newjobptr and s_newjob: the job is linked first, then init_job clears   *)
(* its fields, and the command is read from the client.                    *)
NewJobStatements(j, link) == <<Set(link, j), Set(N(j), NULL), Receive(j)>>

NewJob(j) ==
    /\ Ready /\ job[j] = "unused"
    /\ \A x \in JobIds : x < j => job[x] # "unused"
    /\ job' = [job EXCEPT ![j] = "made"]
    /\ Begin("newjob", j,
             NewJobStatements(j, IF queue = <<>> THEN FIRST
                                 ELSE N(LastOf(QueueWalk))),
             Append(queue, j), results)
    /\ UNCHANGED <<command, running>>

(* s_mark_job_running.                                                     *)
MarkRunning(j) ==
    /\ Ready /\ j \in Range(queue) \ running
    /\ running' = running \cup {j}
    /\ UNCHANGED <<mem, job, command, todo, doing, server, saved, queue, results>>

-----------------------------------------------------------------------------
(* new_finished_job.  The last of the list is found before the first one   *)
(* is wiped out: if MaxFinished is 1 they are the same job, and the next   *)
(* of a job that was freed is set.                                         *)
NewFinishedJob(j) ==
    IF results = <<>> THEN <<Set(FINISHED, j), Set(N(j), NULL)>>
    ELSE LET first == FirstOf(FinishedWalk)
             wipe  == IF Len(results) >= MaxFinished
                      THEN <<Copy(FINISHED, N(first)), Free(first)>> ELSE <<>>
         IN  wipe \o <<Set(N(LastOf(FinishedWalk)), j), Set(N(j), NULL)>>

Stored(j) == Append(IF Len(results) >= MaxFinished THEN Tail(results)
                    ELSE results, j)

(* job_finished: the pointer to the job and its successor are read, the    *)
(* job goes into the list of results, and out of the queue.                *)
Unlink(j) == <<Set(Before(FIRST, j), mem[N(j)])>>

FinishKept(j) ==
    /\ Ready /\ j \in Range(queue)
    /\ Begin("finish", j, NewFinishedJob(j) \o Unlink(j),
             Without(queue, j), Stored(j))
    /\ running' = running \ {j}
    /\ UNCHANGED <<job, command>>

(* A job of ts -nf for which nobody waits is forgotten, and never freed.   *)
FinishUnkept(j) ==
    /\ Ready /\ j \in Range(queue)
    /\ Begin("finish", j, Unlink(j), Without(queue, j), results)
    /\ running' = running \ {j}
    /\ UNCHANGED <<job, command>>

(* A job of ts -nf with waiters: it is stored, and destroy_finished_job    *)
(* takes it out again when the last of them has been told.  Its loop       *)
(* advances by ++i: it works for the first two places.                     *)
FinishWaited(j) ==
    LET stored == Front(Stored(j)) IN
    /\ Ready /\ j \in Range(queue) /\ Len(stored) < 2
    /\ Begin("finish", j,
             NewFinishedJob(j) \o Unlink(j)
             \o <<Copy(IF stored = <<>> THEN FINISHED ELSE N(stored[1]), N(j)),
                  Free(j)>>,
             Without(queue, j), stored)
    /\ running' = running \ {j}
    /\ UNCHANGED <<job, command>>

FinishWaitedFaults(j) ==
    /\ Ready /\ j \in Range(queue) /\ Len(Stored(j)) > 2
    /\ Fault

-----------------------------------------------------------------------------
(* The jobs that are not the first one.                                    *)
NotFirst == {queue[n] : n \in 2 .. Len(queue)}

(* s_move_urgent.                                                          *)
UrgentStatements(p) ==
    LET first == mem[FIRST]
    IN  <<Copy(Before(FIRST, p), N(p)), Copy(N(p), N(first)), Set(N(first), p)>>

MoveUrgent(p) ==
    /\ Ready /\ p \in NotFirst
    /\ Begin("urgent", p, UrgentStatements(p),
             <<Head(queue), p>> \o Without(Tail(queue), p), results)
    /\ UNCHANGED <<job, command, running>>

(* The first job has no previous one.                                      *)
MoveUrgentFaults == Ready /\ Len(queue) > 1 /\ Fault

(* A plausible mistake: tmp is read before the stores.                     *)
SwapStatementsEarly(p1, p2) ==
    <<Copy(TMP, N(p1)), Set(Before(FIRST, p1), p2), Set(Before(FIRST, p2), p1),
      Copy(N(p1), N(p2)), Copy(N(p2), TMP)>>

(* s_swap_jobs.  The order is what makes it right for neighbours, too.     *)
SwapStatements(p1, p2) ==
    <<Set(Before(FIRST, p1), p2), Set(Before(FIRST, p2), p1), Copy(TMP, N(p1)),
      Copy(N(p1), N(p2)), Copy(N(p2), TMP)>>

Swapped(p1, p2) ==
    [n \in DOMAIN queue |-> IF queue[n] = p1 THEN p2
                            ELSE IF queue[n] = p2 THEN p1 ELSE queue[n]]

SwapJobs(p1, p2) ==
    /\ Ready /\ {p1, p2} \subseteq NotFirst
    /\ Begin("swap", p1, SwapStatements(p1, p2), Swapped(p1, p2), results)
    /\ UNCHANGED <<job, command, running>>

-----------------------------------------------------------------------------
(* A plausible mistake: the job is freed before it is taken out.           *)
RemoveStatementsFreeFirst(link, p) == <<Free(p), Copy(link, N(p))>>

(* s_remove_job.                                                           *)
RemoveStatements(link, p) == <<Copy(link, N(p)), Free(p)>>

RemoveQueued(p) ==
    /\ Ready /\ p \in NotFirst \ running
    /\ Begin("remove", p, RemoveStatements(Before(FIRST, p), p),
             Without(queue, p), results)
    /\ UNCHANGED <<job, command, running>>

RemoveFinished(p) ==
    /\ Ready /\ p \in Range(results)
    /\ Begin("remove", p, RemoveStatements(Before(FINISHED, p), p),
             queue, Without(results, p))
    /\ UNCHANGED <<job, command, running>>

(* A plausible mistake: the list is reset after its jobs are freed.        *)
ClearStatementsLate ==
    [n \in 1 .. Len(results) |-> Free(results[n])] \o <<Set(FINISHED, NULL)>>

(* s_clear_finished.                                                       *)
ClearStatements ==
    <<Set(FINISHED, NULL)>> \o [n \in 1 .. Len(results) |-> Free(results[n])]

ClearFinished ==
    /\ Ready /\ results # <<>>
    /\ Begin("clear", NULL, ClearStatements, queue, <<>>)
    /\ UNCHANGED <<job, command, running>>

-----------------------------------------------------------------------------
(* The next statement of the operation.  What is freed, and tmp when the   *)
(* operation is over, hold nothing that may be used.                       *)
Statement ==
    LET s == Head(todo)
        m == CASE s.op = "set"  -> [mem EXCEPT ![s.to] = s.value]
               [] s.op = "copy" -> [mem EXCEPT ![s.to] = mem[s.from]]
               [] s.op = "free" -> [mem EXCEPT ![s.to] = Garbage]
               [] OTHER -> mem
    IN
    /\ server = "up" /\ todo # <<>>
    /\ mem' = IF Len(todo) = 1 THEN [m EXCEPT ![TMP] = Garbage] ELSE m
    /\ job' = IF s.op = "free" THEN [job EXCEPT ![s.value] = "freed"] ELSE job
    /\ command' = IF s.op = "receive" THEN command \cup {s.value} ELSE command
    /\ todo' = Tail(todo)
    /\ doing' = IF Len(todo) = 1 THEN Idle ELSE doing
    /\ UNCHANGED <<running, server, saved, queue, results>>

(* sigterm_handler: joblist_dump writes the results, as comments, and the  *)
(* commands of the queue.  It faults where a walk leads nowhere or a       *)
(* command is missing, and does not end where a walk comes back to itself; *)
(* the walks are recorded as they are.                                     *)
Sigterm ==
    /\ server = "up"
    /\ server' = "saved"
    /\ saved' = [at |-> doing, queue |-> QueueWalk, results |-> FinishedWalk,
                 should |-> queue]
    /\ UNCHANGED <<mem, job, command, running, todo, doing, queue, results>>

Next ==
    \/ Statement \/ Sigterm \/ ClearFinished \/ MoveUrgentFaults
    \/ \E j \in JobIds :
         \/ NewJob(j) \/ MarkRunning(j) \/ FinishKept(j) \/ FinishUnkept(j)
         \/ FinishWaited(j) \/ FinishWaitedFaults(j) \/ MoveUrgent(j)
         \/ RemoveQueued(j) \/ RemoveFinished(j)
         \/ \E p \in JobIds : SwapJobs(j, p)

Spec == Init /\ [][Next]_vars

-----------------------------------------------------------------------------
(* Between operations the pointers spell the sequences that Server works   *)
(* with: -u, -U, -r, -C, new and ended jobs do to the linked lists what    *)
(* they should, for neighbours, first and last jobs, and lists that are    *)
(* full.                                                                   *)
ListsAreSequences ==
    Ready => /\ QueueWalk = Append(queue, NULL)
             /\ FinishedWalk = Append(results, NULL)

(* No statement reads or writes the next of a struct Job that has been     *)
(* freed, and none is freed twice, if there is room for two results.       *)
Freed(cell) == \E j \in JobIds : cell = N(j) /\ job[j] = "freed"

NoUseAfterFree ==
    todo # <<>> => ~Freed(Head(todo).to) /\ ~Freed(Head(todo).from)

(* What the handler may miss: the job that is being added or that -u is    *)
(* moving, and the jobs behind one that ends.                              *)
MayMiss(at) ==
    CASE at.op \in {"newjob", "urgent"} -> {at.job}
      [] at.op = "finish" -> at.behind
      [] OTHER -> {}

(* SIGTERM saves the list, at whatever statement it comes: unless a swap   *)
(* is under way the walk over the queue meets every other job, and both    *)
(* walks come to an end unless the newest job is not initialized yet.      *)
SavedOnSigterm ==
    server = "saved" /\ saved.at.op # "swap" =>
        /\ Ends(saved.results)
        /\ Ends(saved.queue) \/ saved.at.op = "newjob"
        /\ Range(saved.should) \ Range(saved.queue) \subseteq MayMiss(saved.at)
=============================================================================
