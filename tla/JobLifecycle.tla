---------------------------- MODULE JobLifecycle ----------------------------
(***************************************************************************)
(* What the task spooler promises about jobs, without queue, messages and  *)
(* processes.  A job gets the next id when it is submitted, it waits, it   *)
(* may be started once, when its slots are free under the present limit,   *)
(* and it ends once, with one result that is never revised.  A job can end *)
(* without having run: it was rejected, skipped or removed, or its client  *)
(* disappeared.                                                            *)
(***************************************************************************)
EXTENDS Integers, FiniteSets

CONSTANTS
    JobIdBound,       \* bound: the number of jobs ever submitted
    InitSlots         \* the limit at the start

JobIds == 0 .. (JobIdBound - 1)

VARIABLES
    life,             \* "new", "waiting", "running" or "ended"
    size,             \* the slots a submitted job needs, 0 once it has ended
    result,           \* {} or {errorlevel}
    limit             \* the slots that jobs may take

vars == <<life, size, result, limit>>

Init ==
    /\ life = [j \in JobIds |-> "new"]
    /\ size = [j \in JobIds |-> 0]
    /\ result = [j \in JobIds |-> {}]
    /\ limit = InitSlots

(* Ids are given out in order.                                             *)
NextId(j) ==
    /\ life[j] = "new"
    /\ \A x \in JobIds : x < j => life[x] # "new"

(* Some result is recorded for j, which had none.                          *)
Record(j) ==
    /\ result[j] = {}
    /\ \E e \in result'[j] : result' = [result EXCEPT ![j] = {e}]

Submit(j) ==
    /\ NextId(j)
    /\ life' = [life EXCEPT ![j] = "waiting"]
    /\ size'[j] \in Nat
    /\ size' = [size EXCEPT ![j] = size'[j]]
    /\ UNCHANGED <<result, limit>>

Reject(j) ==
    /\ NextId(j)
    /\ life' = [life EXCEPT ![j] = "ended"]
    /\ Record(j)
    /\ UNCHANGED <<size, limit>>

(* One pair for each slot of each running job.                             *)
Taken ==
    UNION {{j} \X (1 .. size[j]) : j \in {x \in JobIds : life[x] = "running"}}

Start(j) ==
    /\ life[j] = "waiting"
    /\ life' = [life EXCEPT ![j] = "running"]
    /\ Cardinality(Taken') <= limit
    /\ UNCHANGED <<size, result, limit>>

End(j) ==
    /\ life[j] \in {"waiting", "running"}
    /\ life' = [life EXCEPT ![j] = "ended"]
    /\ size' = [size EXCEPT ![j] = 0]
    /\ Record(j)
    /\ UNCHANGED limit

(* Nobody is evicted when the limit is lowered.                            *)
SetLimit ==
    /\ limit' \in Nat \ {0}
    /\ UNCHANGED <<life, size, result>>

Next ==
    \/ \E j \in JobIds : Submit(j) \/ Reject(j) \/ Start(j) \/ End(j)
    \/ SetLimit

Spec == Init /\ [][Next]_vars
=============================================================================
