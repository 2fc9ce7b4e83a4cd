------------------------------- MODULE MCGpu -------------------------------
(***************************************************************************)
(* The instances of Gpu that TLC checks.                                   *)
(***************************************************************************)
EXTENDS Gpu

(* ts -N slots -G n, and ts -g.                                            *)
TsG(n, slots) == [gpus |-> n, wait_free_gpus |-> TRUE, gpu_nums |-> {},
                  num_slots |-> slots, depend_on |-> {}]
Tsg(ids)      == [gpus |-> Cardinality(ids), wait_free_gpus |-> FALSE,
                  gpu_nums |-> ids, num_slots |-> 1, depend_on |-> {}]

(* Jobs of one and of two GPUs, a job that waits for another, and a job on *)
(* a named GPU and on one that is not there.                               *)
GpuLines == {TsG(1, 1), TsG(2, 2), [TsG(1, 1) EXCEPT !.depend_on = {0}],
             Tsg({0, 2})}
============================================================================
