------------------------------ MODULE MCServer ------------------------------
(***************************************************************************)
(* The instances of Server that TLC checks: the command lines the users    *)
(* may type in each of them.                                               *)
(***************************************************************************)
EXTENDS ServerProperties

(* Command lines, by the option that makes them.                           *)
Ts           == [NoCommand EXCEPT !.request = "NEWJOB"]
TsN(n)       == [Ts EXCEPT !.num_slots = n]
TsNf         == [Ts EXCEPT !.should_keep_finished = FALSE]
TsD(S)       == [Ts EXCEPT !.depend_on = S]
TsW(S)       == [TsD(S) EXCEPT !.require_elevel = TRUE]
TsB          == [Ts EXCEPT !.wait_enqueuing = FALSE]
On(req, j)   == [NoCommand EXCEPT !.request = req, !.jobid = j]
TsSwap(a, b) == [On("SWAP_JOBS", a) EXCEPT !.jobid2 = b]
TsSlots(n)   == [NoCommand EXCEPT !.request = "SET_MAX_SLOTS",
                                  !.max_slots = n]

ClientSymmetry == Permutations(Clients)

(* Jobs of one and two slots while the limit is lowered.                   *)
SlotLines == {TsN(1), TsN(2), TsSlots(1)}

(* Dependencies on named jobs and on the last job, and jobs and results    *)
(* removed while others depend on them.  The first -d is a plain job.      *)
DependencyLines == {TsD({-1}), TsW({0, 1}), On("REMOVEJOB", 1)}

(* Kept and unkept jobs and clients that wait for them.                    *)
WaitLines == {Ts, TsNf, On("WAITJOB", -1), On("WAITJOB", 0)}

(* The queue rearranged while jobs come and go.                            *)
OrderLines == {Ts, On("URGENT", -1), TsSwap(1, 2)}

(* A full queue: clients that wait for a place and clients that do not,    *)
(* beside queries, cleared results and the end of the server.              *)
FullLines == {Ts, TsB, On("URGENT", 0), On("LIST", -1), On("GET_STATE", -1),
              On("CLEAR_FINISHED", -1), On("KILL_SERVER", -1)}

(* Jobs of one and of two slots, a dependency, and a client that waits.    *)
LiveLines == {TsN(2), TsD({-1}), On("WAITJOB", -1)}
=============================================================================
