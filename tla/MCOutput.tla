------------------------------ MODULE MCOutput ------------------------------
(***************************************************************************)
(* The instances of Output that TLC checks.                                *)
(***************************************************************************)
EXTENDS Output

Line(store, skipped) == [store_output |-> store, skipped |-> skipped]
On(request, jobid)   == [request |-> request, jobid |-> jobid]

(* Jobs with their output stored, jobs without, and skipped jobs.          *)
AllJobs == {Line(TRUE, FALSE), Line(FALSE, FALSE), Line(TRUE, TRUE)}

(* Each of the commands.  One of them names no job.                        *)
AllViews == {On("TAIL", -1), On("CAT", 0), On("KILL_JOB", 1),
             On("KILL_ALL", -1), On("SHOW_PID", -1), On("SHOW_OUTPUT_FILE", 0),
             On("INFO", 1)}

(* The process of a stranger.                                              *)
Stranger == {Pid(JobIdBound)}
=============================================================================
