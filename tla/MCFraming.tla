----------------------------- MODULE MCFraming -----------------------------
(***************************************************************************)
(* The instance of Framing that TLC checks.                                *)
(***************************************************************************)
EXTENDS Framing

A  == <<"a">>
AB == <<"a", "b">>

(* Command lines, by request.                                              *)
Ask(request, j)  == [NoLine EXCEPT !.request = request, !.jobid = j]
Tell(request, s) == [NoLine EXCEPT !.request = request, !.label = s]

(* ts -L with TS_ENV and a long command, and ts -n -g -W.                  *)
TsL == [NoLine EXCEPT !.request = "NEWJOB", !.command = AB, !.label = A,
                      !.env = AB]
Tsg == [NoLine EXCEPT !.request = "NEWJOB", !.command = A,
                      !.gpu_nums = <<0, 1>>, !.wait_free_gpus = FALSE,
                      !.depend_on = <<0>>, !.require_elevel = TRUE,
                      !.store_output = FALSE]

Lines ==
    {TsL, Tsg, Ask("GET_CMD", 0), Ask("GET_LABEL", -1), Ask("INFO", 0),
     Ask("INFO", -1),
     Tell("GET_ENV", A), Tell("SET_ENV", <<"a", "=", "b">>),
     Tell("SET_ENV", A), Tell("UNSET_ENV", A), Tell("SET_LOGDIR", AB)}

EnvNames == {A}
=============================================================================
