----------------------------- MODULE MCExecute -----------------------------
(***************************************************************************)
(* The instance of Execute that TLC checks.                                *)
(***************************************************************************)
EXTENDS Execute

(* Success, failures on both sides of the sign, and one that the system    *)
(* cuts down to success.                                                   *)
Statuses == {0, 1, 255, 256}
=============================================================================
