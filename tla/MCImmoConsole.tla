--------------------------- MODULE MCImmoConsole ---------------------------
(***************************************************************************)
(* ImmoConsole with two keys: the ECU holds one, and a plan may be under   *)
(* the other.  One event and one command at a time, beside the automatic   *)
(* read and Connect; connections come and go without a bound.              *)
(***************************************************************************)
EXTENDS ImmoConsole
=============================================================================
