----------------------------- MODULE EcuUpdate -----------------------------
(***************************************************************************)
(* What flash_blocks promises its caller about a control module: it is     *)
(* altered only by a run, may be left torn by one that fails, and success  *)
(* is reported only over a module that holds exactly the prepared blocks,  *)
(* which then stays as it is until another run begins.                     *)
(***************************************************************************)
VARIABLES
  device,     \* "old", "torn" or "new"
  verdict     \* "none", "running", "ok" or "failed"

vars == <<device, verdict>>

Init == device \in {"old", "new"} /\ verdict = "none"

Begin == verdict # "running" /\ verdict' = "running" /\ UNCHANGED device

\* Once altered, the module never holds its old content again.  A request may
\* still take effect after the tool has given up on it.
Alter == verdict \in {"running", "failed"} /\ device' \in {"torn", "new"} /\ UNCHANGED verdict

Succeed == verdict = "running" /\ device = "new" /\ verdict' = "ok" /\ UNCHANGED device

GiveUp == verdict = "running" /\ verdict' = "failed" /\ UNCHANGED device

Next == Begin \/ Alter \/ Succeed \/ GiveUp

Spec == Init /\ [][Next]_vars
=============================================================================
