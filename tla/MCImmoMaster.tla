---------------------------- MODULE MCImmoMaster ----------------------------
EXTENDS ImmoMaster

CONSTANTS k1, k2, k3
MCMasterKeys == <<k1, k2, k3>>

\* In variant C every question reports on the answer before.
LossOfReport == {<<"C", "loss">>}
=============================================================================
