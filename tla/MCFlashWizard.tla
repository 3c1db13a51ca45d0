--------------------------- MODULE MCFlashWizard ---------------------------
(***************************************************************************)
(* An engine ECU that can be unlocked and a gearbox that cannot, and two   *)
(* files: the stock file of the engine, which the gearbox reader rejects,  *)
(* and another complete engine file that also passes for a gearbox file.   *)
(***************************************************************************)
EXTENDS FlashWizard

CONSTANTS engine, gearbox, stock, tune

MCCalBlock == [m \in {engine, gearbox} |-> IF m = engine THEN 5 ELSE 4]
MCCbootBlock == [m \in {engine, gearbox} |-> IF m = engine THEN 1 ELSE 0]
MCParsed == [f \in {stock, tune} |-> [m \in {engine, gearbox} |->
  IF m = engine THEN 1..5 ELSE IF f = stock THEN {} ELSE {2, 4}]]
MCStock == {<<stock, engine>>}
=============================================================================
