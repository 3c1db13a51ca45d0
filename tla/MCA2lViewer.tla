----------------------------- MODULE MCA2lViewer -----------------------------
(***************************************************************************)
(* Two descriptions and two images.  Description A has a shared axis and a *)
(* function with a sub-function; B numbers its characteristics otherwise.  *)
(***************************************************************************)
EXTENDS A2lViewer

MCLength == [a \in {"A", "B"} |-> IF a = "A" THEN 3 ELSE 2]

MCFunctions ==
  [a \in {"A", "B"} |->
     IF a = "A" THEN [F |-> [subs |-> {"G", "H"}, chars |-> {}],
                      G |-> [subs |-> {}, chars |-> {1, 2}]]
                ELSE [K |-> [subs |-> {}, chars |-> {2}]]]

MCAxes == [a \in {"A", "B"} |-> IF a = "A" THEN <<{"x"}, {"x"}, {}>> ELSE <<{"x"}, {}>>]

MCMatches(a, i, t) == t = "" \/ i > 1

\* Between the images the shared axis differs, and of what lies over it the
\* first characteristic was rescaled and the second, all of one value, was not.
\* The image "scg" is of the other module, whose map reads nothing in "sc8".
MCRead(a, i, b, m) ==
  IF b = "sc8" /\ m = "Simos1810" THEN Nothing
  ELSE CASE a = "A" /\ i = 1 -> [axis |-> b, data |-> b]
         [] a = "A" /\ i = 2 -> [axis |-> b, data |-> "ones"]
         [] a = "A" /\ i = 3 -> [axis |-> "none", data |-> "same"]
         [] a = "B" /\ i = 1 -> [axis |-> b, data |-> "ramp"]
         [] a = "B" /\ i = 2 -> [axis |-> "none", data |-> b]

MCSignatures == [b \in {"sc8", "scg"} |-> IF b = "sc8" THEN {"SC8"} ELSE {"SCG"}]
=============================================================================
