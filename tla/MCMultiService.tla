--------------------------- MODULE MCMultiService ---------------------------
(***************************************************************************)
(* Two calls, to the method that is bound first and to the one bound last. *)
(***************************************************************************)
EXTENDS MultiService

CONSTANTS c1, c2

BindOrder == <<"registerSubscription", "registerPublication">>
MethodOf == [c \in Calls |-> IF c = c1 THEN "registerSubscription" ELSE "registerPublication"]
=============================================================================
