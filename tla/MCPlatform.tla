------------------------------ MODULE MCPlatform ------------------------------
(* A small instance of Platform: two devices that a configuration may name, *)
(* one of them in the registry; a rule on each, enabled or not, and one     *)
(* that is not valid.                                                       *)
EXTENDS Platform

CONSTANTS d1, d2

MCBootstrap == [devices |-> {d1}, ruleDevice |-> d1, enabled |-> TRUE]
MCContents ==
  {MCBootstrap, [MCBootstrap EXCEPT !.enabled = FALSE],
   [MCBootstrap EXCEPT !.ruleDevice = d2],
   [devices |-> {d1, d2}, ruleDevice |-> d2, enabled |-> TRUE]}

=============================================================================
