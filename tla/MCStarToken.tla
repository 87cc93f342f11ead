----------------------------- MODULE MCStarToken -----------------------------
(* Bounded instances of StarToken; Init lets any of Deployers be the       *)
(* deployer.                                                               *)
EXTENDS StarToken
=============================================================================
