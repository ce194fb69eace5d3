----------------------------- MODULE MCDissect -----------------------------
(* One observation id and one template id; small limits, real sizes.       *)
EXTENDS Dissect
=============================================================================
