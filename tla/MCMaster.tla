------------------------------ MODULE MCMaster ------------------------------
(***************************************************************************)
(* ClientMaster with three letters for two domains, for TLC.                *)
(***************************************************************************)
EXTENDS ClientMaster, TLC

CONSTANTS d1, d2, m1, m2, m3

Two       == {d1, d2}
TwoForOne == (m1 :> d1) @@ (m2 :> d1) @@ (m3 :> d2)
=============================================================================
