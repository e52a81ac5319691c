---------------------------- MODULE MCLockOrder ----------------------------
(***************************************************************************)
(* Three transactions over a purchase and a chain of three hops: enough *)
(* for two spenders of one branch at different depths and a third party.   *)
(***************************************************************************)
EXTENDS LockOrder

CONSTANTS a1, a2, k1, p1, root, middle, leaf

PathDef   == (root :> <<root>>) @@ (middle :> <<root, middle>>) @@ (leaf :> <<root, middle, leaf>>)
HolderDef == (a1 :> middle) @@ (a2 :> leaf)
BuyerDef  == (p1 :> a2)
=============================================================================
