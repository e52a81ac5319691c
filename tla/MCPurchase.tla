----------------------------- MODULE MCPurchase -----------------------------
(* Small instances of Purchase for TLC; the .cfg files pick among them. *)
EXTENDS PurchaseBooks, TLC

CONSTANTS h1, h2, alice, bob, human, tea, r1, r2, r3

(* Two instants a day. *)
MCDayOf == [t \in 0 .. MaxTime |-> t \div 2]

(* A policy that expires at the horizon, and one with a lower daily limit   *)
(* and no approvals that expires before it.                                *)
TwoDrafts ==
    { [max |-> 2, daily |-> 3, threshold |-> 1, expiry |-> 3],
      [max |-> 2, daily |-> 2, threshold |-> 2, expiry |-> 2] }

OneDraft == { [max |-> 2, daily |-> 3, threshold |-> 1, expiry |-> 3] }

NoAsks == {}

TwoAsks ==
    { [budget |-> 3, cap |-> 2, skus |-> {tea}, expires |-> 3],
      [budget |-> 2, cap |-> 1, skus |-> {tea}, expires |-> 2] }

RefSymmetry == Permutations(Refs)
HopAndRefSymmetry == Permutations(Refs) \cup Permutations(Hops)
=============================================================================
