---------------------------- MODULE MCDelegation ----------------------------
(* A small instance of DelegationChain for TLC. *)
EXTENDS DelegationBooks, TLC

CONSTANTS h1, h2, h3, alice, bob, carol, tea

MCDrafts == { [max |-> 3, daily |-> 3, threshold |-> 3, expiry |-> 2] }

MCAsks ==
    { [budget |-> 3, cap |-> 2, skus |-> {tea}, expires |-> 2],
      [budget |-> 2, cap |-> 2, skus |-> {tea}, expires |-> 1],
      [budget |-> 1, cap |-> 1, skus |-> {tea}, expires |-> 2] }

MCDayOf == [t \in 0 .. MaxTime |-> t \div 2]

HopSymmetry == Permutations(Hops) \cup Permutations(Actors)
=============================================================================
