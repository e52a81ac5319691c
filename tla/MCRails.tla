------------------------------ MODULE MCRails -------------------------------
(* Small instances of BothRails for TLC; the .cfg files pick among them. *)
EXTENDS RailBooks, TLC

CONSTANTS h1, alice, human, tea, r1, w1, w2

MCDayOf == [t \in 0 .. MaxTime |-> 0]

(* Policies that outlive the clock: one allows the unit that is bought, one *)
(* asks a human.                                                           *)
OnePolicy == { [max |-> 1, daily |-> 1, threshold |-> 1, expiry |-> MaxTime + 1] }
TwoPolicies == OnePolicy \cup { [max |-> 1, daily |-> 1, threshold |-> 0, expiry |-> MaxTime + 1] }

NoAsks == {}
OneAsk == { [budget |-> 1, cap |-> 1, skus |-> {tea}, expires |-> MaxTime + 1] }

WorkerSymmetry == Permutations(Workers)
=============================================================================
