----------------------------- MODULE MCEvidence -----------------------------
(* A small instance of Evidence for TLC. *)
EXTENDS Evidence

CONSTANTS h1, h2, alice, bob, human, tea, r1

(* Two instants a day. *)
MCDayOf == [t \in 0 .. MaxTime |-> t \div 2]

OneDraft == { [max |-> 2, daily |-> 3, threshold |-> 1, expiry |-> 3] }

OneAsk == { [budget |-> 2, cap |-> 2, skus |-> {tea}, expires |-> 2] }
=============================================================================
