------------------------------- MODULE Rails --------------------------------
(***************************************************************************)
(* What the payment rails have in common: the purchases as they are before *)
(* a provider is involved, and where a purchase is on its way to money.    *)
(***************************************************************************)
EXTENDS Purchase

(* Everything before the provider, as Purchase has it.                      *)
Prepare ==
    \/ Govern /\ UNCHANGED purchaseVars
    \/ \E r \in Refs :
         \/ \E a \in Actors, n \in Amounts, s \in Skus \cup {None}, b \in BOOLEAN :
              Decide(r, a, n, s, b)
         \/ Abort(r)
         \/ Accept(r)
         \/ Refuse(r)
         \/ GrantApproval(r)
         \/ CancelDeadChain(r)
         \/ IssueAuthority(r)

Consumed == { r \in Refs : authority[r] # None /\ authority[r].used }

(* A payment's state in the terms of Checkout.                              *)
StageOf(p) ==
    IF p = None THEN "unasked"
    ELSE CASE p.state = "APPROVAL_REQUIRED" -> "waiting"
           [] p.state = "AUTHORIZED"        -> "cleared"
           [] p.state = "PROVIDER_PENDING"  -> "underway"
           [] p.state = "CAPTURED"          -> "settled"
           [] p.state \in {"REFUNDED", "PARTIALLY_REFUNDED"} -> "refunded"
           [] OTHER                         -> "dead"
=============================================================================
