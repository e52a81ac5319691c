------------------------------ MODULE Checkout ------------------------------
(***************************************************************************)
(* What a payment rail promises, whichever provider is behind it: a        *)
(* purchase is claimed once, while it is cleared; shoppers are offered at  *)
(* most one order for it; and it is settled only if that order was paid.   *)
(***************************************************************************)
CONSTANTS Purchases, Orders

VARIABLES
    stage,    \* where the purchase's payment is
    claimed,  \* the purchases whose authority an adapter has consumed
    offered,  \* the provider orders shoppers were given, by purchase
    paid      \* the ones that were paid at the provider

checkoutVars == <<stage, claimed, offered, paid>>

Stages == {"unasked", "waiting", "cleared", "underway", "settled", "refunded", "dead"}

Init ==
    /\ stage = [p \in Purchases |-> "unasked"]
    /\ claimed = {}
    /\ offered = [p \in Purchases |-> {}]
    /\ paid = [p \in Purchases |-> {}]

Moves(p, from, to) == stage[p] \in from /\ stage' = [stage EXCEPT ![p] = to]

(* The decision, the approval, and every way to end without money.          *)
Decided(p) ==
    /\ \/ \E to \in {"waiting", "cleared", "dead"} : Moves(p, {"unasked"}, to)
       \/ Moves(p, {"waiting"}, "cleared")
       \/ Moves(p, {"cleared", "underway"}, "dead")
    /\ UNCHANGED <<claimed, offered, paid>>

(* The claim: of a cleared purchase, once.  An adapter may offer the order  *)
(* and start the payment in the same step.                                 *)
Claimed(p) ==
    /\ p \notin claimed
    /\ stage[p] = "cleared"
    /\ claimed' = claimed \cup {p}
    /\ \/ UNCHANGED <<stage, offered>>
       \/ /\ Moves(p, {"cleared"}, "underway")
          /\ \E o \in Orders : offered' = [offered EXCEPT ![p] = {o}]
    /\ UNCHANGED paid

Offered(p) ==
    /\ p \in claimed
    /\ offered[p] = {}
    /\ \E o \in Orders : offered' = [offered EXCEPT ![p] = {o}]
    /\ UNCHANGED <<stage, claimed, paid>>

PaidFor(p) ==
    /\ \E o \in offered[p] : paid' = [paid EXCEPT ![p] = @ \cup {o}]
    /\ UNCHANGED <<stage, claimed, offered>>

(* The provider's news reaches the payment.                                 *)
Heard(p) ==
    /\ paid[p] # {}
    /\ \/ Moves(p, {"cleared"}, "underway")
       \/ Moves(p, {"underway"}, "settled")
    /\ UNCHANGED <<claimed, offered, paid>>

Refunded(p) ==
    /\ Moves(p, {"settled"}, "refunded")
    /\ UNCHANGED <<claimed, offered, paid>>

Next ==
    \E p \in Purchases :
        Decided(p) \/ Claimed(p) \/ Offered(p) \/ PaidFor(p) \/ Heard(p) \/ Refunded(p)

Spec == Init /\ [][Next]_checkoutVars
=============================================================================
