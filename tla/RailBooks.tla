------------------------------ MODULE RailBooks -----------------------------
(***************************************************************************)
(* What the adapters owe a purchase: one rail and one order whatever fails *)
(* on the way, rows that find every order a shopper can pay and tell one   *)
(* story with the payment, money that counts only when the provider says   *)
(* so, and payments that are heard of and settled.                         *)
(***************************************************************************)
EXTENDS BothRails, PurchaseBooks

PaidAtRazorpay(r) == \E o \in OrderIds : paidAt[r][o] # None

Stands(r, states) == payment[r] # None /\ payment[r].state \in states

(* The rows, stages and books of both adapters are of their types.          *)
BothTypeOK == TypeOK /\ RailTypeOK /\ PaytmTypeOK

(* A purchase goes through one rail: whichever consumed the authority is    *)
(* the only one with a row, with an order a shopper can pay, and with      *)
(* money; a consumed authority always left a row; and money that counts    *)
(* has that rail's explanation and no other, the provider's accepted       *)
(* events or the gateway's confirmed order.                                *)
OneExplanation(r) ==
    Stands(r, {"CAPTURED"}) =>
        IF paytm[r] # None
        THEN events[r] = {} /\ r \in charged
        ELSE events[r] = News /\ PaidAtRazorpay(r)

OneRail ==
    \A r \in Refs :
        /\ ~(intent[r] # None /\ paytm[r] # None)
        /\ ~(given[r] # {} /\ paytm[r] # None)
        /\ ~(PaidAtRazorpay(r) /\ r \in charged)
        /\ intent[r] # None \/ paytm[r] # None <=> r \in Consumed
        /\ OneExplanation(r)

-----------------------------------------------------------------------------
(* Razorpay.  However often create_order fails, dies, loses its answer and  *)
(* is asked again, the provider has one order for the purchase.            *)
OneOrderPerPurchase == \A r \in Refs : orders[r] <= 1

(* Every order a shopper was given is the one on the row, so a webhook for  *)
(* money they pay finds the purchase and is not answered NOT_FOUND.        *)
EveryGivenOrderIsKnown == \A r \in Refs : \A o \in given[r] : Known(r, o)

(* Nothing is asked of the provider without a committed intent to recover   *)
(* from, made by a consumed authority: an order the provider has, may yet   *)
(* make or is being asked for is never one the books know nothing of.       *)
ConsumedLeavesIntent ==
    \A r \in Refs :
        /\ intent[r] # None => r \in Consumed
        /\ intent[r] = None => orders[r] = 0 /\ late[r] = 0 /\ InFlight(r) = {}

(* The committed audit rows account for the adapter's state: the intent,    *)
(* the order it got, and every step of the payment itself.                 *)
TrailAccounts ==
    \A r \in Refs :
        /\ "intent_recorded" \in trail[r] <=> intent[r] # None
        /\ trail[r] \cap {"created", "reconciled"} # {} <=>
              intent[r] # None /\ intent[r].state = "CONFIRMED"
        /\ events[r] # {} =>
              "webhook_verified" \in trail[r] /\ \E o \in given[r] : paidAt[r][o] # None

(* A payment the shopper made is one that still takes the capture: a failed *)
(* attempt, a callback, a repeated or premature webhook never leave it      *)
(* where the capture is refused for good.  A dead chain does: it cancels a  *)
(* payment whose order is already out.                                      *)
PaidOrdersAreExpected ==
    \A r \in Refs :
        PaidAtRazorpay(r) =>
            Stands(r, {"AUTHORIZED", "PROVIDER_PENDING", "CANCELLED"} \cup Captures)

-----------------------------------------------------------------------------
(* Paytm.  A captured payment is one the gateway has reported successful    *)
(* for the amount the server derived: no callback, stale answer, changed    *)
(* outcome or restart of the gateway pays for anything.                     *)
CapturedIsConfirmed ==
    \A r \in Refs :
        paytm[r] # None /\ Stands(r, {"CAPTURED"}) =>
            r \in charged /\ agrees[r] /\ paytm[r].status = "SUCCESS"

(* The row is a record of the payment: a payment the gateway has is one the *)
(* row still expects an answer about, a failed row never leaves budgets     *)
(* held, and a successful row is of a payment that is paid, or that failed  *)
(* before the gateway changed its mind.                                     *)
RowAgrees(r) ==
    paytm[r] # None =>
        CASE paytm[r].status = "CREATED" -> payment[r].state = "PROVIDER_PENDING"
          [] paytm[r].status = "FAILED"  -> payment[r].state = "FAILED" /\ ~Outstanding(r)
          [] paytm[r].status = "SUCCESS" -> payment[r].state \in {"CAPTURED", "FAILED"}
          [] OTHER                       -> payment[r].state \in {"PROVIDER_PENDING", "FAILED"}

RowsAgree == \A r \in Refs : RowAgrees(r)

(* No order is committed for a purchase that has not passed every gate at   *)
(* that moment: it is cleared under the newest policy, approved where one  *)
(* was required, and nobody above it is revoked.                           *)
Ordered(r) ==
    \/ paytm[r] = None /\ paytm'[r] # None
    \/ intent[r] = None /\ intent'[r] # None

MayOrder(r) ==
    /\ payment[r].state = "AUTHORIZED"
    /\ request[r].version = Newest
    /\ request[r].verdict = "REQUIRE_APPROVAL" => approval[r] # None
    /\ request[r].delegation # None =>
          \A a \in Chain(request[r].delegation) : ~hop[a].revoked

OrdersGated == [][\A r \in Refs : Ordered(r) => MayOrder(r)]_bothVars

-----------------------------------------------------------------------------
(* The promise of a rail: each adapter implements it, and so do the two     *)
(* together.  An order is known by its rail and its number there.           *)
AtPaytm(r) == IF paytm[r] = None THEN {} ELSE {<<"paytm", paytm[r].order>>}

AtRazorpay(os) == {"razorpay"} \X os

ProviderOrders == AtRazorpay(OrderIds) \cup {"paytm"} \X GatewayOrders

StageMap == [r \in Refs |-> StageOf(payment[r])]

OfferMap == [r \in Refs |-> AtRazorpay(given[r]) \cup AtPaytm(r)]

PaidMap ==
    [r \in Refs |->
        AtRazorpay({ o \in OrderIds : paidAt[r][o] # None })
            \cup IF r \in charged THEN AtPaytm(r) ELSE {}]

Promise == INSTANCE Checkout WITH
    Purchases <- Refs, Orders <- ProviderOrders,
    stage <- StageMap, claimed <- Consumed, offered <- OfferMap, paid <- PaidMap

PromiseKept == Promise!Spec

-----------------------------------------------------------------------------
(* Fairness.  The adapters' own steps happen once nothing outside is needed *)
(* for them.  A client that got no order asks again, the owner who sees a   *)
(* payment confirming asks about it again, and the provider's answers and   *)
(* webhooks, each of which may be lost any number of times, get through     *)
(* when they are tried for ever: strong fairness.                           *)
Answered(w) == Record(w) \/ FoundOne(w) \/ FoundNone(w)

Razorpay(A) == A /\ UNCHANGED paytmVars
Paytm(A) == A /\ UNCHANGED railVars

Fairness ==
    /\ SF_bothVars(Razorpay(\E w \in Workers : Answered(w)))
    /\ SF_bothVars(Razorpay(\E w \in Workers : Place(w)))
    /\ \A r \in Refs :
         /\ SF_bothVars(Razorpay(\E w \in Workers : Recover(w, r)))
         /\ \A o \in OrderIds, k \in News : SF_bothVars(Razorpay(Webhook(r, o, k)))
         /\ WF_bothVars(Paytm(AskGateway(r)))
         /\ SF_bothVars(Paytm(Confirm(r)))

FairSpec == BothSpec /\ Fairness

(* An intent whose first attempt failed, died or lost its answer does not   *)
(* stay pending: some retry confirms it.                                   *)
IntentsAreResolved ==
    \A r \in Refs :
        intent[r] # None /\ intent[r].state = "PENDING"
            ~> intent[r] # None /\ intent[r].state = "CONFIRMED"

(* A payment made at the provider is captured here, unless a dead chain     *)
(* cancelled it or the webhook window closed on it first.                   *)
PaymentsAreHeardOf ==
    \A r \in Refs, o \in OrderIds :
        paidAt[r][o] # None ~>
            \/ Stands(r, Captures \cup {"CANCELLED"})
            \/ paidAt[r][o] # None /\ ~InWindow(paidAt[r][o])

(* Once the shopper has made a choice at the gateway, whatever the choice   *)
(* and however often the answer is lost, the payment stops confirming.      *)
ConfirmingEnds ==
    \A r \in Refs :
        paytm[r] # None /\ Stands(r, {"PROVIDER_PENDING"}) /\ gateway[r] # "CREATED"
            ~> ~Stands(r, {"PROVIDER_PENDING"})
=============================================================================
