---------------------------- MODULE RazorpayRail ----------------------------
(***************************************************************************)
(* The Razorpay adapter on top of the purchases: it consumes an authority  *)
(* and records an order intent in one transaction, asks the provider for   *)
(* an order outside of it, and recovers an intent that never got its       *)
(* answer by listing the provider's orders under the intent's receipt.     *)
(*                                                                         *)
(* The provider does not deduplicate: every request that reaches it makes  *)
(* an order.  A request may be refused, may take effect without its answer *)
(* arriving, and may take effect after the adapter stopped waiting.  The   *)
(* adapter may die between any two of its steps.  Shoppers pay orders they *)
(* were given, and the provider tells of it in webhooks that are lost,     *)
(* repeated and reordered.                                                 *)
(***************************************************************************)
EXTENDS Rails, FiniteSets

CONSTANTS
    Workers,        \* bound: create_order calls under way at once
    MaxOrders,      \* bound: requests for an order that may take effect, per receipt
    MaxLate,        \* bound: requests that may take effect after they were given up
    Patient,        \* clients repeat a create_order only once it has ended
    WebhookMaxAge   \* RAZORPAY_WEBHOOK_MAX_AGE_SECONDS, in instants

OrderIds == 1 .. MaxOrders

(* razorpay_order, with ck_razorpay_order_state_matches_identifier.         *)
Intent ==
    { i \in [state : {"PENDING", "CONFIRMED", "NEEDS_REVIEW"}, order : OrderIds \cup {None}] :
        i.state = "NEEDS_REVIEW" \/ (i.state = "PENDING" <=> i.order = None) }

(* A create_order call that is waiting for the provider: a first attempt    *)
(* ("asked", then "placed" once the order exists) holds no lock; a recovery *)
(* ("searching", then "asking" and "replaced") holds the intent's row.     *)
Attempt == [ref : Refs, stage : {"asked", "placed", "searching", "asking", "replaced"},
            order : OrderIds \cup {None}]

(* The kinds of audit rows this adapter writes about a purchase.            *)
Trail == {"intent_recorded", "creation_failed", "created", "reconciled", "needs_review",
          "callback_verified", "attempt_failed", "webhook_verified", "webhook_rejected"}

ASSUME RailAssumption ==
    /\ IsFiniteSet(Workers)
    /\ MaxOrders \in Nat /\ MaxLate \in Nat /\ WebhookMaxAge \in Nat
    /\ Patient \in BOOLEAN
    /\ None \notin Intent \cup Attempt

VARIABLES
    intent,   \* razorpay_order, by purchase
    attempt,  \* what each worker is doing
    orders,   \* the provider's orders under the purchase's receipt are 1 .. orders[r]
    late,     \* requests given up by the adapter that may still take effect
    given,    \* the orders create_order has answered with
    paidAt,   \* when each order was paid at the provider
    trail     \* the kinds of audit rows committed for the purchase

railVars == <<intent, attempt, orders, late, given, paidAt, trail>>
providerVars == <<orders, late, paidAt>>

-----------------------------------------------------------------------------
Stage(w) == IF attempt[w] = None THEN "idle" ELSE attempt[w].stage

(* The first SELECT locks the row if there is one, and the recovery keeps   *)
(* the lock until it answers.                                              *)
Holds(w, r) ==
    /\ Stage(w) \in {"searching", "asking", "replaced"}
    /\ attempt[w].ref = r

Locked(r) == \E w \in Workers : Holds(w, r)

FirstAttempt(w, r) == Stage(w) \in {"asked", "placed"} /\ attempt[w].ref = r

(* Requests for an order under r's receipt that may yet take effect.        *)
InFlight(r) == { w \in Workers : Stage(w) \in {"asked", "asking"} /\ attempt[w].ref = r }

MayAsk(r) == orders[r] + late[r] + Cardinality(InFlight(r)) < MaxOrders

Note(r, k) == trail' = [trail EXCEPT ![r] = @ \cup {k}]

Ends(w) == attempt' = [attempt EXCEPT ![w] = None]

Enters(w, r, s, o) == attempt' = [attempt EXCEPT ![w] = [ref |-> r, stage |-> s, order |-> o]]

Confirmed(r, o) ==
    /\ intent' = [intent EXCEPT ![r] = [state |-> "CONFIRMED", order |-> o]]
    /\ given' = [given EXCEPT ![r] = @ \cup {o}]

(* Mutant: the intent is not there when the provider is asked; it is        *)
(* written with the answer.                                                *)
CreateOrderUnrecorded(w, r) ==
    /\ attempt[w] = None
    /\ intent[r] = None
    /\ MayAsk(r)
    /\ request[r] # None /\ payment[r].state = "AUTHORIZED" /\ authority[r] # None
    /\ Enters(w, r, "asked", None)
    /\ UNCHANGED <<vars, intent, providerVars, given, trail>>

(* create_order with no row: the authority is consumed and the intent       *)
(* committed before the provider is asked.                                 *)
CreateOrder(w, r) ==
    /\ attempt[w] = None
    /\ intent[r] = None
    /\ MayAsk(r)
    /\ ConsumeAuthority(r)
    /\ intent' = [intent EXCEPT ![r] = [state |-> "PENDING", order |-> None]]
    /\ Enters(w, r, "asked", None)
    /\ Note(r, "intent_recorded")
    /\ UNCHANGED <<providerVars, given>>

(* create_order with a row: a confirmed one is answered from the row, a     *)
(* pending one is looked for at the provider.                              *)
AnswerFromRow(r) ==
    /\ intent[r] # None /\ ~Locked(r)
    /\ intent[r].state = "CONFIRMED"
    /\ given' = [given EXCEPT ![r] = @ \cup {intent[r].order}]
    /\ UNCHANGED <<vars, intent, attempt, providerVars, trail>>

(* Mutant: the row is read without locking it. *)
RecoverUnlocked(w, r) ==
    /\ attempt[w] = None
    /\ intent[r] # None
    /\ intent[r].state = "PENDING"
    /\ Patient => \A v \in Workers : ~FirstAttempt(v, r)
    /\ Enters(w, r, "searching", None)
    /\ UNCHANGED <<vars, intent, providerVars, given, trail>>

Recover(w, r) ==
    /\ attempt[w] = None
    /\ intent[r] # None /\ ~Locked(r)
    /\ intent[r].state = "PENDING"
    /\ Patient => \A v \in Workers : ~FirstAttempt(v, r)
    /\ Enters(w, r, "searching", None)
    /\ UNCHANGED <<vars, intent, providerVars, given, trail>>

-----------------------------------------------------------------------------
(* _reconcile_intent: what the listing found.  Several matches are written  *)
(* down as NEEDS_REVIEW and audited, and the exception that refuses the     *)
(* call rolls both back.                                                   *)
(* Mutants: the row gets the order and stays PENDING; it is not written.    *)
FoundOneHalf(w) ==
    /\ Stage(w) = "searching"
    /\ LET r == attempt[w].ref IN
       /\ orders[r] = 1
       /\ intent' = [intent EXCEPT ![r].order = 1]
       /\ Note(r, "reconciled")
    /\ Ends(w)
    /\ UNCHANGED <<vars, providerVars, given>>

FoundOneForgotten(w) ==
    /\ Stage(w) = "searching"
    /\ orders[attempt[w].ref] = 1
    /\ Ends(w)
    /\ UNCHANGED <<vars, intent, providerVars, given, trail>>

FoundOne(w) ==
    /\ Stage(w) = "searching"
    /\ LET r == attempt[w].ref IN
       /\ orders[r] = 1
       /\ Confirmed(r, 1)
       /\ Note(r, "reconciled")
    /\ Ends(w)
    /\ UNCHANGED <<vars, providerVars>>

FoundSeveral(w) ==
    /\ Stage(w) = "searching"
    /\ orders[attempt[w].ref] > 1
    /\ Ends(w)
    /\ UNCHANGED <<vars, intent, providerVars, given, trail>>

FoundNone(w) ==
    /\ Stage(w) = "searching"
    /\ LET r == attempt[w].ref IN
       /\ orders[r] = 0
       /\ MayAsk(r)
       /\ Enters(w, r, "asking", None)
    /\ UNCHANGED <<vars, intent, providerVars, given, trail>>

(* _create_razorpay_order, as the provider sees it: one more order.         *)
Place(w) ==
    /\ Stage(w) \in {"asked", "asking"}
    /\ LET r == attempt[w].ref IN
       /\ orders' = [orders EXCEPT ![r] = @ + 1]
       /\ Enters(w, r, IF Stage(w) = "asked" THEN "placed" ELSE "replaced", orders[r] + 1)
    /\ UNCHANGED <<vars, intent, late, given, paidAt, trail>>

(* Mutants: the order is answered and not written; it is not audited.       *)
RecordUncommitted(w) ==
    /\ Stage(w) \in {"placed", "replaced"}
    /\ given' = [given EXCEPT ![attempt[w].ref] = @ \cup {attempt[w].order}]
    /\ Ends(w)
    /\ UNCHANGED <<vars, intent, providerVars, trail>>

RecordUnaudited(w) ==
    /\ Stage(w) \in {"placed", "replaced"}
    /\ LET r == attempt[w].ref IN
       /\ \A v \in Workers \ {w} : ~Holds(v, r)
       /\ Confirmed(r, attempt[w].order)
    /\ Ends(w)
    /\ UNCHANGED <<vars, providerVars, trail>>

(* The answer arrives and the row is written: a first attempt waits for a   *)
(* recovery that holds the row and then writes over whatever it wrote.     *)
Record(w) ==
    /\ Stage(w) \in {"placed", "replaced"}
    /\ LET r == attempt[w].ref IN
       /\ \A v \in Workers \ {w} : ~Holds(v, r)
       /\ Confirmed(r, attempt[w].order)
       /\ Note(r, "created")
    /\ Ends(w)
    /\ UNCHANGED <<vars, providerVars>>

(* The call fails: the provider refuses or errs, the answer or the request  *)
(* is lost, or the listing is refused, broken or too long.  A first attempt *)
(* leaves an audit row, a recovery is rolled back.                         *)
Fail(w) ==
    /\ attempt[w] # None
    /\ IF Stage(w) \in {"asked", "placed"}
       THEN Note(attempt[w].ref, "creation_failed")
       ELSE UNCHANGED trail
    /\ Ends(w)
    /\ UNCHANGED <<vars, intent, providerVars, given>>

Crash(w) ==
    /\ attempt[w] # None
    /\ Ends(w)
    /\ UNCHANGED <<vars, intent, providerVars, given, trail>>

(* The adapter stops waiting for a request that is still on its way.        *)
GiveUp(w) ==
    /\ Stage(w) \in {"asked", "asking"}
    /\ LET r == attempt[w].ref IN
       /\ late[r] < MaxLate
       /\ late' = [late EXCEPT ![r] = @ + 1]
       /\ IF Stage(w) = "asked" THEN Note(r, "creation_failed") ELSE UNCHANGED trail
    /\ Ends(w)
    /\ UNCHANGED <<vars, intent, orders, given, paidAt>>

PlaceLate(r) ==
    /\ late[r] > 0
    /\ orders' = [orders EXCEPT ![r] = @ + 1]
    /\ late' = [late EXCEPT ![r] = @ - 1]
    /\ UNCHANGED <<vars, intent, attempt, given, paidAt, trail>>

-----------------------------------------------------------------------------
(* A shopper pays an order they were given.                                 *)
Pay(r, o) ==
    /\ o \in given[r]
    /\ paidAt[r][o] = None
    /\ paidAt' = [paidAt EXCEPT ![r][o] = now]
    /\ UNCHANGED <<vars, intent, attempt, orders, late, given, trail>>

(* A webhook or a callback finds its purchase by the row's order id.        *)
Known(r, o) == intent[r] # None /\ intent[r].order = o

InWindow(stamp) == now <= stamp + WebhookMaxAge

News == {"authorized", "captured"}

(* Mutant: events are deduplicated by the payment they are about. *)
WebhookOncePerPayment(r, o, k) ==
    /\ paidAt[r][o] # None
    /\ InWindow(paidAt[r][o])
    /\ Known(r, o)
    /\ events[r] = {}
    /\ ProviderEvent(r, k)
    /\ Note(r, "webhook_verified")
    /\ UNCHANGED <<intent, attempt, providerVars, given>>

(* receive_razorpay_webhook: the provider's news of a paid order.           *)
Webhook(r, o, k) ==
    /\ paidAt[r][o] # None
    /\ InWindow(paidAt[r][o])
    /\ Known(r, o)
    /\ ProviderEvent(r, k)
    /\ Note(r, "webhook_verified")
    /\ UNCHANGED <<intent, attempt, providerVars, given>>

(* Out of order, or of a payment that is no longer expecting it.            *)
WebhookRefused(r, o, k) ==
    /\ paidAt[r][o] # None
    /\ InWindow(paidAt[r][o])
    /\ Known(r, o)
    /\ k \notin events[r]
    /\ ~MayMove(WithAmounts(payment[r], k), Target(k))
    /\ Note(r, "webhook_rejected")
    /\ UNCHANGED <<vars, intent, attempt, providerVars, given>>

(* Mutant: one failed attempt ends the payment. *)
AttemptFailedFinally(r, o) ==
    /\ o \in given[r]
    /\ Known(r, o)
    /\ ProviderEvent(r, "failed")
    /\ trail' = [trail EXCEPT ![r] = @ \cup {"attempt_failed", "webhook_verified"}]
    /\ UNCHANGED <<intent, attempt, providerVars, given>>

(* payment.failed: an attempt at an order failed, before or after another   *)
(* succeeded.  It is recorded and moves nothing.                           *)
AttemptFailed(r, o) ==
    /\ o \in given[r]
    /\ Known(r, o)
    /\ trail' = [trail EXCEPT ![r] = @ \cup {"attempt_failed", "webhook_verified"}]
    /\ UNCHANGED <<vars, intent, attempt, providerVars, given>>

(* Mutant: the shopper's return is taken for the provider's word. *)
CallbackBelieved(r, o) ==
    /\ o \in given[r]
    /\ Known(r, o)
    /\ ProviderEvent(r, "authorized")
    /\ Note(r, "callback_verified")
    /\ UNCHANGED <<intent, attempt, providerVars, given>>

(* verify_callback: the shopper's browser comes back signed.                *)
Callback(r, o) ==
    /\ paidAt[r][o] # None
    /\ Known(r, o)
    /\ Note(r, "callback_verified")
    /\ UNCHANGED <<vars, intent, attempt, providerVars, given>>

-----------------------------------------------------------------------------
RailTypeOK ==
    /\ intent \in [Refs -> Intent \cup {None}]
    /\ attempt \in [Workers -> Attempt \cup {None}]
    /\ orders \in [Refs -> 0 .. MaxOrders]
    /\ late \in [Refs -> 0 .. MaxLate]
    /\ given \in [Refs -> SUBSET OrderIds]
    /\ paidAt \in [Refs -> [OrderIds -> Times \cup {None}]]
    /\ trail \in [Refs -> SUBSET Trail]

RailStart ==
    /\ intent = [r \in Refs |-> None]
    /\ attempt = [w \in Workers |-> None]
    /\ orders = [r \in Refs |-> 0]
    /\ late = [r \in Refs |-> 0]
    /\ given = [r \in Refs |-> {}]
    /\ paidAt = [r \in Refs |-> [o \in OrderIds |-> None]]
    /\ trail = [r \in Refs |-> {}]

RailStep ==
    \/ \E w \in Workers :
         \/ \E r \in Refs : CreateOrder(w, r) \/ Recover(w, r)
         \/ FoundOne(w) \/ FoundSeveral(w) \/ FoundNone(w)
         \/ Place(w) \/ Record(w) \/ Fail(w) \/ Crash(w) \/ GiveUp(w)
    \/ \E r \in Refs :
         \/ AnswerFromRow(r)
         \/ PlaceLate(r)
         \/ \E o \in OrderIds :
              \/ Pay(r, o) \/ AttemptFailed(r, o) \/ Callback(r, o)
              \/ \E k \in News : Webhook(r, o, k) \/ WebhookRefused(r, o, k)
=============================================================================
