--------------------------- MODULE PromiseProofs ----------------------------
(***************************************************************************)
(* What the adapters promise when clients are patient: a create_order is   *)
(* repeated only once the one before it has ended, and no request takes    *)
(* effect after the adapter gave it up.  Then the provider has one order   *)
(* for a purchase, and the two adapters together implement Checkout.       *)
(***************************************************************************)
EXTENDS RailProofs

Patience == Patient /\ MaxLate = 0

(* A purchase has at most one attempt, an attempt that asks is the first to *)
(* get an order, and the order it gets is order 1.                         *)
AloneWith(v, w) ==
    attempt[v] # None /\ attempt[w] # None /\ attempt[v].ref = attempt[w].ref => v = w

FirstToAsk(w) ==
    attempt[w] # None =>
        /\ attempt[w].stage \in {"asked", "asking"} => orders[attempt[w].ref] = 0
        /\ attempt[w].stage \in {"placed", "replaced"} => attempt[w].order = 1

IntentConfirmed(r) == intent[r] # None /\ intent[r].state = "CONFIRMED"

(* What the row says is what shoppers were given.                           *)
OneOrder(r) ==
    /\ orders[r] \in {0, 1}
    /\ intent[r] # None => intent[r].state \in {"PENDING", "CONFIRMED"}
    /\ IntentConfirmed(r) => intent[r].order = 1
    /\ given[r] = IF IntentConfirmed(r) THEN {1} ELSE {}

PatientInv ==
    /\ \A v, w \in Workers : AloneWith(v, w)
    /\ \A w \in Workers : FirstToAsk(w)
    /\ \A r \in Refs : OneOrder(r)

-----------------------------------------------------------------------------
(* Attempts may end; nothing else is written.                               *)
LEMMA PatientFrame ==
    ASSUME PatientInv, UNCHANGED <<intent, orders, given>>,
           \A w \in Workers : attempt'[w] = attempt[w] \/ attempt'[w] = None
    PROVE  PatientInv'
<1>1. \A v, w \in Workers : AloneWith(v, w)'
    BY DEF PatientInv, AloneWith
<1>2. \A w \in Workers : FirstToAsk(w)'
    BY DEF PatientInv, FirstToAsk
<1>3. \A r \in Refs : OneOrder(r)'
    BY DEF PatientInv, OneOrder, IntentConfirmed
<1> QED  BY <1>1, <1>2, <1>3 DEF PatientInv

LEMMA EndsPatiently ==
    ASSUME RailInv, PatientInv, NEW w \in Workers, Ends(w), UNCHANGED <<intent, orders, given>>
    PROVE  PatientInv'
<1>1. \A v \in Workers : attempt'[v] = attempt[v] \/ attempt'[v] = None
    BY DEF Ends, RailInv, RazorpaySound, RailTypeOK
<1> QED  BY <1>1, PatientFrame

(* One worker starts, or goes on with, the only attempt at r.               *)
LEMMA AttemptPatiently ==
    ASSUME RailInv, PatientInv, NEW w \in Workers, NEW r \in Refs, NEW a \in Attempt, a.ref = r,
           attempt' = [attempt EXCEPT ![w] = a],
           \A v \in Workers : v # w /\ attempt[v] # None => attempt[v].ref # r,
           \A q \in Refs : q # r => orders'[q] = orders[q],
           a.stage \in {"asked", "asking"} => orders'[r] = 0,
           a.stage \in {"placed", "replaced"} => a.order = 1,
           \A q \in Refs : OneOrder(q)'
    PROVE  PatientInv'
<1>1. attempt'[w] = a /\ \A v \in Workers : v # w => attempt'[v] = attempt[v]
    BY DEF RailInv, RazorpaySound, RailTypeOK
<1>2. \A v \in Workers : attempt[v] # None => attempt[v].ref \in Refs
    BY UnderWay
<1>3. ASSUME NEW u \in Workers, NEW v \in Workers PROVE AloneWith(u, v)'
    BY <1>1 DEF PatientInv, AloneWith
<1>4. ASSUME NEW v \in Workers PROVE FirstToAsk(v)'
    <2>1. CASE v = w
        BY <1>1, <2>1 DEF FirstToAsk
    <2>2. CASE v # w
        <3>1. FirstToAsk(v) /\ attempt'[v] = attempt[v]
            BY <1>1, <2>2 DEF PatientInv
        <3>2. attempt[v] # None => orders'[attempt[v].ref] = orders[attempt[v].ref]
            BY <1>2, <2>2
        <3> QED  BY <3>1, <3>2 DEF FirstToAsk
    <2> QED  BY <2>1, <2>2
<1> QED  BY <1>3, <1>4 DEF PatientInv

LEMMA RowsStay ==
    ASSUME PatientInv, UNCHANGED <<intent, orders, given>>
    PROVE  \A r \in Refs : OneOrder(r)'
BY DEF PatientInv, OneOrder, IntentConfirmed

LEMMA CreateOrderPatiently ==
    ASSUME RailInv, PatientInv, NEW w \in Workers, NEW r \in Refs, CreateOrder(w, r)
    PROVE  PatientInv'
<1> DEFINE row == [state |-> "PENDING", order |-> None]
           a == [ref |-> r, stage |-> "asked", order |-> None]
<1>1. /\ intent[r] = None
      /\ intent' = [intent EXCEPT ![r] = row]
      /\ attempt' = [attempt EXCEPT ![w] = a]
      /\ UNCHANGED <<orders, given>>
    BY DEF CreateOrder, Enters, providerVars
<1>2. row \in Intent /\ row # None /\ row.state = "PENDING"
    <2>1. row \in Intent
        BY DEF Intent
    <2> QED  BY <2>1, RailAssumption
<1>3. a \in Attempt /\ a.ref = r /\ a.stage = "asked"
    BY DEF Attempt
<1> HIDE DEF row, a
<1>4. orders[r] = 0 /\ \A v \in Workers : attempt[v] # None => attempt[v].ref # r
    <2>1. IntentSound(r) /\ \A v \in Workers : AttemptSound(v)
        BY DEF RailInv, RazorpaySound
    <2> QED  BY <1>1, <2>1 DEF IntentSound, AttemptSound
<1>5. ASSUME NEW q \in Refs PROVE OneOrder(q)'
    <2>1. OneOrder(q) /\ intent'[q] = IF q = r THEN row ELSE intent[q]
        BY <1>1 DEF PatientInv, RailInv, RazorpaySound, RailTypeOK
    <2> QED  BY <1>1, <1>2, <2>1 DEF OneOrder, IntentConfirmed
<1>6. /\ \A v \in Workers : v # w /\ attempt[v] # None => attempt[v].ref # r
      /\ \A q \in Refs : q # r => orders'[q] = orders[q]
      /\ a.stage \in {"asked", "asking"} => orders'[r] = 0
      /\ a.stage \in {"placed", "replaced"} => a.order = 1
    BY <1>1, <1>3, <1>4
<1> QED  BY <1>1, <1>3, <1>5, <1>6, AttemptPatiently

LEMMA RecoverPatiently ==
    ASSUME RailInv, PatientInv, Patience, NEW w \in Workers, NEW r \in Refs, Recover(w, r)
    PROVE  PatientInv'
<1> DEFINE a == [ref |-> r, stage |-> "searching", order |-> None]
<1>1. /\ \A v \in Workers : ~FirstAttempt(v, r) /\ ~Holds(v, r)
      /\ attempt' = [attempt EXCEPT ![w] = a]
      /\ UNCHANGED <<intent, orders, given>>
    BY DEF Recover, Enters, Patience, Locked, providerVars
<1>2. a \in Attempt /\ a.ref = r /\ a.stage = "searching"
    BY DEF Attempt
<1> HIDE DEF a
<1>3. ASSUME NEW v \in Workers, attempt[v] # None PROVE attempt[v].ref # r
    <2>1. attempt[v] \in Attempt /\ Stage(v) = attempt[v].stage
        BY <1>3, UnderWay
    <2> QED  BY <1>1, <2>1 DEF FirstAttempt, Holds, Attempt
<1>4. /\ \A v \in Workers : v # w /\ attempt[v] # None => attempt[v].ref # r
      /\ \A q \in Refs : q # r => orders'[q] = orders[q]
      /\ a.stage \in {"asked", "asking"} => orders'[r] = 0
      /\ a.stage \in {"placed", "replaced"} => a.order = 1
    BY <1>1, <1>2, <1>3
<1>5. ASSUME NEW q \in Refs PROVE OneOrder(q)'
    BY <1>1, RowsStay
<1> QED  BY <1>1, <1>2, <1>4, <1>5, AttemptPatiently

(* A worker that goes on is still alone.                                    *)
LEMMA StillAlone ==
    ASSUME PatientInv, NEW w \in Workers, attempt[w] # None
    PROVE  \A v \in Workers : v # w /\ attempt[v] # None => attempt[v].ref # attempt[w].ref
BY DEF PatientInv, AloneWith

LEMMA FoundNonePatiently ==
    ASSUME RailInv, PatientInv, NEW w \in Workers, FoundNone(w)
    PROVE  PatientInv'
<1>1. attempt[w] # None /\ attempt[w].ref \in Refs
    BY StagesAreNotIdle, UnderWay DEF FoundNone
<1>2. PICK r \in Refs : r = attempt[w].ref
    BY <1>1
<1> DEFINE a == [ref |-> r, stage |-> "asking", order |-> None]
<1>3. /\ orders[r] = 0
      /\ attempt' = [attempt EXCEPT ![w] = a]
      /\ UNCHANGED <<intent, orders, given>>
    BY <1>2 DEF FoundNone, Enters, providerVars
<1>4. a \in Attempt /\ a.ref = r /\ a.stage = "asking"
    BY DEF Attempt
<1> HIDE DEF a
<1>5. /\ \A v \in Workers : v # w /\ attempt[v] # None => attempt[v].ref # r
      /\ \A q \in Refs : q # r => orders'[q] = orders[q]
      /\ a.stage \in {"asked", "asking"} => orders'[r] = 0
      /\ a.stage \in {"placed", "replaced"} => a.order = 1
    BY <1>1, <1>2, <1>3, <1>4, StillAlone
<1>6. \A q \in Refs : OneOrder(q)'
    BY <1>3, RowsStay
<1> QED  BY <1>3, <1>4, <1>5, <1>6, AttemptPatiently

LEMMA PlacePatiently ==
    ASSUME RailInv, PatientInv, NEW w \in Workers, Place(w)
    PROVE  PatientInv'
<1>1. Stage(w) \in {"asked", "asking"} /\ attempt[w] # None /\ attempt[w].ref \in Refs
      /\ Stage(w) = attempt[w].stage
    BY StagesAreNotIdle, UnderWay DEF Place
<1>2. PICK r \in Refs : r = attempt[w].ref
    BY <1>1
<1>3. orders[r] = 0 /\ OneOrder(r)
    BY <1>1, <1>2 DEF PatientInv, FirstToAsk
<1> DEFINE s == IF Stage(w) = "asked" THEN "placed" ELSE "replaced"
           a == [ref |-> r, stage |-> s, order |-> 1]
<1>4. /\ orders' = [orders EXCEPT ![r] = 1]
      /\ attempt' = [attempt EXCEPT ![w] = a]
      /\ UNCHANGED <<intent, given>>
    BY <1>2, <1>3 DEF Place, Enters
<1>5. RailTypeOK
    BY DEF RailInv, RazorpaySound
<1>6. 1 \in OrderIds
    <2>1. MaxOrders >= 1
        <3>1. w \in InFlight(r)
            BY <1>1, <1>2 DEF InFlight
        <3>2. Cardinality(InFlight(r)) # 0
            BY <3>1, InFlightFinite, FS_EmptySet
        <3> QED  BY <1>3, <3>2, CountsAreNumbers DEF Counted
    <2> QED  BY <2>1, RailAssumption DEF OrderIds
<1>7. a \in Attempt /\ a.ref = r /\ a.stage \in {"placed", "replaced"} /\ a.order = 1
    BY <1>6 DEF Attempt
<1> HIDE DEF a
<1>8. \A q \in Refs : orders'[q] = IF q = r THEN 1 ELSE orders[q]
    BY <1>4, <1>5 DEF RailTypeOK
<1>9. \A q \in Refs : OneOrder(q)'
    BY <1>4, <1>8 DEF PatientInv, OneOrder, IntentConfirmed
<1>10. /\ \A v \in Workers : v # w /\ attempt[v] # None => attempt[v].ref # r
       /\ \A q \in Refs : q # r => orders'[q] = orders[q]
       /\ a.stage \in {"asked", "asking"} => orders'[r] = 0
       /\ a.stage \in {"placed", "replaced"} => a.order = 1
    BY <1>1, <1>2, <1>7, <1>8, StillAlone
<1> QED  BY <1>4, <1>7, <1>9, <1>10, AttemptPatiently

(* The row is written and answered with order 1.                            *)
LEMMA ConfirmedPatiently ==
    ASSUME RailInv, PatientInv, NEW w \in Workers, NEW r \in Refs, 1 \in OrderIds,
           Confirmed(r, 1), Ends(w), UNCHANGED orders
    PROVE  PatientInv'
<1> DEFINE row == [state |-> "CONFIRMED", order |-> 1]
<1>1. intent' = [intent EXCEPT ![r] = row] /\ given' = [given EXCEPT ![r] = given[r] \cup {1}]
    BY DEF Confirmed
<1>2. row # None /\ row.state = "CONFIRMED" /\ row.order = 1
    <2>1. 1 # None
        BY PurchaseAssumption
    <2>2. row \in Intent
        BY <2>1 DEF Intent
    <2> QED  BY <2>2, RailAssumption
<1> HIDE DEF row
<1>3. RailTypeOK
    BY DEF RailInv, RazorpaySound
<1>4. ASSUME NEW q \in Refs PROVE OneOrder(q)'
    <2>1. OneOrder(q)
        BY DEF PatientInv
    <2>2. CASE q = r
        <3>1. intent'[q] = row /\ given'[q] = given[q] \cup {1}
            BY <1>1, <1>3, <2>2 DEF RailTypeOK
        <3>2. given'[q] = {1}
            BY <2>1, <3>1 DEF OneOrder
        <3> QED  BY <1>2, <2>1, <3>1, <3>2 DEF OneOrder, IntentConfirmed
    <2>3. CASE q # r
        <3>1. intent'[q] = intent[q] /\ given'[q] = given[q]
            BY <1>1, <1>3, <2>3 DEF RailTypeOK
        <3> QED  BY <2>1, <3>1 DEF OneOrder, IntentConfirmed
    <2> QED  BY <2>2, <2>3
<1>5. \A v \in Workers : attempt'[v] = attempt[v] \/ attempt'[v] = None
    BY <1>3 DEF Ends, RailTypeOK
<1>6. \A u, v \in Workers : AloneWith(u, v)'
    BY <1>5 DEF PatientInv, AloneWith
<1>7. \A v \in Workers : FirstToAsk(v)'
    BY <1>5 DEF PatientInv, FirstToAsk
<1> QED  BY <1>4, <1>6, <1>7 DEF PatientInv

(* Either way to an order finds order 1.                                    *)
LEMMA AnswersAreFirst ==
    ASSUME RailInv, PatientInv, NEW w \in Workers, FoundOne(w) \/ Record(w)
    PROVE  \E r \in Refs : /\ r = attempt[w].ref /\ intent[r] # None /\ 1 \in OrderIds
                           /\ Confirmed(r, 1) /\ Ends(w) /\ UNCHANGED <<vars, orders, paidAt>>
<1>1. /\ attempt[w] # None /\ attempt[w].ref \in Refs /\ intent[attempt[w].ref] # None
      /\ Stage(w) = attempt[w].stage
      /\ Stage(w) \in {"placed", "replaced"} => attempt[w].order \in OrderIds
    BY StagesAreNotIdle, UnderWay DEF FoundOne, Record
<1>2. PICK r \in Refs : r = attempt[w].ref
    BY <1>1
<1>3. CASE FoundOne(w)
    <2>1. orders[r] = 1 /\ Confirmed(r, 1) /\ Ends(w) /\ UNCHANGED <<vars, orders, paidAt>>
        BY <1>2, <1>3 DEF FoundOne, providerVars
    <2>2. 1 \in OrderIds
        BY <2>1, CountsAreNumbers DEF OrderIds
    <2> QED  BY <1>1, <1>2, <2>1, <2>2
<1>4. CASE Record(w)
    <2>1. attempt[w].order = 1
        BY <1>1, <1>4 DEF Record, PatientInv, FirstToAsk
    <2>2. Confirmed(r, 1) /\ Ends(w) /\ UNCHANGED <<vars, orders, paidAt>>
        BY <1>2, <1>4, <2>1 DEF Record, providerVars
    <2>3. 1 \in OrderIds
        BY <1>1, <1>4, <2>1 DEF Record
    <2> QED  BY <1>1, <1>2, <2>2, <2>3
<1> QED  BY <1>3, <1>4

(* An answer from the row is the answer that was given.                     *)
LEMMA RowAnswersAgain ==
    ASSUME RailInv, PatientInv, NEW r \in Refs, AnswerFromRow(r)
    PROVE  UNCHANGED <<vars, intent, attempt, orders, paidAt, given>>
<1>1. /\ IntentConfirmed(r) /\ given' = [given EXCEPT ![r] = given[r] \cup {intent[r].order}]
      /\ UNCHANGED <<vars, intent, attempt, orders, paidAt>>
    BY DEF AnswerFromRow, IntentConfirmed, providerVars
<1>2. given[r] \cup {intent[r].order} = given[r]
    BY <1>1 DEF PatientInv, OneOrder
<1> QED  BY <1>1, <1>2 DEF RailInv, RazorpaySound, RailTypeOK

(* With no late requests, none is given up on its way.                      *)
LEMMA NoneIsLate ==
    ASSUME RailInv, Patience
    PROVE  /\ \A w \in Workers : ~GiveUp(w)
           /\ \A r \in Refs : ~PlaceLate(r)
<1>1. \A r \in Refs : late[r] = 0
    BY DEF RailInv, RazorpaySound, RailTypeOK, Patience
<1>2. ASSUME NEW w \in Workers PROVE ~GiveUp(w)
    <2>1. SUFFICES ASSUME GiveUp(w) PROVE FALSE
        OBVIOUS
    <2>2. attempt[w].ref \in Refs
        BY <2>1, StagesAreNotIdle, UnderWay DEF GiveUp
    <2> QED  BY <1>1, <2>1, <2>2 DEF GiveUp, Patience
<1>3. \A r \in Refs : ~PlaceLate(r)
    BY <1>1 DEF PlaceLate
<1> QED  BY <1>2, <1>3

LEMMA PatientInvStep ==
    ASSUME RailInv, PatientInv, Patience, [BothNext]_bothVars
    PROVE  PatientInv'
<1>1. CASE UNCHANGED railVars
    BY <1>1, PatientFrame DEF railVars
<1>2. CASE RailStep
    <2>1. ASSUME NEW w \in Workers, NEW r \in Refs, CreateOrder(w, r) \/ Recover(w, r)
          PROVE  PatientInv'
        BY <2>1, CreateOrderPatiently, RecoverPatiently
    <2>2. ASSUME NEW w \in Workers, FoundOne(w) \/ Record(w) PROVE PatientInv'
        BY <2>2, AnswersAreFirst, ConfirmedPatiently
    <2>3. ASSUME NEW w \in Workers, FoundNone(w) \/ Place(w) PROVE PatientInv'
        BY <2>3, FoundNonePatiently, PlacePatiently
    <2>4. ASSUME NEW w \in Workers, FoundSeveral(w) \/ Fail(w) \/ Crash(w) PROVE PatientInv'
        BY <2>4, EndsPatiently DEF FoundSeveral, Fail, Crash, providerVars
    <2>5. ASSUME NEW r \in Refs, AnswerFromRow(r) PROVE PatientInv'
        BY <2>5, RowAnswersAgain, PatientFrame
    <2>6. CASE UNCHANGED <<intent, attempt, orders, given>>
        BY <2>6, PatientFrame
    <2> QED  BY <1>2, <2>1, <2>2, <2>3, <2>4, <2>5, <2>6, NoneIsLate
             DEF RailStep, Pay, AttemptFailed, Callback, Webhook, WebhookRefused, providerVars
<1> QED  BY <1>1, <1>2 DEF BothNext, bothVars, railVars

LEMMA PatientInvInit == BothInit => PatientInv
BY DEF BothInit, RailStart, PatientInv, AloneWith, FirstToAsk, OneOrder, IntentConfirmed

(* The strengthened invariant, for patient clients. *)
THEOREM PatientInvariant ==
    ASSUME Patience PROVE BothSpec => []PatientInv
BY RailInvariant, PatientInvInit, PatientInvStep, PTL DEF BothSpec

(* However often create_order fails, dies and is asked again, the provider  *)
(* has one order for a purchase (razorpay.py, _reconcile_intent), provided  *)
(* that no two attempts overlap.                                           *)
THEOREM PatientClientsGetOneOrder ==
    ASSUME Patience PROVE BothSpec => []OneOrderPerPurchase
<1>1. PatientInv => OneOrderPerPurchase
    BY DEF PatientInv, OneOrder, OneOrderPerPurchase
<1> QED  BY <1>1, PatientInvariant, PTL

(* And the order a shopper was given is the one the row finds.              *)
THEOREM GivenOrdersAreFound ==
    ASSUME Patience PROVE BothSpec => []EveryGivenOrderIsKnown
<1>1. PatientInv => EveryGivenOrderIsKnown
    BY DEF PatientInv, OneOrder, IntentConfirmed, EveryGivenOrderIsKnown, Known
<1> QED  BY <1>1, PatientInvariant, PTL

-----------------------------------------------------------------------------
(* The refinement: how each part of the abstract state moves when only the  *)
(* purchase r does.                                                        *)

LEMMA StageAt ==
    ASSUME NEW r \in Refs, \A q \in Refs : q # r => payment'[q] = payment[q]
    PROVE  StageMap[r] = StageOf(payment[r])
           /\ StageMap' = [StageMap EXCEPT ![r] = StageOf(payment'[r])]
BY DEF StageMap, StageOf

LEMMA OffersAt ==
    ASSUME NEW r \in Refs,
           \A q \in Refs : q # r => given'[q] = given[q] /\ paytm'[q] = paytm[q]
    PROVE  OfferMap[r] = AtRazorpay(given[r]) \cup AtPaytm(r)
           /\ OfferMap' = [OfferMap EXCEPT ![r] = (AtRazorpay(given[r]) \cup AtPaytm(r))']
BY DEF OfferMap, AtRazorpay, AtPaytm

PaidOrders(r) ==
    AtRazorpay({ o \in OrderIds : paidAt[r][o] # None })
        \cup IF r \in charged THEN AtPaytm(r) ELSE {}

LEMMA PaymentsAt ==
    ASSUME NEW r \in Refs,
           \A q \in Refs : q # r => paidAt'[q] = paidAt[q] /\ paytm'[q] = paytm[q],
           \A q \in Refs : q # r => (q \in charged' <=> q \in charged)
    PROVE  PaidMap[r] = PaidOrders(r) /\ PaidMap' = [PaidMap EXCEPT ![r] = PaidOrders(r)']
<1>1. PaidMap = [q \in Refs |-> PaidOrders(q)] /\ PaidMap' = [q \in Refs |-> PaidOrders(q)']
    BY DEF PaidMap, PaidOrders
<1>2. ASSUME NEW q \in Refs, q # r PROVE PaidOrders(q)' = PaidOrders(q)
    BY <1>2 DEF PaidOrders, AtRazorpay, AtPaytm
<1> QED  BY <1>1, <1>2

LEMMA NothingOffered ==
    ASSUME UNCHANGED <<given, paytm>>
    PROVE  UNCHANGED OfferMap
BY DEF OfferMap, AtRazorpay, AtPaytm

LEMMA NothingPaid ==
    ASSUME UNCHANGED <<paidAt, paytm, charged>>
    PROVE  UNCHANGED PaidMap
BY DEF PaidMap, AtRazorpay, AtPaytm

LEMMA NoStageMoves ==
    ASSUME UNCHANGED payment
    PROVE  UNCHANGED StageMap
BY DEF StageMap, StageOf

AbstractStep == Promise!Next \/ UNCHANGED Promise!checkoutVars

LEMMA NothingHappens ==
    ASSUME UNCHANGED <<payment, given, paytm, paidAt, charged>>, Consumed' = Consumed
    PROVE  AbstractStep
BY NothingOffered, NothingPaid, NoStageMoves DEF AbstractStep, Promise!checkoutVars

(* A payment that moves while nothing else does.                            *)
LEMMA MovesOnly ==
    ASSUME NEW r \in Refs, \A q \in Refs : q # r => payment'[q] = payment[q],
           NEW from, StageOf(payment[r]) \in from
    PROVE  Promise!Moves(r, from, StageOf(payment'[r]))
BY StageAt DEF Promise!Moves

LEMMA StageTable ==
    ASSUME NEW p, p # None
    PROVE  /\ p.state = "APPROVAL_REQUIRED" => StageOf(p) = "waiting"
           /\ p.state = "AUTHORIZED" => StageOf(p) = "cleared"
           /\ p.state = "PROVIDER_PENDING" => StageOf(p) = "underway"
           /\ p.state = "CAPTURED" => StageOf(p) = "settled"
           /\ p.state \in {"DENIED", "FAILED", "CANCELLED"} => StageOf(p) = "dead"
BY DEF StageOf

LEMMA NoPaymentNoStage == StageOf(None) = "unasked"
BY DEF StageOf

LEMMA DecisionStep ==
    ASSUME NEW r \in Refs, \A q \in Refs : q # r => payment'[q] = payment[q],
           UNCHANGED <<OfferMap, PaidMap>>, Consumed' = Consumed,
           \/ StageOf(payment[r]) = "unasked"
              /\ StageOf(payment'[r]) \in {"waiting", "cleared", "dead"}
           \/ StageOf(payment[r]) = "waiting" /\ StageOf(payment'[r]) = "cleared"
           \/ StageOf(payment[r]) \in {"cleared", "underway"} /\ StageOf(payment'[r]) = "dead"
    PROVE  AbstractStep
<1>1. Promise!Decided(r)
    BY MovesOnly DEF Promise!Decided
<1> QED  BY <1>1 DEF AbstractStep, Promise!Next

LEMMA HeardStep ==
    ASSUME NEW r \in Refs, \A q \in Refs : q # r => payment'[q] = payment[q],
           UNCHANGED <<OfferMap, PaidMap>>, Consumed' = Consumed, PaidMap[r] # {},
           \/ StageOf(payment[r]) = "cleared" /\ StageOf(payment'[r]) = "underway"
           \/ StageOf(payment[r]) = "underway" /\ StageOf(payment'[r]) = "settled"
    PROVE  AbstractStep
<1>1. Promise!Heard(r)
    BY MovesOnly DEF Promise!Heard
<1> QED  BY <1>1 DEF AbstractStep, Promise!Next

(* A legal move of a payment, as StageOf sees it.                           *)
LEMMA Moved ==
    ASSUME PurchaseInv, NEW r \in Refs, NEW p \in Payment, NEW to \in States,
           Transition(r, p, to)
    PROVE  /\ payment'[r] # None /\ payment'[r].state = to
           /\ \A q \in Refs : q # r => payment'[q] = payment[q]
<1>1. payment' = [payment EXCEPT ![r] = [p EXCEPT !.state = to]]
    BY DEF Transition
<1>2. [p EXCEPT !.state = to] \in Payment /\ [p EXCEPT !.state = to].state = to
    BY DEF Payment
<1>3. [p EXCEPT !.state = to] # None
    BY <1>2, PurchaseAssumption
<1> QED  BY <1>1, <1>2, <1>3 DEF PurchaseInv, PurchaseTypes

LEMMA PrepareIsAbstract ==
    ASSUME RailInv, Prepare, UNCHANGED <<railVars, paytmVars>>
    PROVE  AbstractStep
<1>1. PurchaseInv /\ Consumed' = Consumed /\ UNCHANGED <<OfferMap, PaidMap>>
    BY PrepareFrames, NothingOffered, NothingPaid DEF RailInv, railVars, paytmVars
<1>2. CASE UNCHANGED payment
    BY <1>1, <1>2, NoStageMoves DEF AbstractStep, Promise!checkoutVars
<1>3. ASSUME NEW r \in Refs, Accept(r) \/ Refuse(r) PROVE AbstractStep
    <2>1. draft[r] # None /\ draft[r] \in Draft /\ payment[r] = None
        BY <1>1, <1>3, RowTypes DEF Accept, Refuse, PurchaseInv, Sound, DraftSound, KeyFresh
    <2>2. PICK v \in Verdicts, d \in Hops \cup {None}, day \in Days \cup {None} :
            Recorded(r, draft[r], v, d, day)
        <3>1. CASE Accept(r)
            <4>1. PICK u \in Times : Recorded(r, draft[r], draft[r].verdict, draft[r].held, DayOf[u])
                BY <3>1 DEF Accept
            <4>2. DayOf[u] \in Days
                BY PoliciesAssumption DEF Days
            <4> QED  BY <2>1, <4>1, <4>2 DEF Draft
        <3>2. CASE Refuse(r)
            BY <3>2 DEF Refuse, Verdicts
        <3> QED  BY <1>3, <3>1, <3>2
    <2>3. /\ payment'[r] # None
          /\ payment'[r].state \in {"AUTHORIZED", "DENIED", "APPROVAL_REQUIRED"}
          /\ \A q \in Refs : q # r => payment'[q] = payment[q]
        BY <1>1, <2>1, <2>2, RecordedEffect DEF Verdicts
    <2>4. StageOf(payment[r]) = "unasked"
          /\ StageOf(payment'[r]) \in {"waiting", "cleared", "dead"}
        BY <2>1, <2>3, NoPaymentNoStage, StageTable
    <2> QED  BY <1>1, <2>3, <2>4, DecisionStep
<1>4. ASSUME NEW r \in Refs, GrantApproval(r) PROVE AbstractStep
    <2> DEFINE p == [payment[r] EXCEPT !.authorized = request[r].amount]
    <2>1. request[r] # None /\ payment[r].state = "APPROVAL_REQUIRED"
          /\ Transition(r, p, "AUTHORIZED")
        BY <1>4 DEF GrantApproval
    <2>2. payment[r] # None /\ payment[r] \in Payment /\ request[r] \in Request
        BY <1>1, <2>1, RowTypes DEF PurchaseInv, Sound, LifeSound
    <2>3. p \in Payment /\ "AUTHORIZED" \in States
        BY <2>2 DEF Payment, Request, States
    <2> HIDE DEF p
    <2>4. /\ payment'[r] # None /\ payment'[r].state = "AUTHORIZED"
          /\ \A q \in Refs : q # r => payment'[q] = payment[q]
        BY <1>1, <2>1, <2>3, Moved
    <2> QED  BY <1>1, <2>1, <2>2, <2>4, StageTable, DecisionStep
<1>5. ASSUME NEW r \in Refs, CancelDeadChain(r) PROVE AbstractStep
    <2>1. request[r] # None /\ payment[r].state = "AUTHORIZED"
          /\ Transition(r, payment[r], "CANCELLED")
        BY <1>5 DEF CancelDeadChain, Issuable
    <2>2. payment[r] # None /\ payment[r] \in Payment /\ "CANCELLED" \in States
        BY <1>1, <2>1, RowTypes DEF PurchaseInv, Sound, LifeSound, States
    <2>3. /\ payment'[r] # None /\ payment'[r].state = "CANCELLED"
          /\ \A q \in Refs : q # r => payment'[q] = payment[q]
        BY <1>1, <2>1, <2>2, Moved
    <2> QED  BY <1>1, <2>1, <2>2, <2>3, StageTable, DecisionStep
<1> QED  BY <1>2, <1>3, <1>4, <1>5 DEF Prepare, purchaseVars, Decide, Abort, IssueAuthority

-----------------------------------------------------------------------------
(* Razorpay's steps. *)

LEMMA CreateOrderIsClaim ==
    ASSUME RailInv, NEW w \in Workers, NEW r \in Refs, CreateOrder(w, r), UNCHANGED paytmVars
    PROVE  AbstractStep
<1>1. /\ ConsumeAuthority(r) /\ UNCHANGED <<given, paidAt, paytm, charged>>
    BY DEF CreateOrder, providerVars, paytmVars
<1>2. /\ r \notin Consumed /\ Consumed' = Consumed \cup {r} /\ UNCHANGED payment
    BY <1>1, ConsumptionFrames DEF RailInv
<1>3. StageMap[r] = "cleared"
    <2>1. payment[r].state = "AUTHORIZED" /\ authority[r] # None
        BY <1>1 DEF ConsumeAuthority
    <2>2. payment[r] # None
        BY <2>1 DEF RailInv, PurchaseInv, Sound, KeyFresh, LifeSound
    <2> QED  BY <2>1, <2>2, StageTable DEF StageMap
<1>4. Promise!Claimed(r)
    BY <1>1, <1>2, <1>3, NoStageMoves, NothingOffered, NothingPaid DEF Promise!Claimed
<1> QED  BY <1>4 DEF AbstractStep, Promise!Next

LEMMA AnswerIsOffer ==
    ASSUME RailInv, PatientInv, NEW w \in Workers, FoundOne(w) \/ Record(w),
           UNCHANGED paytmVars
    PROVE  AbstractStep
<1>1. PICK r \in Refs :
        /\ intent[r] # None /\ 1 \in OrderIds
        /\ given' = [given EXCEPT ![r] = given[r] \cup {1}]
        /\ UNCHANGED <<payment, authority, paidAt>>
    BY AnswersAreFirst DEF Confirmed, vars
<1>2. UNCHANGED <<paytm, charged>>
    BY DEF paytmVars
<1>3. r \in Consumed /\ paytm[r] = None /\ Consumed' = Consumed
    BY <1>1 DEF RailInv, Apart, Consumed
<1>4. UNCHANGED <<StageMap, PaidMap>>
    BY <1>1, <1>2, NoStageMoves, NothingPaid
<1>5. given \in [Refs -> SUBSET OrderIds] /\ (given[r] = {} \/ given[r] = {1})
    BY DEF RailInv, RazorpaySound, RailTypeOK, PatientInv, OneOrder
<1>6. CASE given[r] = {1}
    <2>1. UNCHANGED given
        BY <1>1, <1>5, <1>6
    <2> QED  BY <1>1, <1>2, <1>3, <2>1, NothingHappens
<1>7. CASE given[r] = {}
    <2>1. given'[r] = {1} /\ \A q \in Refs : q # r => given'[q] = given[q]
        BY <1>1, <1>5, <1>7
    <2>2. AtRazorpay(given[r]) \cup AtPaytm(r) = {}
          /\ (AtRazorpay(given[r]) \cup AtPaytm(r))' = {<<"razorpay", 1>>}
        BY <1>2, <1>3, <1>7, <2>1 DEF AtRazorpay, AtPaytm
    <2>3. OfferMap[r] = {} /\ OfferMap' = [OfferMap EXCEPT ![r] = {<<"razorpay", 1>>}]
        BY <1>2, <2>1, <2>2, OffersAt
    <2>4. <<"razorpay", 1>> \in ProviderOrders
        BY <1>1 DEF ProviderOrders, AtRazorpay
    <2>5. Promise!Offered(r)
        BY <1>3, <1>4, <2>3, <2>4 DEF Promise!Offered
    <2> QED  BY <2>5 DEF AbstractStep, Promise!Next
<1> QED  BY <1>5, <1>6, <1>7

LEMMA PayIsPayment ==
    ASSUME RailInv, NEW r \in Refs, NEW o \in OrderIds, Pay(r, o), UNCHANGED paytmVars
    PROVE  AbstractStep
<1>1. /\ o \in given[r]
      /\ paidAt' = [paidAt EXCEPT ![r] = [paidAt[r] EXCEPT ![o] = now]]
      /\ UNCHANGED <<payment, authority, given, paytm, charged>>
    BY DEF Pay, vars, paytmVars
<1>2. now # None
    BY ClockTypes, PurchaseAssumption DEF RailInv
<1>3. /\ paidAt'[r] = [paidAt[r] EXCEPT ![o] = now]
      /\ paidAt[r] \in [OrderIds -> Times \cup {None}]
      /\ \A q \in Refs : q # r => paidAt'[q] = paidAt[q]
    BY <1>1 DEF RailInv, RazorpaySound, RailTypeOK
<1>4. { b \in OrderIds : paidAt'[r][b] # None } = { b \in OrderIds : paidAt[r][b] # None } \cup {o}
    BY <1>2, <1>3
<1>5. PaidOrders(r)' = PaidOrders(r) \cup {<<"razorpay", o>>}
    BY <1>1, <1>4 DEF PaidOrders, AtRazorpay, AtPaytm
<1>6. PaidMap' = [PaidMap EXCEPT ![r] = PaidMap[r] \cup {<<"razorpay", o>>}]
    BY <1>1, <1>3, <1>5, PaymentsAt
<1>7. <<"razorpay", o>> \in OfferMap[r]
    BY <1>1 DEF OfferMap, AtRazorpay
<1>8. Consumed' = Consumed /\ UNCHANGED <<StageMap, OfferMap>>
    BY <1>1, NoStageMoves, NothingOffered DEF Consumed
<1>9. Promise!PaidFor(r)
    BY <1>6, <1>7, <1>8 DEF Promise!PaidFor
<1> QED  BY <1>9 DEF AbstractStep, Promise!Next

LEMMA WebhookIsHeard ==
    ASSUME RailInv, NEW r \in Refs, NEW o \in OrderIds, NEW k \in News, Webhook(r, o, k),
           UNCHANGED paytmVars
    PROVE  AbstractStep
<1> DEFINE p == WithAmounts(payment[r], k)
<1>1. /\ paidAt[r][o] # None /\ payment[r] # None
      /\ Transition(r, p, Target(k))
      /\ UNCHANGED <<authority, given, paidAt, paytm, charged>>
    BY DEF Webhook, ProviderEvent, providerVars, paytmVars
<1>2. PurchaseInv /\ k \in Kinds
    BY DEF RailInv, News, Kinds
<1>3. request[r] # None /\ payment[r] \in Payment
    BY <1>1, <1>2, RowTypes DEF PurchaseInv, Sound, KeyFresh
<1>4. p \in Payment /\ p.state = payment[r].state
    BY <1>3 DEF WithAmounts, Payment
<1>5. Target(k) \in Legal(payment[r].state)
    BY <1>1, <1>4 DEF Transition, MayMove
<1>6. /\ Target(k) \in States
      /\ k = "authorized" => payment[r].state = "AUTHORIZED" /\ Target(k) = "PROVIDER_PENDING"
      /\ k = "captured" => payment[r].state = "PROVIDER_PENDING" /\ Target(k) = "CAPTURED"
    BY <1>2, <1>3, <1>5, EventMoves DEF Target
<1> HIDE DEF p
<1>7. /\ payment'[r] # None /\ payment'[r].state = Target(k)
      /\ \A q \in Refs : q # r => payment'[q] = payment[q]
    BY <1>1, <1>2, <1>4, <1>6, Moved
<1>8. UNCHANGED <<OfferMap, PaidMap>> /\ Consumed' = Consumed
    BY <1>1, NothingOffered, NothingPaid DEF Consumed
<1>9. PaidMap[r] # {}
    <2>1. o \in { b \in OrderIds : paidAt[r][b] # None }
        BY <1>1
    <2>2. <<"razorpay", o>> \in PaidMap[r]
        BY <2>1 DEF PaidMap, AtRazorpay
    <2> QED  BY <2>2
<1>10. \/ StageOf(payment[r]) = "cleared" /\ StageOf(payment'[r]) = "underway"
       \/ StageOf(payment[r]) = "underway" /\ StageOf(payment'[r]) = "settled"
    <2>1. CASE k = "authorized"
        BY <1>1, <1>6, <1>7, <2>1, StageTable
    <2>2. CASE k = "captured"
        BY <1>1, <1>6, <1>7, <2>2, StageTable
    <2> QED  BY <2>1, <2>2 DEF News
<1> QED  BY <1>7, <1>8, <1>9, <1>10, HeardStep

LEMMA RailStepIsAbstract ==
    ASSUME RailInv, PatientInv, Patience, RailStep, UNCHANGED paytmVars
    PROVE  AbstractStep
<1>1. UNCHANGED <<paytm, charged>>
    BY DEF paytmVars
<1>2. ASSUME NEW w \in Workers, NEW r \in Refs, CreateOrder(w, r) PROVE AbstractStep
    BY <1>2, CreateOrderIsClaim
<1>3. ASSUME NEW w \in Workers, FoundOne(w) \/ Record(w) PROVE AbstractStep
    BY <1>3, AnswerIsOffer
<1>4. ASSUME NEW r \in Refs, NEW o \in OrderIds, Pay(r, o) PROVE AbstractStep
    BY <1>4, PayIsPayment
<1>5. ASSUME NEW r \in Refs, NEW o \in OrderIds, NEW k \in News, Webhook(r, o, k)
      PROVE  AbstractStep
    BY <1>5, WebhookIsHeard
<1>6. CASE UNCHANGED <<vars, given, paidAt>>
    BY <1>1, <1>6, NothingHappens DEF vars, Consumed
<1>7. ASSUME NEW r \in Refs, AnswerFromRow(r) PROVE UNCHANGED <<vars, given, paidAt>>
    BY <1>7, RowAnswersAgain
<1>8. ASSUME NEW w \in Workers, FoundSeveral(w) \/ FoundNone(w) \/ Place(w) \/ Fail(w) \/ Crash(w)
      PROVE  UNCHANGED <<vars, given, paidAt>>
    BY <1>8 DEF FoundSeveral, FoundNone, Place, Fail, Crash, providerVars
<1>9. ASSUME NEW w \in Workers, NEW r \in Refs, Recover(w, r)
      PROVE  UNCHANGED <<vars, given, paidAt>>
    BY <1>9 DEF Recover, providerVars
<1>10. ASSUME NEW r \in Refs, NEW o \in OrderIds, NEW k \in News,
              AttemptFailed(r, o) \/ Callback(r, o) \/ WebhookRefused(r, o, k)
       PROVE  UNCHANGED <<vars, given, paidAt>>
    BY <1>10 DEF AttemptFailed, Callback, WebhookRefused, providerVars
<1>11. "captured" \in News
    BY DEF News
<1> QED  BY <1>2, <1>3, <1>4, <1>5, <1>6, <1>7, <1>8, <1>9, <1>10, <1>11, NoneIsLate
         DEF RailStep

-----------------------------------------------------------------------------
(* Paytm's steps. *)

LEMMA StartPaymentIsClaim ==
    ASSUME RailInv, NEW r \in Refs, StartPayment(r), UNCHANGED railVars
    PROVE  AbstractStep
<1> DEFINE row == [order |-> opened[r] + 1, status |-> "CREATED"]
<1>1. /\ opened[r] < MaxOpened /\ payment[r].state = "AUTHORIZED"
      /\ Transition(r, payment[r], "PROVIDER_PENDING")
      /\ paytm' = [paytm EXCEPT ![r] = row]
      /\ UNCHANGED <<policyVars, charged, given, paidAt>>
    BY DEF StartPayment, Ready, Issuable, railVars
<1>2. PaytmTypeOK /\ PurchaseInv /\ Apart(r) /\ IntentSound(r) /\ AnswerSound(r)
    BY DEF RailInv, PaytmSound, RazorpaySound
<1>3. opened[r] + 1 \in GatewayOrders
    BY <1>1, <1>2, PaytmAssumption DEF PaytmTypeOK, GatewayOrders
<1>4. row \in Row /\ row # None /\ row.order = opened[r] + 1
    <2>1. row \in Row
        BY <1>3 DEF Row
    <2> QED  BY <2>1, PaytmAssumption
<1> HIDE DEF row
<1>5. ChainInv' /\ HopsStay
    BY <1>1, <1>2, TransitionIsRelease, ChainStepKeeps DEF PurchaseInv
<1>6. /\ r \notin Consumed /\ r \in Consumed'
      /\ \A q \in Refs : q # r => authority'[q] = authority[q] /\ payment'[q] = payment[q]
      /\ payment'[r].state = "PROVIDER_PENDING" /\ payment'[r] # None
    BY <1>2, <1>5, StartPaymentMoves
<1>7. Consumed' = Consumed \cup {r}
    BY <1>6 DEF Consumed
<1>8. intent[r] = None /\ paytm[r] = None /\ given[r] = {} /\ r \notin charged
    BY <1>2, <1>6 DEF Apart, IntentSound, AnswerSound
<1>9. payment[r] # None
    BY <1>1, <1>2 DEF StartPayment, Ready, Issuable, PurchaseInv, Sound, LifeSound
<1>10. paytm'[r] = row /\ \A q \in Refs : q # r => paytm'[q] = paytm[q]
    BY <1>1, <1>2 DEF PaytmTypeOK
<1>11. Promise!Moves(r, {"cleared"}, "underway")
    BY <1>1, <1>6, <1>9, StageTable, MovesOnly
<1>12. OfferMap' = [OfferMap EXCEPT ![r] = {<<"paytm", opened[r] + 1>>}]
    <2>1. (AtRazorpay(given[r]) \cup AtPaytm(r))' = {<<"paytm", opened[r] + 1>>}
        BY <1>1, <1>4, <1>8, <1>10 DEF AtRazorpay, AtPaytm
    <2> QED  BY <1>1, <1>10, <2>1, OffersAt
<1>13. <<"paytm", opened[r] + 1>> \in ProviderOrders
    BY <1>3 DEF ProviderOrders
<1>14. UNCHANGED PaidMap
    <2>1. PaidOrders(r)' = PaidOrders(r)
        BY <1>1, <1>8 DEF PaidOrders, AtRazorpay
    <2>2. PaidMap[r] = PaidOrders(r) /\ PaidMap' = [PaidMap EXCEPT ![r] = PaidOrders(r)']
        BY <1>1, <1>10, PaymentsAt
    <2> QED  BY <2>1, <2>2 DEF PaidMap
<1>15. StageMap[r] = "cleared"
    BY <1>1, <1>9, StageTable DEF StageMap
<1>16. Promise!Claimed(r)
    BY <1>6, <1>7, <1>11, <1>12, <1>13, <1>14, <1>15 DEF Promise!Claimed
<1> QED  BY <1>16 DEF AbstractStep, Promise!Next

(* The gateway's success is the shopper's payment. *)
LEMMA ChargeIsPayment ==
    ASSUME RailInv, NEW r \in Refs, paytm[r] # None, charged' = charged \cup {r},
           UNCHANGED <<vars, railVars, paytm>>
    PROVE  AbstractStep
<1>1. UNCHANGED <<payment, authority, given, paidAt>>
    BY DEF vars, railVars
<1>2. PaidOrders(r)' = PaidOrders(r) \cup {<<"paytm", paytm[r].order>>}
    BY <1>1 DEF PaidOrders, AtRazorpay, AtPaytm
<1>3. PaidMap' = [PaidMap EXCEPT ![r] = PaidMap[r] \cup {<<"paytm", paytm[r].order>>}]
    BY <1>1, <1>2, PaymentsAt
<1>4. <<"paytm", paytm[r].order>> \in OfferMap[r]
    BY DEF OfferMap, AtPaytm
<1>5. Consumed' = Consumed /\ UNCHANGED <<StageMap, OfferMap>>
    BY <1>1, NoStageMoves, NothingOffered DEF Consumed
<1>6. Promise!PaidFor(r)
    BY <1>3, <1>4, <1>5 DEF Promise!PaidFor
<1> QED  BY <1>6 DEF AbstractStep, Promise!Next

LEMMA ConfirmIsHeard ==
    ASSUME RailInv, NEW r \in Refs, Confirm(r), UNCHANGED railVars
    PROVE  AbstractStep
<1> DEFINE s == RowAfter(heard[r])
<1>1. UNCHANGED <<policyVars, authority, charged, given, paidAt>>
    BY DEF Confirm, railVars
<1>2. /\ paytm[r] # None /\ paytm'[r] # None /\ paytm'[r].order = paytm[r].order
      /\ s = "SUCCESS" => r \in charged
      /\ \A q \in Refs : q # r => paytm'[q] = paytm[q]
    BY RowWritten
<1>3. PurchaseInv /\ request[r] # None /\ payment[r] # None
    BY <1>2, RowsAreOfPurchases DEF RailInv
<1>4. ChainInv' /\ HopsStay
    <2>1. ChainStep
        BY RailsAreChainSteps DEF BothNext, PaytmStep
    <2> QED  BY <1>3, <2>1, ChainStepKeeps DEF PurchaseInv
<1>5. /\ \A q \in Refs : q # r => payment'[q] = payment[q]
      /\ IF payment[r].state = "PROVIDER_PENDING" /\ s \in {"SUCCESS", "FAILED"}
         THEN /\ payment'[r] # None
              /\ payment'[r].state = IF s = "SUCCESS" THEN "CAPTURED" ELSE "FAILED"
         ELSE payment' = payment
    BY <1>3, <1>4, ConfirmMoves
<1> HIDE DEF s
<1>6. AtPaytm(r)' = AtPaytm(r)
    BY <1>2 DEF AtPaytm
<1>7. Consumed' = Consumed /\ UNCHANGED <<OfferMap, PaidMap>>
    <2>1. OfferMap[r] = AtRazorpay(given[r]) \cup AtPaytm(r)
          /\ OfferMap' = [OfferMap EXCEPT ![r] = (AtRazorpay(given[r]) \cup AtPaytm(r))']
        BY <1>1, <1>2, OffersAt
    <2>2. (AtRazorpay(given[r]) \cup AtPaytm(r))' = AtRazorpay(given[r]) \cup AtPaytm(r)
        BY <1>1, <1>6 DEF AtRazorpay
    <2>3. PaidMap[r] = PaidOrders(r) /\ PaidMap' = [PaidMap EXCEPT ![r] = PaidOrders(r)']
        BY <1>1, <1>2, PaymentsAt
    <2>4. PaidOrders(r)' = PaidOrders(r)
        BY <1>1, <1>6 DEF PaidOrders, AtRazorpay
    <2>5. UNCHANGED OfferMap
        BY <2>1, <2>2 DEF OfferMap
    <2>6. UNCHANGED PaidMap
        BY <2>3, <2>4 DEF PaidMap
    <2> QED  BY <1>1, <2>5, <2>6 DEF Consumed
<1>8. CASE payment' = payment
    BY <1>7, <1>8, NoStageMoves DEF AbstractStep, Promise!checkoutVars
<1>9. CASE payment[r].state = "PROVIDER_PENDING" /\ s = "SUCCESS"
    <2>1. StageOf(payment[r]) = "underway" /\ StageOf(payment'[r]) = "settled"
        BY <1>3, <1>5, <1>9, StageTable
    <2>2. <<"paytm", paytm[r].order>> \in PaidMap[r]
        BY <1>2, <1>9 DEF PaidMap, AtPaytm
    <2> QED  BY <1>5, <1>7, <2>1, <2>2, HeardStep
<1>10. CASE payment[r].state = "PROVIDER_PENDING" /\ s = "FAILED"
    <2>1. StageOf(payment[r]) = "underway" /\ StageOf(payment'[r]) = "dead"
        BY <1>3, <1>5, <1>10, StageTable
    <2> QED  BY <1>5, <1>7, <2>1, DecisionStep
<1> QED  BY <1>5, <1>8, <1>9, <1>10

LEMMA PaytmStepIsAbstract ==
    ASSUME RailInv, PaytmStep, UNCHANGED railVars
    PROVE  AbstractStep
<1>1. ASSUME NEW r \in Refs, StartPayment(r) \/ Confirm(r) PROVE AbstractStep
    BY <1>1, StartPaymentIsClaim, ConfirmIsHeard
<1>2. CASE UNCHANGED <<vars, paytm, charged>>
    BY <1>2, NothingHappens DEF vars, Consumed, railVars
<1>3. ASSUME NEW r \in Refs, NEW outcome \in Outcomes, Complete(r, outcome) PROVE AbstractStep
    <2>1. paytm[r] # None /\ UNCHANGED <<vars, paytm>>
          /\ (UNCHANGED charged \/ charged' = charged \cup {r})
        BY <1>3 DEF Complete
    <2> QED  BY <1>2, <2>1, ChargeIsPayment
<1>4. ASSUME NEW r \in Refs, AskGateway(r) PROVE AbstractStep
    <2>1. paytm[r] # None /\ UNCHANGED <<vars, paytm>>
          /\ (UNCHANGED charged \/ charged' = charged \cup {r})
        BY <1>4 DEF AskGateway
    <2> QED  BY <1>2, <2>1, ChargeIsPayment
<1> QED  BY <1>1, <1>2, <1>3, <1>4 DEF PaytmStep, Restart, StartLost, ConfirmLost

-----------------------------------------------------------------------------
LEMMA StartsAbstract == BothInit => Promise!Init
<1> SUFFICES ASSUME BothInit PROVE Promise!Init
    OBVIOUS
<1>1. StageMap = [r \in Refs |-> "unasked"]
    BY NoPaymentNoStage DEF BothInit, Init, StageMap
<1>2. Consumed = {}
    BY DEF BothInit, Init, Consumed
<1>3. OfferMap = [r \in Refs |-> {}]
    BY DEF BothInit, RailStart, PaytmStart, OfferMap, AtRazorpay, AtPaytm
<1>4. PaidMap = [r \in Refs |-> {}]
    BY DEF BothInit, RailStart, PaytmStart, PaidMap, AtRazorpay, AtPaytm
<1> QED  BY <1>1, <1>2, <1>3, <1>4 DEF Promise!Init

(* The two adapters together implement the promise of a rail: one claim,    *)
(* one order offered, and no money without that order paid.                *)
THEOREM RailsKeepThePromise ==
    ASSUME Patience PROVE BothSpec => PromiseKept
<1>1. RailInv /\ PatientInv /\ [BothNext]_bothVars => [Promise!Next]_(Promise!checkoutVars)
    <2>1. SUFFICES ASSUME RailInv, PatientInv, [BothNext]_bothVars PROVE AbstractStep
        BY DEF AbstractStep
    <2>2. CASE UNCHANGED bothVars
        BY <2>2, NothingHappens DEF bothVars, vars, railVars, paytmVars, Consumed
    <2> QED  BY <2>1, <2>2, PrepareIsAbstract, RailStepIsAbstract, PaytmStepIsAbstract
             DEF BothNext
<1> QED  BY <1>1, StartsAbstract, RailInvariant, PatientInvariant, PTL
         DEF BothSpec, PromiseKept, Promise!Spec
=============================================================================
