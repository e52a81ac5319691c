----------------------------- MODULE RailProofs -----------------------------
(***************************************************************************)
(* What the two adapters keep for every number of purchases, workers,      *)
(* provider orders and instants.                                           *)
(*                                                                         *)
(* The purchases' own invariant survives the adapters: each of their steps *)
(* leaves the purchases alone, is one of their actions, or is a Paytm step *)
(* that moves one payment legally.  On top of it, one invariant for each   *)
(* purchase says which rail has it and what that rail's books hold, and    *)
(* one for each worker that it never asks without an intent.               *)
(***************************************************************************)
EXTENDS RailBooks, PurchaseProofs

-----------------------------------------------------------------------------
(* The inductive invariant. *)

(* A used authority is one rail's, and only Paytm moves payments without an *)
(* event to show for it.                                                   *)
Apart(r) ==
    /\ r \in Consumed <=> intent[r] # None \/ paytm[r] # None
    /\ intent[r] = None \/ paytm[r] = None
    /\ paytm[r] = None => Explained(r)

(* The orders, requests and payments there can be under an intent.          *)
IntentSound(r) ==
    /\ intent[r] = None => orders[r] = 0 /\ late[r] = 0 /\ given[r] = {}
    /\ \A o \in OrderIds : paidAt[r][o] # None => o \in given[r]

TrailSound(r) ==
    /\ "intent_recorded" \in trail[r] <=> intent[r] # None
    /\ trail[r] \cap {"created", "reconciled"} # {} <=>
          intent[r] # None /\ intent[r].state = "CONFIRMED"
    /\ events[r] # {} =>
          "webhook_verified" \in trail[r] /\ \E o \in given[r] : paidAt[r][o] # None

(* The bound on requests that may take effect, counted while they are out.  *)
Counted(r) == orders[r] + late[r] + Cardinality(InFlight(r)) <= MaxOrders

(* A worker that asks has an intent to come back to, and one that has an    *)
(* answer has an order.                                                    *)
AttemptSound(w) ==
    attempt[w] # None =>
        /\ intent[attempt[w].ref] # None
        /\ attempt[w].stage \in {"placed", "replaced"} => attempt[w].order # None

(* What a Paytm row says of its payment, and what an answer that is still   *)
(* to be written may say.                                                  *)
RowSound(r) ==
    paytm[r] # None =>
        /\ payment[r] # None
        /\ paytm[r].status = "CREATED" => payment[r].state = "PROVIDER_PENDING"
        /\ paytm[r].status \in {"PENDING", "MISMATCH"} =>
              payment[r].state \in {"PROVIDER_PENDING", "FAILED"}
        /\ paytm[r].status = "FAILED" => payment[r].state = "FAILED"
        /\ paytm[r].status = "SUCCESS" =>
              payment[r].state \in {"CAPTURED", "FAILED"} /\ r \in charged /\ agrees[r]

AnswerSound(r) ==
    /\ paytm[r] = None => r \notin charged /\ heard[r] = None
    /\ heard[r] # None =>
          /\ paytm[r].status # "SUCCESS"
          /\ heard[r].agrees = agrees[r]
          /\ heard[r].result = "TXN_SUCCESS" => r \in charged

RazorpaySound ==
    /\ RailTypeOK
    /\ \A r \in Refs : IntentSound(r) /\ TrailSound(r) /\ Counted(r)
    /\ \A w \in Workers : AttemptSound(w)

PaytmSound ==
    /\ PaytmTypeOK
    /\ \A r \in Refs : RowSound(r) /\ AnswerSound(r)

RailInv ==
    /\ PurchaseInv
    /\ RazorpaySound
    /\ PaytmSound
    /\ \A r \in Refs : Apart(r)

-----------------------------------------------------------------------------
(* Requests under way, counted. *)

LEMMA InFlightFinite ==
    ASSUME NEW r
    PROVE  IsFiniteSet(InFlight(r)) /\ Cardinality(InFlight(r)) \in Nat
<1>1. IsFiniteSet(InFlight(r))
    BY RailAssumption, FS_Subset DEF InFlight
<1> QED  BY <1>1, FS_CardinalityType

(* A worker whose attempt is no request for an order takes none with it.    *)
LEMMA StaysOutOfFlight ==
    ASSUME RailTypeOK, NEW w \in Workers, NEW a,
           attempt' = [attempt EXCEPT ![w] = a],
           a # None => a.stage \notin {"asked", "asking"},
           Stage(w) \notin {"asked", "asking"},
           NEW r \in Refs
    PROVE  InFlight(r)' = InFlight(r)
BY DEF RailTypeOK, InFlight, Stage

LEMMA LeavesFlight ==
    ASSUME RailTypeOK, NEW w \in Workers, NEW a,
           attempt' = [attempt EXCEPT ![w] = a],
           a # None => a.stage \notin {"asked", "asking"},
           NEW r \in Refs
    PROVE  /\ InFlight(r)' = InFlight(r) \ {w}
           /\ Cardinality(InFlight(r)') <= Cardinality(InFlight(r))
           /\ w \in InFlight(r) =>
                 Cardinality(InFlight(r)') + 1 = Cardinality(InFlight(r))
           /\ Cardinality(InFlight(r)') \in Nat /\ Cardinality(InFlight(r)) \in Nat
<1>1. InFlight(r)' = InFlight(r) \ {w}
    BY DEF RailTypeOK, InFlight, Stage
<1>2. IsFiniteSet(InFlight(r)) /\ Cardinality(InFlight(r)) \in Nat
    BY InFlightFinite
<1>3. Cardinality(InFlight(r) \ {w})
        = IF w \in InFlight(r) THEN Cardinality(InFlight(r)) - 1 ELSE Cardinality(InFlight(r))
    BY <1>2, FS_RemoveElement
<1>4. Cardinality(InFlight(r) \ {w}) \in Nat
    BY <1>2, FS_RemoveElement, FS_CardinalityType
<1> QED  BY <1>1, <1>2, <1>3, <1>4

LEMMA EntersFlight ==
    ASSUME RailTypeOK, NEW w \in Workers, NEW q \in Refs, NEW s \in {"asked", "asking"},
           NEW o \in OrderIds \cup {None},
           Enters(w, q, s, o), Stage(w) \notin {"asked", "asking"},
           NEW r \in Refs
    PROVE  /\ Cardinality(InFlight(r)') =
                 Cardinality(InFlight(r)) + IF r = q THEN 1 ELSE 0
           /\ Cardinality(InFlight(r)) \in Nat
<1>1. [ref |-> q, stage |-> s, order |-> o] \in Attempt
    BY DEF Attempt
<1>2. [ref |-> q, stage |-> s, order |-> o] # None
    BY <1>1, RailAssumption
<1>3. InFlight(r)' = IF r = q THEN InFlight(r) \cup {w} ELSE InFlight(r)
    BY <1>2 DEF RailTypeOK, InFlight, Stage, Enters
<1>4. w \notin InFlight(r)
    BY DEF InFlight
<1>5. IsFiniteSet(InFlight(r)) /\ Cardinality(InFlight(r)) \in Nat
    BY InFlightFinite
<1>6. Cardinality(InFlight(r) \cup {w}) = Cardinality(InFlight(r)) + 1
    BY <1>4, <1>5, FS_AddElement
<1> QED  BY <1>3, <1>5, <1>6

-----------------------------------------------------------------------------
(* Paytm moves a payment on its own word: the purchase stays sound, and     *)
(* every other purchase keeps its explanation.                             *)

OthersExplained(r) == \A q \in Refs : q # r /\ Explained(q) => Explained(q)'

LEMMA OneMoved ==
    ASSUME PurchaseInv, HopsStay, NEW r \in Refs, Sound(r)',
           \A q \in Refs : q # r => Untouched(q)
    PROVE  (\A q \in Refs : Sound(q)') /\ OthersExplained(r)
<1>1. ASSUME NEW q \in Refs, q # r, Explained(q) PROVE Explained(q)'
    BY <1>1 DEF Untouched, Explained
<1> QED  BY <1>1, Framed DEF PurchaseInv, OthersExplained

(* A move of an authorized or pending payment that leaves the approval and  *)
(* the request alone, with the authority it may have consumed.             *)
LEMMA MovedSound ==
    ASSUME PurchaseInv, HopsStay, NEW r \in Refs, request[r] # None,
           NEW to \in {"PROVIDER_PENDING", "CAPTURED", "FAILED"},
           Transition(r, payment[r], to),
           payment[r].state \in {"AUTHORIZED", "PROVIDER_PENDING"},
           UNCHANGED <<now, policies, draft, request, approval, events>>,
           authority' \in [Refs -> Authority \cup {None}],
           \A q \in Refs : q # r => authority'[q] = authority[q],
           StandsForDecision(r)'
    PROVE  /\ RequestsSound' /\ OthersExplained(r)
           /\ payment'[r].state = to /\ payment'[r] # None
           /\ \A q \in Refs : q # r => payment'[q] = payment[q]
<1> DEFINE p == payment[r]
<1>1. Sound(r) /\ p \in Payment /\ p # None
    BY RowTypes DEF PurchaseInv, Sound, LifeSound
<1>2. /\ payment' = [payment EXCEPT ![r] = [p EXCEPT !.state = to]]
      /\ [p EXCEPT !.state = to] \in Payment
      /\ payment'[r] = [p EXCEPT !.state = to]
      /\ reserved' \in [Actors -> [Days -> Nat]]
      /\ \A x \in Refs : x # r => payment'[x] = payment[x] /\ spend'[x] = spend[x]
      /\ BudgetsAgree(r)'
    <2>1. to \in States /\ p.state = payment[r].state /\ UNCHANGED request
          /\ Transition(r, p, to)
        BY DEF States
    <2> HIDE DEF p
    <2> QED  BY <1>1, <2>1, TransitionEffect
<1>3. /\ payment'[r].state = to /\ payment'[r].authorized = payment[r].authorized
      /\ payment'[r] # None
    BY <1>1, <1>2, PurchaseAssumption DEF Payment
<1>4. PurchaseTypes' /\ \A x \in Refs : x # r => Untouched(x)
    BY <1>2 DEF PurchaseInv, PurchaseTypes, Untouched
<1>5. DraftSound(r)' /\ KeyFresh(r)'
    BY <1>1 DEF Sound, DraftSound, KeyFresh
<1>6. LifeSound(r)'
    BY <1>1, <1>3 DEF Sound, LifeSound, Reached
<1>7. Beyond(r) /\ Gated(r)'
    BY <1>1, <1>3 DEF Sound, Gated, Beyond
<1>8. Sound(r)'
    BY <1>2, <1>5, <1>6, <1>7 DEF Sound
<1> QED  BY <1>2, <1>3, <1>4, <1>8, OneMoved DEF RequestsSound

LEMMA StartPaymentMoves ==
    ASSUME PurchaseInv, HopsStay, NEW r \in Refs, StartPayment(r)
    PROVE  /\ RequestsSound' /\ OthersExplained(r)
           /\ r \notin Consumed /\ r \in Consumed'
           /\ \A q \in Refs : q # r => authority'[q] = authority[q]
           /\ payment'[r].state = "PROVIDER_PENDING" /\ payment'[r] # None
           /\ \A q \in Refs : q # r => payment'[q] = payment[q]
           /\ UNCHANGED events
           /\ MayOrder(r)
<1>1. PICK t \in Recent :
        Ready(r, t) /\ authority' = [authority EXCEPT ![r] = UsedAuthority(r, t)]
    BY DEF StartPayment
<1> DEFINE row == UsedAuthority(r, t)
<1>2. /\ request[r] # None /\ payment[r].state = "AUTHORIZED" /\ request[r].version = Newest
      /\ Newest \in DOMAIN policies /\ t < policies[Newest].expiry
      /\ request[r].sku # None
      /\ request[r].verdict = "REQUIRE_APPROVAL" => approval[r] # None
      /\ authority[r] # None => ~authority[r].used /\ authority[r].version = Newest
    BY <1>1 DEF Ready, Issuable, InForce
<1>3. /\ Transition(r, payment[r], "PROVIDER_PENDING")
      /\ UNCHANGED <<now, policies, draft, request, approval, events>>
    BY DEF StartPayment, policyVars
<1>4. Sound(r)
    BY DEF PurchaseInv
<1>5. /\ row \in Authority /\ row.used /\ row.version = Newest
      /\ row.expires <= policies[Newest].expiry
    <2>1. policies[Newest] \in Policy /\ t \in Nat /\ Newest \in Nat
        BY <1>2, ClockTypes
    <2>2. policies[Newest].expiry \in Nat /\ t + AuthorityTtl \in Nat
        BY <2>1, PurchaseAssumption DEF Policy
    <2>3. CASE authority[r] = None
        BY <2>1, <2>2, <2>3 DEF UsedAuthority, Authority
    <2>4. CASE authority[r] # None
        <3>1. authority[r] \in Authority /\ authority[r].expires <= policies[Newest].expiry
            BY <1>2, <1>4, <2>4, RowTypes DEF Sound, StandsForDecision
        <3>2. row = [authority[r] EXCEPT !.used = TRUE]
            BY <2>4 DEF UsedAuthority
        <3> HIDE DEF row
        <3> QED  BY <1>2, <2>4, <3>1, <3>2 DEF Authority
    <2> QED  BY <2>3, <2>4
<1>6. row # None
    BY <1>5, PurchaseAssumption
<1> HIDE DEF row
<1>7. /\ authority' \in [Refs -> Authority \cup {None}] /\ authority'[r] = row
      /\ \A q \in Refs : q # r => authority'[q] = authority[q]
    BY <1>1, <1>5 DEF PurchaseInv, PurchaseTypes, row
<1>8. StandsForDecision(r)'
    <2>1. request[r].verdict # "DENY"
        BY <1>2, <1>4 DEF Sound, LifeSound
    <2> QED  BY <1>2, <1>3, <1>5, <1>7, <2>1 DEF StandsForDecision
<1>9. r \notin Consumed /\ r \in Consumed'
    BY <1>2, <1>5, <1>6, <1>7 DEF Consumed
<1>10. MayOrder(r)
    <2>1. request[r].delegation # None => \A a \in Chain(request[r].delegation) : ~hop[a].revoked
        BY <1>1 DEF Ready, ChainAgrees, ChainLive, Live
    <2> QED  BY <1>2, <2>1 DEF MayOrder
<1> QED  BY <1>2, <1>3, <1>7, <1>8, <1>9, <1>10, MovedSound

(* Confirming either moves a pending payment as the new row says, or leaves *)
(* the purchases alone.                                                    *)
LEMMA ConfirmMoves ==
    ASSUME PurchaseInv, HopsStay, NEW r \in Refs, request[r] # None, Confirm(r)
    PROVE  /\ RequestsSound' /\ OthersExplained(r)
           /\ UNCHANGED <<authority, events>>
           /\ \A q \in Refs : q # r => payment'[q] = payment[q]
           /\ IF payment[r].state = "PROVIDER_PENDING" /\ RowAfter(heard[r]) \in {"SUCCESS", "FAILED"}
              THEN /\ payment'[r] # None
                   /\ payment'[r].state =
                         IF RowAfter(heard[r]) = "SUCCESS" THEN "CAPTURED" ELSE "FAILED"
              ELSE payment' = payment
<1> DEFINE s == RowAfter(heard[r])
           moves == payment[r].state = "PROVIDER_PENDING" /\ s \in {"SUCCESS", "FAILED"}
           to == IF s = "SUCCESS" THEN "CAPTURED" ELSE "FAILED"
<1>1. /\ IF moves THEN Transition(r, payment[r], to) ELSE UNCHANGED <<payment, reserved, hop, spend>>
      /\ UNCHANGED <<now, policies, draft, request, approval, authority, events>>
    BY DEF Confirm, policyVars
<1> HIDE DEF s
<1>2. CASE ~moves
    <2>1. \A q \in Refs : Untouched(q)
        BY <1>1, <1>2 DEF Untouched
    <2>2. PurchaseTypes'
        BY <1>1, <1>2 DEF PurchaseInv, PurchaseTypes
    <2>3. \A q \in Refs : Sound(q)'
        BY <2>1, Framed DEF PurchaseInv
    <2>4. OthersExplained(r)
        BY <2>1 DEF OthersExplained, Untouched, Explained
    <2> QED  BY <1>1, <1>2, <2>2, <2>3, <2>4 DEF RequestsSound, s
<1>3. CASE moves
    <2>1. Transition(r, payment[r], to) /\ to \in {"PROVIDER_PENDING", "CAPTURED", "FAILED"}
        BY <1>1, <1>3
    <2>2. payment[r].state = "PROVIDER_PENDING"
        BY <1>3
    <2>3. Sound(r)
        BY DEF PurchaseInv
    <2>4. /\ authority' \in [Refs -> Authority \cup {None}]
          /\ \A q \in Refs : q # r => authority'[q] = authority[q]
          /\ StandsForDecision(r)'
        BY <1>1, <2>3 DEF PurchaseInv, PurchaseTypes, Sound, StandsForDecision
    <2> HIDE DEF to
    <2>5. /\ RequestsSound' /\ OthersExplained(r)
          /\ payment'[r].state = to /\ payment'[r] # None
          /\ \A q \in Refs : q # r => payment'[q] = payment[q]
        BY <1>1, <2>1, <2>2, <2>4, MovedSound
    <2> QED  BY <1>1, <1>3, <2>5 DEF s, to
<1> QED  BY <1>2, <1>3

-----------------------------------------------------------------------------
(* Razorpay's steps that leave the purchases alone. *)

(* They are sound when the adapter's own tables are, and no intent comes or *)
(* goes.                                                                   *)
LEMMA QuietStep ==
    ASSUME RailInv, UNCHANGED <<vars, paytmVars>>, RazorpaySound',
           \A r \in Refs : intent'[r] = None <=> intent[r] = None
    PROVE  RailInv'
<1>1. PurchaseInv'
    BY PurchaseInvStutter DEF RailInv
<1>2. PaytmSound'
    BY DEF RailInv, PaytmSound, PaytmTypeOK, RowSound, AnswerSound, paytmVars, vars
<1>3. \A r \in Refs : Apart(r)'
    BY DEF RailInv, Apart, Consumed, Explained, paytmVars, vars
<1> QED  BY <1>1, <1>2, <1>3 DEF RailInv

(* Audit rows that say nothing of an intent, its order or an event.         *)
Small == Trail \ {"intent_recorded", "created", "reconciled"}

NotedSmall(r) ==
    \/ UNCHANGED trail
    \/ \E k \in Small : Note(r, k)
    \/ \E k, l \in Small : trail' = [trail EXCEPT ![r] = @ \cup {k, l}]

LEMMA SmallNotes ==
    ASSUME RailTypeOK, NEW r \in Refs, NotedSmall(r),
           UNCHANGED <<intent, given, paidAt, events>>
    PROVE  /\ trail' \in [Refs -> SUBSET Trail]
           /\ \A q \in Refs : TrailSound(q) => TrailSound(q)'
<1>1. trail \in [Refs -> SUBSET Trail]
    BY DEF RailTypeOK
<1>2. \E K \in SUBSET Small : trail' = [trail EXCEPT ![r] = @ \cup K]
    <2>1. CASE UNCHANGED trail
        <3>1. trail' = [trail EXCEPT ![r] = @ \cup {}]
            BY <1>1, <2>1
        <3> QED  BY <3>1
    <2>2. CASE \E k \in Small : Note(r, k)
        BY <2>2 DEF Note
    <2>3. CASE \E k, l \in Small : trail' = [trail EXCEPT ![r] = @ \cup {k, l}]
        <3>1. PICK k \in Small, l \in Small : trail' = [trail EXCEPT ![r] = @ \cup {k, l}]
            BY <2>3
        <3>2. {k, l} \in SUBSET Small
            OBVIOUS
        <3> QED  BY <3>1, <3>2
    <2> QED  BY <2>1, <2>2, <2>3 DEF NotedSmall
<1>3. PICK K \in SUBSET Small : trail' = [trail EXCEPT ![r] = @ \cup K]
    BY <1>2
<1>4. trail' \in [Refs -> SUBSET Trail]
    BY <1>1, <1>3 DEF Small
<1>5. ASSUME NEW q \in Refs
      PROVE  \E L \in SUBSET Small : trail'[q] = trail[q] \cup L
    <2>1. CASE q = r
        BY <1>1, <1>3, <2>1
    <2>2. CASE q # r
        <3>1. trail'[q] = trail[q] \cup {}
            BY <1>1, <1>3, <2>2
        <3> QED  BY <3>1
    <2> QED  BY <2>1, <2>2
<1>6. ASSUME NEW q \in Refs, TrailSound(q) PROVE TrailSound(q)'
    <2>1. PICK L \in SUBSET Small : trail'[q] = trail[q] \cup L
        BY <1>5
    <2>2. /\ "intent_recorded" \in trail'[q] <=> "intent_recorded" \in trail[q]
          /\ trail'[q] \cap {"created", "reconciled"} = trail[q] \cap {"created", "reconciled"}
          /\ trail[q] \subseteq trail'[q]
        BY <2>1 DEF Small
    <2> QED  BY <1>6, <2>2 DEF TrailSound
<1> QED  BY <1>4, <1>6

(* A worker that begins or ends something without touching a table.         *)
LEMMA OnlyAttempt ==
    ASSUME RailInv, NEW w \in Workers, NEW r \in Refs, NEW a \in Attempt \cup {None},
           attempt' = [attempt EXCEPT ![w] = a],
           a # None => intent[a.ref] # None /\ a.stage \notin {"placed", "replaced"},
           \A q \in Refs : Counted(q)',
           NotedSmall(r),
           UNCHANGED <<vars, intent, providerVars, given, paytmVars>>
    PROVE  RailInv'
<1>1. UNCHANGED <<intent, orders, late, given, paidAt, events>>
    BY DEF providerVars, vars
<1>2. RailTypeOK /\ \A q \in Refs : IntentSound(q) /\ TrailSound(q)
    BY DEF RailInv, RazorpaySound
<1>3. RailTypeOK'
    BY <1>1, <1>2, SmallNotes DEF RailTypeOK
<1>4. \A q \in Refs : IntentSound(q)' /\ TrailSound(q)'
    BY <1>1, <1>2, SmallNotes DEF IntentSound
<1>5. ASSUME NEW v \in Workers PROVE AttemptSound(v)'
    <2>1. AttemptSound(v)
        BY DEF RailInv, RazorpaySound
    <2>2. CASE v = w
        BY <1>1, <1>2, <2>2 DEF AttemptSound, RailTypeOK
    <2>3. CASE v # w
        BY <1>1, <1>2, <2>1, <2>3 DEF AttemptSound, RailTypeOK
    <2> QED  BY <2>2, <2>3
<1>6. RazorpaySound'
    BY <1>3, <1>4, <1>5 DEF RazorpaySound
<1> QED  BY <1>1, <1>6, QuietStep

(* What a worker under way is about. *)
LEMMA UnderWay ==
    ASSUME RailInv, NEW w \in Workers, attempt[w] # None
    PROVE  /\ attempt[w] \in Attempt /\ Stage(w) = attempt[w].stage
           /\ attempt[w].ref \in Refs
           /\ intent[attempt[w].ref] # None
           /\ attempt[w].order \in OrderIds \cup {None}
           /\ Stage(w) \in {"placed", "replaced"} => attempt[w].order \in OrderIds
           /\ IntentSound(attempt[w].ref) /\ TrailSound(attempt[w].ref)
           /\ AttemptSound(w)
<1>1. attempt[w] \in Attempt /\ AttemptSound(w)
    BY DEF RailInv, RazorpaySound, RailTypeOK
<1> QED  BY <1>1 DEF RailInv, RazorpaySound, AttemptSound, Attempt, Stage

LEMMA StagesAreNotIdle ==
    ASSUME NEW w \in Workers, Stage(w) # "idle"
    PROVE  attempt[w] # None
BY DEF Stage

LEMMA CountsAreNumbers ==
    ASSUME RailInv, NEW r \in Refs
    PROVE  /\ orders[r] \in Nat /\ late[r] \in Nat /\ MaxOrders \in Nat /\ MaxLate \in Nat
           /\ Cardinality(InFlight(r)) \in Nat
           /\ orders[r] <= MaxOrders /\ late[r] <= MaxLate
           /\ Counted(r)
BY InFlightFinite, RailAssumption DEF RailInv, RazorpaySound, RailTypeOK

LEMMA RecoverKeeps ==
    ASSUME RailInv, NEW w \in Workers, NEW r \in Refs, Recover(w, r), UNCHANGED paytmVars
    PROVE  RailInv'
<1> DEFINE a == [ref |-> r, stage |-> "searching", order |-> None]
<1>1. /\ attempt[w] = None /\ intent[r] # None
      /\ attempt' = [attempt EXCEPT ![w] = a]
      /\ UNCHANGED <<vars, intent, providerVars, given, trail>>
    BY DEF Recover, Enters
<1>2. a \in Attempt
    BY DEF Attempt
<1>3. a.ref = r /\ a.stage = "searching"
    OBVIOUS
<1> HIDE DEF a
<1>4. ASSUME NEW q \in Refs PROVE Counted(q)'
    <2>1. InFlight(q)' = InFlight(q)
        BY <1>1, <1>3, StaysOutOfFlight DEF RailInv, RazorpaySound, Stage
    <2> QED  BY <1>1, <2>1, CountsAreNumbers DEF Counted, providerVars
<1> QED  BY <1>1, <1>2, <1>3, <1>4, OnlyAttempt DEF NotedSmall

(* Anything that ends without a result: an ambiguous listing, a failure, a  *)
(* death.                                                                  *)
LEMMA EndsKeeps ==
    ASSUME RailInv, NEW w \in Workers, attempt[w] # None, Ends(w), NotedSmall(attempt[w].ref),
           UNCHANGED <<vars, intent, providerVars, given, paytmVars>>
    PROVE  RailInv'
<1>1. attempt[w].ref \in Refs
    BY UnderWay
<1>2. ASSUME NEW q \in Refs PROVE Counted(q)'
    <2>1. /\ Cardinality(InFlight(q)') <= Cardinality(InFlight(q))
          /\ Cardinality(InFlight(q)') \in Nat
        BY LeavesFlight DEF Ends, RailInv, RazorpaySound
    <2>2. orders'[q] = orders[q] /\ late'[q] = late[q]
        BY DEF providerVars
    <2> QED  BY <2>1, <2>2, CountsAreNumbers DEF Counted
<1> QED  BY <1>1, <1>2, OnlyAttempt DEF Ends

LEMMA FoundSeveralKeeps ==
    ASSUME RailInv, NEW w \in Workers, FoundSeveral(w), UNCHANGED paytmVars
    PROVE  RailInv'
BY EndsKeeps, StagesAreNotIdle DEF FoundSeveral, NotedSmall

LEMMA CrashKeeps ==
    ASSUME RailInv, NEW w \in Workers, Crash(w), UNCHANGED paytmVars
    PROVE  RailInv'
BY EndsKeeps DEF Crash, NotedSmall

LEMMA FailKeeps ==
    ASSUME RailInv, NEW w \in Workers, Fail(w), UNCHANGED paytmVars
    PROVE  RailInv'
<1>1. "creation_failed" \in Small
    BY DEF Small, Trail
<1>2. NotedSmall(attempt[w].ref)
    BY <1>1 DEF Fail, NotedSmall
<1> QED  BY <1>2, EndsKeeps DEF Fail

LEMMA FoundNoneKeeps ==
    ASSUME RailInv, NEW w \in Workers, FoundNone(w), UNCHANGED paytmVars
    PROVE  RailInv'
<1> DEFINE r == attempt[w].ref
           a == [ref |-> r, stage |-> "asking", order |-> None]
<1>1. /\ Stage(w) = "searching" /\ MayAsk(r) /\ Enters(w, r, "asking", None)
      /\ attempt' = [attempt EXCEPT ![w] = a]
      /\ UNCHANGED <<vars, intent, providerVars, given, trail>>
    BY DEF FoundNone, Enters
<1>2. attempt[w] # None /\ r \in Refs /\ intent[r] # None
    BY <1>1, StagesAreNotIdle, UnderWay
<1> HIDE DEF r
<1>3. a \in Attempt /\ a.ref = r /\ a.stage = "asking"
    BY <1>2 DEF Attempt
<1>4. ASSUME NEW q \in Refs PROVE Counted(q)'
    <2>1. Cardinality(InFlight(q)') = Cardinality(InFlight(q)) + IF q = r THEN 1 ELSE 0
        BY <1>1, <1>2, EntersFlight DEF RailInv, RazorpaySound
    <2>2. orders'[q] = orders[q] /\ late'[q] = late[q]
        BY <1>1 DEF providerVars
    <2> QED  BY <1>1, <2>1, <2>2, CountsAreNumbers DEF Counted, MayAsk
<1> HIDE DEF a
<1> QED  BY <1>1, <1>2, <1>3, <1>4, OnlyAttempt DEF NotedSmall

LEMMA PlaceKeeps ==
    ASSUME RailInv, NEW w \in Workers, Place(w), UNCHANGED paytmVars
    PROVE  RailInv'
<1>0. Stage(w) \in {"asked", "asking"} /\ attempt[w] # None /\ attempt[w].ref \in Refs
    BY StagesAreNotIdle, UnderWay DEF Place
<1>r. PICK r \in Refs : r = attempt[w].ref
    BY <1>0
<1> DEFINE n == orders[r] + 1
           s == IF Stage(w) = "asked" THEN "placed" ELSE "replaced"
           a == [ref |-> r, stage |-> s, order |-> n]
<1>1. /\ orders' = [orders EXCEPT ![r] = n]
      /\ attempt' = [attempt EXCEPT ![w] = a]
      /\ UNCHANGED <<vars, intent, late, given, paidAt, trail>>
    BY <1>r DEF Place, Enters
<1>2. intent[r] # None /\ w \in InFlight(r)
    BY <1>0, <1>r, UnderWay DEF InFlight
<1>3. /\ Cardinality(InFlight(r)) \in Nat /\ Cardinality(InFlight(r)) >= 1
      /\ n \in OrderIds
    <2>1. a.stage \notin {"asked", "asking"}
        OBVIOUS
    <2> HIDE DEF a, s
    <2>2. Cardinality(InFlight(r)') + 1 = Cardinality(InFlight(r))
          /\ Cardinality(InFlight(r)') \in Nat
        <3>1. RailTypeOK /\ attempt' = [attempt EXCEPT ![w] = a] /\ w \in InFlight(r)
            BY <1>1, <1>2 DEF RailInv, RazorpaySound
        <3> QED  BY <1>2, <2>1, <3>1, LeavesFlight
    <2>3. orders[r] + late[r] + Cardinality(InFlight(r)) <= MaxOrders
        BY <1>2, CountsAreNumbers DEF Counted
    <2> QED  BY <1>2, <2>2, <2>3, CountsAreNumbers DEF OrderIds
<1>4. /\ a \in Attempt /\ a.ref = r /\ a.stage = s /\ a.order = n
      /\ s \in {"placed", "replaced"} /\ n # None
      /\ a.stage \notin {"asked", "asking"}
    <2>1. a \in Attempt
        BY <1>2, <1>3 DEF Attempt
    <2>2. n # None
        <3>1. None \notin OrderIds
            BY PurchaseAssumption DEF OrderIds
        <3> QED  BY <1>3, <3>1
    <2> QED  BY <2>1, <2>2
<1> HIDE DEF a, s
<1>5. RailTypeOK
    BY DEF RailInv, RazorpaySound
<1>6. ASSUME NEW q \in Refs PROVE Counted(q)'
    <2>1. /\ Cardinality(InFlight(q)') <= Cardinality(InFlight(q))
          /\ q = r => Cardinality(InFlight(q)') + 1 = Cardinality(InFlight(q))
          /\ Cardinality(InFlight(q)') \in Nat
        <3>1. attempt' = [attempt EXCEPT ![w] = a] /\ a.stage \notin {"asked", "asking"}
            BY <1>1, <1>4
        <3> QED  BY <1>2, <1>5, <3>1, LeavesFlight
    <2>2. orders'[q] = (IF q = r THEN n ELSE orders[q]) /\ late'[q] = late[q]
        BY <1>1, <1>5 DEF RailTypeOK
    <2> QED  BY <2>1, <2>2, CountsAreNumbers DEF Counted
<1>7. RailTypeOK'
    <2>1. orders' \in [Refs -> 0 .. MaxOrders]
        <3>1. n \in 0 .. MaxOrders
            BY <1>3, CountsAreNumbers DEF OrderIds
        <3> HIDE DEF n
        <3> QED  BY <1>1, <1>5, <3>1 DEF RailTypeOK
    <2>2. attempt' \in [Workers -> Attempt \cup {None}]
        BY <1>1, <1>4, <1>5 DEF RailTypeOK
    <2> QED  BY <1>1, <1>5, <2>1, <2>2 DEF RailTypeOK, vars
<1>8. ASSUME NEW q \in Refs PROVE IntentSound(q)' /\ TrailSound(q)'
    <2>1. IntentSound(q) /\ TrailSound(q)
        BY DEF RailInv, RazorpaySound
    <2>2. orders'[q] = (IF q = r THEN n ELSE orders[q])
        BY <1>1, <1>5 DEF RailTypeOK
    <2> QED  BY <1>1, <1>2, <2>1, <2>2 DEF IntentSound, TrailSound, vars
<1>9. ASSUME NEW v \in Workers PROVE AttemptSound(v)'
    <2>1. AttemptSound(v)
        BY DEF RailInv, RazorpaySound
    <2> QED  BY <1>1, <1>2, <1>4, <1>5, <2>1 DEF AttemptSound, RailTypeOK
<1>10. RazorpaySound'
    BY <1>6, <1>7, <1>8, <1>9 DEF RazorpaySound
<1> QED  BY <1>1, <1>10, QuietStep

LEMMA GiveUpKeeps ==
    ASSUME RailInv, NEW w \in Workers, GiveUp(w), UNCHANGED paytmVars
    PROVE  RailInv'
<1>0. Stage(w) \in {"asked", "asking"} /\ attempt[w] # None /\ attempt[w].ref \in Refs
    BY StagesAreNotIdle, UnderWay DEF GiveUp
<1>r. PICK r \in Refs : r = attempt[w].ref
    BY <1>0
<1>1. /\ late[r] < MaxLate
      /\ late' = [late EXCEPT ![r] = late[r] + 1]
      /\ attempt' = [attempt EXCEPT ![w] = None]
      /\ Note(r, "creation_failed") \/ UNCHANGED trail
      /\ UNCHANGED <<vars, intent, orders, given, paidAt>>
    BY <1>r DEF GiveUp, Ends
<1>2. intent[r] # None /\ w \in InFlight(r)
    BY <1>0, <1>r, UnderWay DEF InFlight
<1>3. RailTypeOK
    BY DEF RailInv, RazorpaySound
<1>4. NotedSmall(r)
    <2>1. "creation_failed" \in Small
        BY DEF Small, Trail
    <2> QED  BY <1>1, <2>1 DEF NotedSmall
<1>5. ASSUME NEW q \in Refs PROVE Counted(q)'
    <2>1. /\ Cardinality(InFlight(q)') <= Cardinality(InFlight(q))
          /\ q = r => Cardinality(InFlight(q)') + 1 = Cardinality(InFlight(q))
          /\ Cardinality(InFlight(q)') \in Nat
        BY <1>1, <1>2, <1>3, LeavesFlight
    <2>2. late'[q] = (IF q = r THEN late[q] + 1 ELSE late[q]) /\ orders'[q] = orders[q]
        BY <1>1, <1>3 DEF RailTypeOK
    <2> QED  BY <2>1, <2>2, CountsAreNumbers DEF Counted
<1>6. RailTypeOK'
    <2>1. late' \in [Refs -> 0 .. MaxLate]
        BY <1>1, <1>2, <1>3, CountsAreNumbers DEF RailTypeOK
    <2>2. trail' \in [Refs -> SUBSET Trail]
        BY <1>1, <1>2, <1>3, <1>4, SmallNotes DEF vars
    <2> QED  BY <1>1, <1>3, <2>1, <2>2 DEF RailTypeOK, vars
<1>7. ASSUME NEW q \in Refs PROVE IntentSound(q)' /\ TrailSound(q)'
    <2>1. IntentSound(q) /\ TrailSound(q)
        BY DEF RailInv, RazorpaySound
    <2>2. TrailSound(q)'
        BY <1>1, <1>2, <1>3, <1>4, <2>1, SmallNotes DEF vars
    <2>3. q # r => late'[q] = late[q]
        BY <1>1, <1>3 DEF RailTypeOK
    <2> QED  BY <1>1, <1>2, <2>1, <2>2, <2>3 DEF IntentSound
<1>8. ASSUME NEW v \in Workers PROVE AttemptSound(v)'
    <2>1. AttemptSound(v)
        BY DEF RailInv, RazorpaySound
    <2> QED  BY <1>1, <1>3, <2>1 DEF AttemptSound, RailTypeOK
<1>9. RazorpaySound'
    BY <1>5, <1>6, <1>7, <1>8 DEF RazorpaySound
<1> QED  BY <1>1, <1>9, QuietStep

(* Steps of the provider, the shopper and the routes that no worker waits   *)
(* on: nobody's attempt changes.                                           *)
LEMMA NoAttempt ==
    ASSUME RailInv, UNCHANGED <<vars, intent, attempt, paytmVars>>, RailTypeOK',
           \A q \in Refs : IntentSound(q)' /\ TrailSound(q)',
           \A q \in Refs : orders'[q] + late'[q] = orders[q] + late[q]
    PROVE  RailInv'
<1>1. ASSUME NEW q \in Refs PROVE Counted(q)'
    <2>1. InFlight(q)' = InFlight(q)
        BY DEF InFlight, Stage
    <2> QED  BY <2>1, CountsAreNumbers DEF Counted
<1>2. \A v \in Workers : AttemptSound(v)'
    BY DEF RailInv, RazorpaySound, AttemptSound
<1> QED  BY <1>1, <1>2, QuietStep DEF RazorpaySound

LEMMA PlaceLateKeeps ==
    ASSUME RailInv, NEW r \in Refs, PlaceLate(r), UNCHANGED paytmVars
    PROVE  RailInv'
<1>1. /\ late[r] > 0
      /\ orders' = [orders EXCEPT ![r] = orders[r] + 1]
      /\ late' = [late EXCEPT ![r] = late[r] - 1]
      /\ UNCHANGED <<vars, intent, attempt, given, paidAt, trail>>
    BY DEF PlaceLate
<1>2. RailTypeOK
    BY DEF RailInv, RazorpaySound
<1>3. ASSUME NEW q \in Refs
      PROVE  /\ orders'[q] = (IF q = r THEN orders[q] + 1 ELSE orders[q])
             /\ late'[q] = (IF q = r THEN late[q] - 1 ELSE late[q])
    BY <1>1, <1>2 DEF RailTypeOK
<1>4. orders[r] + 1 \in 0 .. MaxOrders /\ late[r] - 1 \in 0 .. MaxLate
    <2>1. orders[r] + late[r] + Cardinality(InFlight(r)) <= MaxOrders
        BY CountsAreNumbers DEF Counted
    <2> QED  BY <1>1, <2>1, CountsAreNumbers
<1>5. RailTypeOK'
    BY <1>1, <1>2, <1>4 DEF RailTypeOK, vars
<1>6. ASSUME NEW q \in Refs PROVE IntentSound(q)' /\ TrailSound(q)'
    <2>1. IntentSound(q) /\ TrailSound(q)
        BY DEF RailInv, RazorpaySound
    <2>2. intent[q] = None => q # r
        BY <1>1, <2>1, CountsAreNumbers DEF IntentSound
    <2> QED  BY <1>1, <1>3, <2>1, <2>2 DEF IntentSound, TrailSound, vars
<1>7. \A q \in Refs : orders'[q] + late'[q] = orders[q] + late[q]
    BY <1>3, CountsAreNumbers
<1> QED  BY <1>1, <1>5, <1>6, <1>7, NoAttempt

LEMMA AnswerFromRowKeeps ==
    ASSUME RailInv, NEW r \in Refs, AnswerFromRow(r), UNCHANGED paytmVars
    PROVE  RailInv'
<1>1. /\ intent[r] # None /\ intent[r].state = "CONFIRMED"
      /\ given' = [given EXCEPT ![r] = given[r] \cup {intent[r].order}]
      /\ UNCHANGED <<vars, intent, attempt, orders, late, paidAt, trail>>
    BY DEF AnswerFromRow, providerVars
<1>2. RailTypeOK
    BY DEF RailInv, RazorpaySound
<1>3. intent[r].order \in OrderIds
    <2>1. intent[r] \in Intent
        BY <1>1, <1>2 DEF RailTypeOK
    <2> QED  BY <1>1, <2>1 DEF Intent
<1>4. RailTypeOK'
    BY <1>1, <1>2, <1>3 DEF RailTypeOK, vars
<1>5. ASSUME NEW q \in Refs PROVE IntentSound(q)' /\ TrailSound(q)'
    <2>1. IntentSound(q) /\ TrailSound(q)
        BY DEF RailInv, RazorpaySound
    <2>2. given[q] \subseteq given'[q] /\ (q # r => given'[q] = given[q])
        BY <1>1, <1>2 DEF RailTypeOK
    <2> QED  BY <1>1, <2>1, <2>2 DEF IntentSound, TrailSound, vars
<1> QED  BY <1>1, <1>4, <1>5, NoAttempt

LEMMA PayKeeps ==
    ASSUME RailInv, NEW r \in Refs, NEW o \in OrderIds, Pay(r, o), UNCHANGED paytmVars
    PROVE  RailInv'
<1>1. /\ o \in given[r] /\ paidAt[r][o] = None
      /\ paidAt' = [paidAt EXCEPT ![r] = [paidAt[r] EXCEPT ![o] = now]]
      /\ UNCHANGED <<vars, intent, attempt, orders, late, given, trail>>
    BY DEF Pay
<1>2. RailTypeOK /\ now \in Times /\ now # None
    BY ClockTypes, PoliciesAssumption, PurchaseAssumption DEF RailInv, RazorpaySound
<1>3. paidAt[r] \in [OrderIds -> Times \cup {None}]
    BY <1>2 DEF RailTypeOK
<1>4. [paidAt[r] EXCEPT ![o] = now] \in [OrderIds -> Times \cup {None}]
    BY <1>2, <1>3
<1>5. RailTypeOK'
    BY <1>1, <1>2, <1>4 DEF RailTypeOK, vars
<1>6. ASSUME NEW q \in Refs PROVE IntentSound(q)' /\ TrailSound(q)'
    <2>1. IntentSound(q) /\ TrailSound(q)
        BY DEF RailInv, RazorpaySound
    <2>2. q # r => paidAt'[q] = paidAt[q]
        BY <1>1, <1>2 DEF RailTypeOK
    <2>3. \A x \in OrderIds : paidAt'[r][x] = IF x = o THEN now ELSE paidAt[r][x]
        BY <1>1, <1>2, <1>3 DEF RailTypeOK
    <2>4. given[q] \subseteq OrderIds
        BY <1>2 DEF RailTypeOK
    <2> QED  BY <1>1, <1>2, <2>1, <2>2, <2>3, <2>4 DEF IntentSound, TrailSound, vars
<1> QED  BY <1>1, <1>5, <1>6, NoAttempt

(* Callbacks, failed attempts and refused webhooks are only written down.   *)
LEMMA OnlyTrail ==
    ASSUME RailInv, NEW r \in Refs, NotedSmall(r),
           UNCHANGED <<vars, intent, attempt, providerVars, given, paytmVars>>
    PROVE  RailInv'
<1>1. UNCHANGED <<vars, events, orders, late, paidAt>>
    BY DEF providerVars, vars
<1>2. RailTypeOK /\ \A q \in Refs : IntentSound(q) /\ TrailSound(q)
    BY DEF RailInv, RazorpaySound
<1>3. RailTypeOK'
    BY <1>1, <1>2, SmallNotes DEF RailTypeOK
<1>4. \A q \in Refs : IntentSound(q)' /\ TrailSound(q)'
    BY <1>1, <1>2, SmallNotes DEF IntentSound
<1> QED  BY <1>1, <1>3, <1>4, NoAttempt

LEMMA WrittenDownKeeps ==
    ASSUME RailInv, NEW r \in Refs, NEW o \in OrderIds, NEW k \in News,
           Callback(r, o) \/ AttemptFailed(r, o) \/ WebhookRefused(r, o, k),
           UNCHANGED paytmVars
    PROVE  RailInv'
<1>1. /\ "callback_verified" \in Small /\ "attempt_failed" \in Small
      /\ "webhook_verified" \in Small /\ "webhook_rejected" \in Small
    BY DEF Small, Trail
<1>2. NotedSmall(r)
    BY <1>1 DEF NotedSmall, Callback, AttemptFailed, WebhookRefused
<1>3. UNCHANGED <<vars, intent, attempt, providerVars, given>>
    BY DEF Callback, AttemptFailed, WebhookRefused
<1> QED  BY <1>2, <1>3, OnlyTrail

(* The order is known: the row, the answer and the audit row say so at once.*)
LEMMA ConfirmedKeeps ==
    ASSUME RailInv, NEW w \in Workers, attempt[w] # None, NEW r \in Refs, r = attempt[w].ref,
           NEW o \in OrderIds, NEW k \in {"created", "reconciled"},
           Confirmed(r, o), Note(r, k), Ends(w),
           UNCHANGED <<vars, providerVars, paytmVars>>
    PROVE  RailInv'
<1> DEFINE row == [state |-> "CONFIRMED", order |-> o]
<1>1. /\ intent' = [intent EXCEPT ![r] = row]
      /\ given' = [given EXCEPT ![r] = given[r] \cup {o}]
      /\ trail' = [trail EXCEPT ![r] = trail[r] \cup {k}]
      /\ attempt' = [attempt EXCEPT ![w] = None]
      /\ UNCHANGED <<vars, events, orders, late, paidAt, paytmVars>>
    BY DEF Confirmed, Note, Ends, providerVars, vars
<1>2. row \in Intent /\ row # None /\ row.state = "CONFIRMED"
    <2>1. o # None
        BY PurchaseAssumption DEF OrderIds
    <2>2. row \in Intent
        BY <2>1 DEF Intent
    <2> QED  BY <2>2, RailAssumption
<1> HIDE DEF row
<1>3. RailTypeOK /\ intent[r] # None
    BY UnderWay DEF RailInv, RazorpaySound
<1>4. RailTypeOK'
    <2>1. trail' \in [Refs -> SUBSET Trail]
        BY <1>1, <1>3 DEF RailTypeOK, Trail
    <2> QED  BY <1>1, <1>2, <1>3, <2>1 DEF RailTypeOK, vars
<1>5. ASSUME NEW q \in Refs PROVE Counted(q)'
    <2>1. /\ Cardinality(InFlight(q)') <= Cardinality(InFlight(q))
          /\ Cardinality(InFlight(q)') \in Nat
        BY <1>1, <1>3, LeavesFlight
    <2> QED  BY <1>1, <2>1, CountsAreNumbers DEF Counted
<1>6. ASSUME NEW q \in Refs PROVE IntentSound(q)' /\ TrailSound(q)'
    <2>1. IntentSound(q) /\ TrailSound(q)
        BY DEF RailInv, RazorpaySound
    <2>2. CASE q # r
        <3>1. intent'[q] = intent[q] /\ given'[q] = given[q] /\ trail'[q] = trail[q]
            BY <1>1, <1>3, <2>2 DEF RailTypeOK
        <3> QED  BY <1>1, <2>1, <3>1 DEF IntentSound, TrailSound
    <2>3. CASE q = r
        <3>1. intent'[q] = row /\ given[q] \subseteq given'[q] /\ trail'[q] = trail[q] \cup {k}
            BY <1>1, <1>3, <2>3 DEF RailTypeOK
        <3> QED  BY <1>1, <1>2, <1>3, <2>1, <2>3, <3>1 DEF IntentSound, TrailSound
    <2> QED  BY <2>2, <2>3
<1>7. ASSUME NEW v \in Workers PROVE AttemptSound(v)'
    <2>1. AttemptSound(v)
        BY DEF RailInv, RazorpaySound
    <2>2. attempt'[v] = None \/ (attempt'[v] = attempt[v] /\ attempt[v] \in Attempt)
        BY <1>1, <1>3 DEF RailTypeOK
    <2> QED  BY <1>1, <1>2, <1>3, <2>1, <2>2 DEF AttemptSound, RailTypeOK
<1>8. RazorpaySound'
    BY <1>4, <1>5, <1>6, <1>7 DEF RazorpaySound
<1>9. \A q \in Refs : intent'[q] = None <=> intent[q] = None
    BY <1>1, <1>2, <1>3 DEF RailTypeOK
<1> QED  BY <1>1, <1>8, <1>9, QuietStep

LEMMA FoundOneKeeps ==
    ASSUME RailInv, NEW w \in Workers, FoundOne(w), UNCHANGED paytmVars
    PROVE  RailInv'
<1>1. attempt[w] # None /\ attempt[w].ref \in Refs
    BY StagesAreNotIdle, UnderWay DEF FoundOne
<1>2. PICK r \in Refs : r = attempt[w].ref
    BY <1>1
<1>3. orders[r] = 1 /\ Confirmed(r, 1) /\ Note(r, "reconciled") /\ Ends(w)
      /\ UNCHANGED <<vars, providerVars>>
    BY <1>2 DEF FoundOne
<1>4. 1 \in OrderIds
    BY <1>3, CountsAreNumbers DEF OrderIds
<1> QED  BY <1>1, <1>2, <1>3, <1>4, ConfirmedKeeps

LEMMA RecordKeeps ==
    ASSUME RailInv, NEW w \in Workers, Record(w), UNCHANGED paytmVars
    PROVE  RailInv'
<1>1. attempt[w] # None /\ attempt[w].ref \in Refs /\ attempt[w].order \in OrderIds
    BY StagesAreNotIdle, UnderWay DEF Record
<1>2. PICK r \in Refs, o \in OrderIds : r = attempt[w].ref /\ o = attempt[w].order
    BY <1>1
<1>3. Confirmed(r, o) /\ Note(r, "created") /\ Ends(w) /\ UNCHANGED <<vars, providerVars>>
    BY <1>2 DEF Record
<1> QED  BY <1>1, <1>2, <1>3, ConfirmedKeeps

-----------------------------------------------------------------------------
(* Razorpay's steps that act on a purchase: each is one of its actions.     *)

LEMMA ConsumptionFrames ==
    ASSUME PurchaseInv, NEW r \in Refs, ConsumeAuthority(r)
    PROVE  /\ PurchaseInv' /\ StoryKept
           /\ r \notin Consumed /\ Consumed' = Consumed \cup {r}
           /\ UNCHANGED <<payment, events>>
<1>1. PurchaseInv' /\ StoryKept
    BY PurchaseInvStep DEF Next
<1>2. /\ authority[r] # None /\ ~authority[r].used
      /\ authority' = [authority EXCEPT ![r] = [authority[r] EXCEPT !.used = TRUE]]
      /\ UNCHANGED <<payment, events>>
    BY DEF ConsumeAuthority
<1>3. authority \in [Refs -> Authority \cup {None}] /\ authority[r] \in Authority
    BY <1>2, RowTypes DEF PurchaseInv, PurchaseTypes
<1>4. [authority[r] EXCEPT !.used = TRUE] \in Authority
      /\ [authority[r] EXCEPT !.used = TRUE].used
    BY <1>3 DEF Authority
<1>5. authority'[r] # None /\ authority'[r].used
      /\ \A q \in Refs : q # r => authority'[q] = authority[q]
    BY <1>2, <1>3, <1>4, PurchaseAssumption
<1> QED  BY <1>1, <1>2, <1>5 DEF Consumed

LEMMA CreateOrderKeeps ==
    ASSUME RailInv, NEW w \in Workers, NEW r \in Refs, CreateOrder(w, r), UNCHANGED paytmVars
    PROVE  RailInv'
<1> DEFINE row == [state |-> "PENDING", order |-> None]
           a == [ref |-> r, stage |-> "asked", order |-> None]
<1>1. /\ attempt[w] = None /\ intent[r] = None /\ MayAsk(r) /\ ConsumeAuthority(r)
      /\ intent' = [intent EXCEPT ![r] = row]
      /\ Enters(w, r, "asked", None)
      /\ attempt' = [attempt EXCEPT ![w] = a]
      /\ trail' = [trail EXCEPT ![r] = trail[r] \cup {"intent_recorded"}]
      /\ UNCHANGED <<orders, late, given, paidAt>>
    BY DEF CreateOrder, Enters, Note, providerVars
<1>2. row \in Intent /\ row # None /\ row.state = "PENDING"
    <2>1. row \in Intent
        BY DEF Intent
    <2> QED  BY <2>1, RailAssumption
<1>3. a \in Attempt /\ a.ref = r /\ a.stage = "asked"
    BY DEF Attempt
<1> HIDE DEF row, a
<1>4. RailTypeOK /\ PurchaseInv
    BY DEF RailInv, RazorpaySound
<1>5. /\ PurchaseInv' /\ StoryKept
      /\ r \notin Consumed /\ Consumed' = Consumed \cup {r}
      /\ UNCHANGED <<payment, events>>
    BY <1>1, <1>4, ConsumptionFrames
<1>6. RailTypeOK'
    <2>1. trail' \in [Refs -> SUBSET Trail]
        BY <1>1, <1>4 DEF RailTypeOK, Trail
    <2>2. UNCHANGED Times
        BY DEF Times
    <2> QED  BY <1>1, <1>2, <1>3, <1>4, <2>1, <2>2 DEF RailTypeOK
<1>7. ASSUME NEW q \in Refs PROVE Counted(q)'
    <2>1. Cardinality(InFlight(q)') = Cardinality(InFlight(q)) + IF q = r THEN 1 ELSE 0
        BY <1>1, <1>4, EntersFlight DEF Stage
    <2> QED  BY <1>1, <2>1, CountsAreNumbers DEF Counted, MayAsk
<1>8. ASSUME NEW q \in Refs PROVE IntentSound(q)' /\ TrailSound(q)'
    <2>1. IntentSound(q) /\ TrailSound(q)
        BY DEF RailInv, RazorpaySound
    <2>2. CASE q # r
        <3>1. intent'[q] = intent[q] /\ trail'[q] = trail[q]
            BY <1>1, <1>4, <2>2 DEF RailTypeOK
        <3> QED  BY <1>1, <1>5, <2>1, <3>1 DEF IntentSound, TrailSound
    <2>3. CASE q = r
        <3>1. intent'[q] = row /\ trail'[q] = trail[q] \cup {"intent_recorded"}
            BY <1>1, <1>4, <2>3 DEF RailTypeOK
        <3>2. IntentSound(q)'
            BY <1>1, <1>2, <2>1, <3>1 DEF IntentSound
        <3>3. TrailSound(q)'
            BY <1>1, <1>2, <1>5, <2>1, <2>3, <3>1 DEF TrailSound
        <3> QED  BY <3>2, <3>3
    <2> QED  BY <2>2, <2>3
<1>9. ASSUME NEW v \in Workers PROVE AttemptSound(v)'
    <2>1. AttemptSound(v)
        BY DEF RailInv, RazorpaySound
    <2>2. CASE v = w
        <3>1. attempt'[v] = a /\ intent'[r] = row
            BY <1>1, <1>4, <2>2 DEF RailTypeOK
        <3> QED  BY <1>2, <1>3, <3>1 DEF AttemptSound
    <2>3. CASE v # w
        <3>1. attempt'[v] = attempt[v] /\ attempt[v] \in Attempt \cup {None}
            BY <1>1, <1>4, <2>3 DEF RailTypeOK
        <3>2. \A q \in Refs : intent[q] # None => intent'[q] # None
            BY <1>1, <1>2, <1>4 DEF RailTypeOK
        <3> QED  BY <2>1, <3>1, <3>2 DEF AttemptSound, Attempt
    <2> QED  BY <2>2, <2>3
<1>10. RazorpaySound'
    BY <1>6, <1>7, <1>8, <1>9 DEF RazorpaySound
<1>11. paytm[r] = None
    BY <1>5 DEF RailInv, Apart
<1>12. PaytmSound'
    BY <1>5 DEF RailInv, PaytmSound, PaytmTypeOK, RowSound, AnswerSound, paytmVars
<1>13. ASSUME NEW q \in Refs PROVE Apart(q)'
    <2>1. Apart(q) /\ paytm' = paytm
        BY DEF RailInv, paytmVars
    <2>2. intent'[q] = IF q = r THEN row ELSE intent[q]
        BY <1>1, <1>4 DEF RailTypeOK
    <2> QED  BY <1>2, <1>5, <1>11, <2>1, <2>2 DEF Apart, StoryKept
<1> QED  BY <1>5, <1>10, <1>12, <1>13 DEF RailInv

LEMMA EventFrames ==
    ASSUME PurchaseInv, NEW r \in Refs, NEW k \in Kinds, ProviderEvent(r, k)
    PROVE  /\ PurchaseInv' /\ StoryKept
           /\ Consumed' = Consumed
           /\ \A q \in Refs : q # r => payment'[q] = payment[q] /\ events'[q] = events[q]
<1>1. PurchaseInv' /\ StoryKept
    BY PurchaseInvStep DEF Next
<1>2. authority' = authority
    BY DEF ProviderEvent
<1>3. /\ payment \in [Refs -> Payment \cup {None}] /\ events \in [Refs -> SUBSET Kinds]
      /\ \E p : payment' = [payment EXCEPT ![r] = p]
      /\ events' = [events EXCEPT ![r] = events[r] \cup {k}]
    BY DEF PurchaseInv, PurchaseTypes, ProviderEvent, Transition
<1> QED  BY <1>1, <1>2, <1>3 DEF Consumed

LEMMA WebhookKeeps ==
    ASSUME RailInv, NEW r \in Refs, NEW o \in OrderIds, NEW k \in News, Webhook(r, o, k),
           UNCHANGED paytmVars
    PROVE  RailInv'
<1>1. /\ paidAt[r][o] # None /\ intent[r] # None /\ ProviderEvent(r, k)
      /\ trail' = [trail EXCEPT ![r] = trail[r] \cup {"webhook_verified"}]
      /\ UNCHANGED <<intent, attempt, orders, late, paidAt, given>>
    BY DEF Webhook, Known, Note, providerVars
<1>2. RailTypeOK /\ PurchaseInv
    BY DEF RailInv, RazorpaySound
<1>3. k \in Kinds
    BY DEF News, Kinds
<1>4. /\ PurchaseInv' /\ StoryKept /\ Consumed' = Consumed
      /\ \A q \in Refs : q # r => payment'[q] = payment[q] /\ events'[q] = events[q]
    BY <1>1, <1>2, <1>3, EventFrames
<1>5. RailTypeOK'
    <2>1. trail' \in [Refs -> SUBSET Trail]
        BY <1>1, <1>2 DEF RailTypeOK, Trail
    <2>2. UNCHANGED Times
        BY DEF Times
    <2> QED  BY <1>1, <1>2, <2>1, <2>2 DEF RailTypeOK
<1>6. ASSUME NEW q \in Refs PROVE Counted(q)'
    <2>1. InFlight(q)' = InFlight(q)
        BY <1>1 DEF InFlight, Stage
    <2> QED  BY <1>1, <2>1, CountsAreNumbers DEF Counted
<1>7. ASSUME NEW q \in Refs PROVE IntentSound(q)' /\ TrailSound(q)'
    <2>1. IntentSound(q) /\ TrailSound(q)
        BY DEF RailInv, RazorpaySound
    <2>2. IntentSound(q)'
        BY <1>1, <2>1 DEF IntentSound
    <2>3. CASE q # r
        <3>1. trail'[q] = trail[q] /\ events'[q] = events[q]
            BY <1>1, <1>2, <1>4, <2>3 DEF RailTypeOK
        <3> QED  BY <1>1, <2>1, <2>2, <3>1 DEF TrailSound
    <2>4. CASE q = r
        <3>1. trail'[q] = trail[q] \cup {"webhook_verified"} /\ o \in given[q]
            BY <1>1, <1>2, <2>1, <2>4 DEF RailTypeOK, IntentSound
        <3> QED  BY <1>1, <2>1, <2>2, <2>4, <3>1 DEF TrailSound
    <2> QED  BY <2>3, <2>4
<1>8. \A v \in Workers : AttemptSound(v)'
    BY <1>1 DEF RailInv, RazorpaySound, AttemptSound
<1>9. RazorpaySound'
    BY <1>5, <1>6, <1>7, <1>8 DEF RazorpaySound
<1>10. paytm[r] = None
    BY <1>1 DEF RailInv, Apart
<1>11. PaytmSound'
    <2>1. ASSUME NEW q \in Refs PROVE RowSound(q)' /\ AnswerSound(q)'
        <3>1. RowSound(q) /\ AnswerSound(q)
            BY DEF RailInv, PaytmSound
        <3> QED  BY <1>4, <1>10, <3>1 DEF RowSound, AnswerSound, paytmVars
    <2> QED  BY <2>1 DEF RailInv, PaytmSound, PaytmTypeOK, paytmVars
<1>12. \A q \in Refs : Apart(q)'
    BY <1>1, <1>4 DEF RailInv, Apart, StoryKept, paytmVars
<1> QED  BY <1>4, <1>9, <1>11, <1>12 DEF RailInv

-----------------------------------------------------------------------------
(* Paytm's steps.  None of them touches what Razorpay has.                  *)

LEMMA RazorpayFrame ==
    ASSUME RazorpaySound, UNCHANGED <<railVars, events>>
    PROVE  RazorpaySound'
<1>1. UNCHANGED <<intent, attempt, orders, late, given, paidAt, trail, events>>
    BY DEF railVars
<1>2. RailTypeOK'
    <2>1. UNCHANGED Times
        BY DEF Times
    <2> QED  BY <1>1, <2>1 DEF RazorpaySound, RailTypeOK
<1>3. ASSUME NEW r \in Refs PROVE IntentSound(r)' /\ TrailSound(r)' /\ Counted(r)'
    <2>1. InFlight(r)' = InFlight(r)
        BY <1>1 DEF InFlight, Stage
    <2>2. IntentSound(r)'
        BY <1>1 DEF RazorpaySound, IntentSound
    <2>3. TrailSound(r)'
        BY <1>1 DEF RazorpaySound, TrailSound
    <2>4. Counted(r)'
        BY <1>1, <2>1 DEF RazorpaySound, Counted
    <2> QED  BY <2>2, <2>3, <2>4
<1>4. \A w \in Workers : AttemptSound(w)'
    BY <1>1 DEF RazorpaySound, AttemptSound
<1> QED  BY <1>2, <1>3, <1>4 DEF RazorpaySound

(* What the gateway does, and what is asked of it, writes no row.           *)
LEMMA GatewayOnly ==
    ASSUME RailInv, UNCHANGED <<vars, railVars, paytm, agrees>>, charged \subseteq charged',
           PaytmTypeOK', \A r \in Refs : AnswerSound(r)'
    PROVE  RailInv'
<1>1. PurchaseInv'
    BY PurchaseInvStutter DEF RailInv
<1>2. RazorpaySound'
    BY RazorpayFrame DEF RailInv, vars
<1>3. ASSUME NEW r \in Refs PROVE RowSound(r)'
    <2>1. RowSound(r) /\ UNCHANGED <<payment, paytm, agrees>>
        BY DEF RailInv, PaytmSound, vars
    <2> QED  BY <2>1 DEF RowSound
<1>4. ASSUME NEW r \in Refs PROVE Apart(r)'
    <2>1. Apart(r) /\ UNCHANGED <<paytm, intent, authority, payment, events, request>>
        BY DEF RailInv, vars, railVars
    <2> QED  BY <2>1 DEF Apart, Consumed, Explained
<1> QED  BY <1>1, <1>2, <1>3, <1>4 DEF RailInv, PaytmSound

LEMMA StartLostKeeps ==
    ASSUME RailInv, NEW r \in Refs, StartLost(r), UNCHANGED railVars
    PROVE  RailInv'
<1>1. opened[r] < MaxOpened /\ opened' = [opened EXCEPT ![r] = opened[r] + 1]
      /\ UNCHANGED <<vars, paytm, gateway, checks, agrees, heard, charged>>
    BY DEF StartLost
<1>2. PaytmTypeOK'
    BY <1>1, PaytmAssumption DEF RailInv, PaytmSound, PaytmTypeOK
<1>3. \A q \in Refs : AnswerSound(q)'
    BY <1>1 DEF RailInv, PaytmSound, AnswerSound
<1> QED  BY <1>1, <1>2, <1>3, GatewayOnly

LEMMA CompleteKeeps ==
    ASSUME RailInv, NEW r \in Refs, NEW outcome \in Outcomes, Complete(r, outcome),
           UNCHANGED railVars
    PROVE  RailInv'
<1>1. paytm[r] # None /\ gateway' = [gateway EXCEPT ![r] = outcome]
      /\ charged \subseteq charged' /\ charged' \subseteq charged \cup {r}
      /\ UNCHANGED <<vars, paytm, opened, checks, agrees, heard>>
    BY DEF Complete
<1>2. PaytmTypeOK'
    BY <1>1 DEF RailInv, PaytmSound, PaytmTypeOK
<1>3. \A q \in Refs : AnswerSound(q)'
    BY <1>1 DEF RailInv, PaytmSound, AnswerSound
<1> QED  BY <1>1, <1>2, <1>3, GatewayOnly

LEMMA RestartKeeps ==
    ASSUME RailInv, Restart, UNCHANGED railVars
    PROVE  RailInv'
<1>1. gateway' = [r \in Refs |-> None]
      /\ UNCHANGED <<vars, paytm, opened, checks, agrees, heard, charged>>
    BY DEF Restart
<1>2. PaytmTypeOK'
    BY <1>1 DEF RailInv, PaytmSound, PaytmTypeOK
<1>3. \A q \in Refs : AnswerSound(q)'
    BY <1>1 DEF RailInv, PaytmSound, AnswerSound
<1> QED  BY <1>1, <1>2, <1>3, GatewayOnly

LEMMA AskGatewayKeeps ==
    ASSUME RailInv, NEW r \in Refs, AskGateway(r), UNCHANGED railVars
    PROVE  RailInv'
<1> DEFINE said == [result |-> ResultOf(OrderStatus(r)), agrees |-> agrees[r]]
<1>1. /\ paytm[r] # None /\ paytm[r].status # "SUCCESS"
      /\ heard' = [heard EXCEPT ![r] = said]
      /\ gateway' = [gateway EXCEPT ![r] = OrderStatus(r)]
      /\ checks' = IF gateway[r] = "PENDING" THEN [checks EXCEPT ![r] = 1] ELSE checks
      /\ charged' = IF OrderStatus(r) = "TXN_SUCCESS" THEN charged \cup {r} ELSE charged
      /\ UNCHANGED <<vars, paytm, opened, agrees>>
    BY DEF AskGateway
<1>2. PaytmTypeOK
    BY DEF RailInv, PaytmSound
<1>3. OrderStatus(r) \in Outcomes \cup {"CREATED", None}
    BY <1>2 DEF OrderStatus, Outcomes, PaytmTypeOK
<1>4. /\ ResultOf(OrderStatus(r)) \in Outcomes
      /\ ResultOf(OrderStatus(r)) = "TXN_SUCCESS" => OrderStatus(r) = "TXN_SUCCESS"
    BY <1>3 DEF ResultOf, Outcomes
<1>5. said \in Answer /\ said.agrees = agrees[r] /\ said.result = ResultOf(OrderStatus(r))
    BY <1>2, <1>4 DEF Answer, PaytmTypeOK
<1> HIDE DEF said
<1>6. charged \subseteq charged' /\ charged' \subseteq charged \cup {r}
    BY <1>1
<1>7. PaytmTypeOK'
    <2>1. checks' \in [Refs -> 0 .. 1]
        BY <1>1, <1>2 DEF PaytmTypeOK
    <2> QED  BY <1>1, <1>2, <1>3, <1>5, <1>6, <2>1 DEF PaytmTypeOK
<1>8. ASSUME NEW q \in Refs PROVE AnswerSound(q)'
    <2>1. AnswerSound(q)
        BY DEF RailInv, PaytmSound
    <2>2. CASE q # r
        <3>1. heard'[q] = heard[q]
            BY <1>1, <1>2, <2>2 DEF PaytmTypeOK
        <3> QED  BY <1>1, <1>6, <2>1, <2>2, <3>1 DEF AnswerSound
    <2>3. CASE q = r
        <3>1. heard'[q] = said
            BY <1>1, <1>2, <2>3 DEF PaytmTypeOK
        <3> QED  BY <1>1, <1>4, <1>5, <2>3, <3>1 DEF AnswerSound
    <2> QED  BY <2>2, <2>3
<1> QED  BY <1>1, <1>6, <1>7, <1>8, GatewayOnly

LEMMA ConfirmLostKeeps ==
    ASSUME RailInv, NEW r \in Refs, ConfirmLost(r), UNCHANGED railVars
    PROVE  RailInv'
<1>1. heard' = [heard EXCEPT ![r] = None]
      /\ UNCHANGED <<vars, paytm, opened, gateway, checks, agrees, charged>>
    BY DEF ConfirmLost
<1>2. PaytmTypeOK'
    BY <1>1 DEF RailInv, PaytmSound, PaytmTypeOK
<1>3. \A q \in Refs : AnswerSound(q)'
    BY <1>1 DEF RailInv, PaytmSound, PaytmTypeOK, AnswerSound
<1> QED  BY <1>1, <1>2, <1>3, GatewayOnly

(* What a row that is about to be written says of its purchase.             *)
LEMMA RowsAreOfPurchases ==
    ASSUME RailInv, NEW r \in Refs, paytm[r] # None
    PROVE  payment[r] # None /\ request[r] # None /\ intent[r] = None
<1>1. payment[r] # None /\ intent[r] = None
    BY DEF RailInv, PaytmSound, RowSound, Apart
<1> QED  BY <1>1 DEF RailInv, PurchaseInv, Sound, KeyFresh

LEMMA StartPaymentKeeps ==
    ASSUME RailInv, NEW r \in Refs, StartPayment(r), UNCHANGED railVars
    PROVE  RailInv' /\ MayOrder(r)
<1> DEFINE row == [order |-> opened[r] + 1, status |-> "CREATED"]
<1>1. /\ opened[r] < MaxOpened
      /\ Transition(r, payment[r], "PROVIDER_PENDING")
      /\ opened' = [opened EXCEPT ![r] = opened[r] + 1]
      /\ paytm' = [paytm EXCEPT ![r] = row]
      /\ gateway' = [gateway EXCEPT ![r] = "CREATED"]
      /\ UNCHANGED <<policyVars, checks, heard, charged>>
    BY DEF StartPayment
<1>2. PICK a \in Agreements : agrees' = [agrees EXCEPT ![r] = a]
    BY DEF StartPayment
<1>3. PaytmTypeOK /\ PurchaseInv /\ RazorpaySound
    BY DEF RailInv, PaytmSound
<1>4. row \in Row /\ row.status = "CREATED" /\ row # None
    <2>1. row \in Row
        BY <1>1, <1>3, PaytmAssumption DEF Row, PaytmTypeOK, GatewayOrders
    <2> QED  BY <2>1, PaytmAssumption
<1> HIDE DEF row
<1>5. ChainInv' /\ HopsStay
    BY <1>1, <1>3, TransitionIsRelease, ChainStepKeeps DEF PurchaseInv
<1>6. /\ RequestsSound' /\ OthersExplained(r) /\ MayOrder(r)
      /\ r \notin Consumed /\ r \in Consumed'
      /\ \A q \in Refs : q # r => authority'[q] = authority[q] /\ payment'[q] = payment[q]
      /\ payment'[r].state = "PROVIDER_PENDING" /\ payment'[r] # None
      /\ UNCHANGED events
    BY <1>3, <1>5, StartPaymentMoves
<1>7. PurchaseInv'
    BY <1>5, <1>6 DEF RequestsSound, PurchaseInv
<1>8. RazorpaySound'
    BY <1>3, <1>6, RazorpayFrame
<1>9. intent[r] = None /\ paytm[r] = None
    BY <1>6 DEF RailInv, Apart
<1>10. PaytmTypeOK'
    <2>1. opened' \in [Refs -> 0 .. MaxOpened]
        BY <1>1, <1>3, PaytmAssumption DEF PaytmTypeOK
    <2>2. agrees' \in [Refs -> BOOLEAN]
        BY <1>2, <1>3, PaytmAssumption DEF PaytmTypeOK
    <2> QED  BY <1>1, <1>3, <1>4, <2>1, <2>2 DEF PaytmTypeOK
<1>11. ASSUME NEW q \in Refs PROVE RowSound(q)' /\ AnswerSound(q)' /\ Apart(q)'
    <2>1. RowSound(q) /\ AnswerSound(q) /\ Apart(q) /\ UNCHANGED <<intent, heard, charged>>
        BY <1>1 DEF RailInv, PaytmSound, railVars
    <2>2. CASE q # r
        <3>1. paytm'[q] = paytm[q] /\ agrees'[q] = agrees[q] /\ authority'[q] = authority[q]
              /\ payment'[q] = payment[q] /\ (Explained(q) => Explained(q)')
            BY <1>1, <1>2, <1>3, <1>6, <2>2 DEF PaytmTypeOK, OthersExplained
        <3>2. RowSound(q)'
            BY <2>1, <3>1 DEF RowSound
        <3>3. AnswerSound(q)'
            BY <2>1, <3>1 DEF AnswerSound
        <3>4. Apart(q)'
            BY <2>1, <3>1 DEF Apart, Consumed
        <3> QED  BY <3>2, <3>3, <3>4
    <2>3. CASE q = r
        <3>1. paytm'[q] = row
            BY <1>1, <1>3, <2>3 DEF PaytmTypeOK
        <3>2. RowSound(q)'
            BY <1>4, <1>6, <2>3, <3>1 DEF RowSound
        <3>3. AnswerSound(q)'
            BY <1>4, <1>9, <2>1, <2>3, <3>1 DEF AnswerSound
        <3>4. Apart(q)'
            BY <1>4, <1>6, <1>9, <2>1, <2>3, <3>1 DEF Apart
        <3> QED  BY <3>2, <3>3, <3>4
    <2> QED  BY <2>2, <2>3
<1> QED  BY <1>6, <1>7, <1>8, <1>10, <1>11 DEF RailInv, PaytmSound

(* Confirming writes a status the answer justifies, on a row that is not    *)
(* successful yet.                                                         *)
LEMMA RowWritten ==
    ASSUME RailInv, NEW r \in Refs, Confirm(r)
    PROVE  /\ paytm[r] # None /\ paytm'[r] # None /\ paytm' \in [Refs -> Row \cup {None}]
           /\ paytm'[r].order = paytm[r].order
           /\ paytm'[r].status = RowAfter(heard[r])
           /\ RowAfter(heard[r]) \in {"PENDING", "SUCCESS", "FAILED", "MISMATCH"}
           /\ RowAfter(heard[r]) = "SUCCESS" => r \in charged /\ agrees[r]
           /\ payment[r].state \in {"PROVIDER_PENDING", "FAILED"}
           /\ \A q \in Refs : q # r => paytm'[q] = paytm[q]
<1> DEFINE s == RowAfter(heard[r])
           row == [paytm[r] EXCEPT !.status = s]
<1>1. heard[r] # None /\ paytm' = [paytm EXCEPT ![r] = row]
    BY DEF Confirm
<1>2. PaytmTypeOK /\ RowSound(r) /\ AnswerSound(r)
    BY DEF RailInv, PaytmSound
<1>3. paytm[r] # None /\ paytm[r].status # "SUCCESS" /\ paytm[r] \in Row
    BY <1>1, <1>2 DEF AnswerSound, PaytmTypeOK
<1>4. heard[r] \in Answer /\ heard[r].result \in Outcomes
    BY <1>1, <1>2 DEF PaytmTypeOK, Answer
<1>5. /\ s \in {"PENDING", "SUCCESS", "FAILED", "MISMATCH"}
      /\ s = "SUCCESS" => r \in charged /\ agrees[r]
    BY <1>1, <1>2, <1>4 DEF RowAfter, Outcomes, AnswerSound
<1>6. row \in Row /\ row.status = s /\ row.order = paytm[r].order /\ row # None
    <2>1. row \in Row /\ row.status = s /\ row.order = paytm[r].order
        BY <1>3, <1>5 DEF Row
    <2> QED  BY <2>1, PaytmAssumption
<1>7. payment[r].state \in {"PROVIDER_PENDING", "FAILED"}
    BY <1>2, <1>3 DEF RowSound, Row
<1> HIDE DEF s, row
<1>8. paytm'[r] = row /\ paytm' \in [Refs -> Row \cup {None}]
      /\ \A q \in Refs : q # r => paytm'[q] = paytm[q]
    BY <1>1, <1>2, <1>6 DEF PaytmTypeOK
<1> QED  BY <1>3, <1>5, <1>6, <1>7, <1>8 DEF s

LEMMA ConfirmKeeps ==
    ASSUME RailInv, NEW r \in Refs, Confirm(r), UNCHANGED railVars
    PROVE  RailInv'
<1> DEFINE s == RowAfter(heard[r])
<1>1. /\ heard' = [heard EXCEPT ![r] = None]
      /\ UNCHANGED <<policyVars, draft, request, approval, authority, events, opened, gateway,
                     checks, agrees, charged>>
    BY DEF Confirm
<1>2. PaytmTypeOK /\ PurchaseInv /\ RazorpaySound
    BY DEF RailInv, PaytmSound
<1>3. /\ paytm[r] # None /\ paytm'[r] # None /\ paytm' \in [Refs -> Row \cup {None}]
      /\ paytm'[r].status = s
      /\ s \in {"PENDING", "SUCCESS", "FAILED", "MISMATCH"}
      /\ s = "SUCCESS" => r \in charged /\ agrees[r]
      /\ payment[r].state \in {"PROVIDER_PENDING", "FAILED"}
      /\ \A q \in Refs : q # r => paytm'[q] = paytm[q]
    BY RowWritten
<1>4. payment[r] # None /\ request[r] # None /\ intent[r] = None
    BY <1>3, RowsAreOfPurchases
<1>5. ChainInv' /\ HopsStay
    <2>1. ChainStep
        <3>1. CASE UNCHANGED <<payment, reserved, hop, spend>>
            BY <1>1, <3>1 DEF ChainStep, chainVars, policyVars
        <3>2. CASE \E to \in {"CAPTURED", "FAILED"} : Transition(r, payment[r], to)
            BY <1>1, <3>2, TransitionIsRelease
        <3> QED  BY <3>1, <3>2 DEF Confirm
    <2> QED  BY <1>2, <2>1, ChainStepKeeps DEF PurchaseInv
<1>6. /\ RequestsSound' /\ OthersExplained(r)
      /\ \A q \in Refs : q # r => payment'[q] = payment[q]
      /\ IF payment[r].state = "PROVIDER_PENDING" /\ s \in {"SUCCESS", "FAILED"}
         THEN /\ payment'[r] # None
              /\ payment'[r].state = IF s = "SUCCESS" THEN "CAPTURED" ELSE "FAILED"
         ELSE payment' = payment
    BY <1>2, <1>4, <1>5, ConfirmMoves
<1> HIDE DEF s
<1>7. PurchaseInv'
    BY <1>5, <1>6 DEF RequestsSound, PurchaseInv
<1>8. RazorpaySound'
    BY <1>1, <1>2, RazorpayFrame
<1>9. PaytmTypeOK'
    BY <1>1, <1>2, <1>3 DEF PaytmTypeOK
<1>10. ASSUME NEW q \in Refs PROVE RowSound(q)' /\ AnswerSound(q)' /\ Apart(q)'
    <2>1. RowSound(q) /\ AnswerSound(q) /\ Apart(q)
          /\ UNCHANGED <<intent, agrees, charged, authority>>
        BY <1>1 DEF RailInv, PaytmSound, railVars
    <2>2. CASE q # r
        <3>1. paytm'[q] = paytm[q] /\ heard'[q] = heard[q] /\ payment'[q] = payment[q]
              /\ (Explained(q) => Explained(q)')
            BY <1>1, <1>2, <1>3, <1>6, <2>2 DEF PaytmTypeOK, OthersExplained
        <3>2. RowSound(q)'
            BY <2>1, <3>1 DEF RowSound
        <3>3. AnswerSound(q)'
            BY <2>1, <3>1 DEF AnswerSound
        <3>4. Apart(q)'
            BY <2>1, <3>1 DEF Apart, Consumed
        <3> QED  BY <3>2, <3>3, <3>4
    <2>3. CASE q = r
        <3>1. heard'[r] = None
            BY <1>1, <1>2 DEF PaytmTypeOK
        <3>2. RowSound(r)'
            BY <1>1, <1>3, <1>4, <1>6 DEF RowSound
        <3>3. AnswerSound(r)'
            BY <1>3, <3>1 DEF AnswerSound
        <3>4. Apart(r)'
            BY <1>3, <1>4, <2>1, <2>3 DEF Apart, Consumed
        <3> QED  BY <2>3, <3>2, <3>3, <3>4
    <2> QED  BY <2>2, <2>3
<1> QED  BY <1>7, <1>8, <1>9, <1>10 DEF RailInv, PaytmSound

-----------------------------------------------------------------------------
(* The purchases before a provider: nothing there touches a purchase that a *)
(* Paytm row is about, or uses an authority.                               *)

LEMMA RowsArePast ==
    ASSUME RailInv, NEW r \in Refs, paytm[r] # None
    PROVE  payment[r].state \in {"PROVIDER_PENDING", "CAPTURED", "FAILED"}
<1>1. paytm[r] \in Row /\ RowSound(r)
    BY DEF RailInv, PaytmSound, PaytmTypeOK
<1> QED  BY <1>1 DEF Row, RowSound

LEMMA PrepareIsNext == Prepare => Next
BY DEF Prepare, Next

LEMMA IssuesUnused ==
    ASSUME PurchaseInv, NEW r \in Refs, IssueAuthority(r)
    PROVE  Consumed' = Consumed
<1>1. PICK t \in Recent :
        authority' = [authority EXCEPT ![r] =
          [version |-> Newest, used |-> FALSE,
           expires |-> IF policies[Newest].expiry < t + AuthorityTtl
                       THEN policies[Newest].expiry ELSE t + AuthorityTtl]]
    BY DEF IssueAuthority
<1> DEFINE n == [version |-> Newest, used |-> FALSE,
                 expires |-> IF policies[Newest].expiry < t + AuthorityTtl
                             THEN policies[Newest].expiry ELSE t + AuthorityTtl]
<1>2. ~n.used /\ authority[r] = None /\ authority' = [authority EXCEPT ![r] = n]
    BY <1>1 DEF IssueAuthority
<1> HIDE DEF n
<1>3. authority'[r] = n /\ \A q \in Refs : q # r => authority'[q] = authority[q]
    BY <1>2 DEF PurchaseInv, PurchaseTypes
<1> QED  BY <1>2, <1>3 DEF Consumed

LEMMA PrepareFrames ==
    ASSUME RailInv, Prepare
    PROVE  /\ PurchaseInv' /\ StoryKept
           /\ Consumed' = Consumed /\ UNCHANGED events
           /\ \A q \in Refs : paytm[q] # None => payment'[q] = payment[q]
<1>1. PurchaseInv /\ PurchaseInv' /\ StoryKept
    BY PrepareIsNext, PurchaseInvStep DEF RailInv
<1>2. UNCHANGED events
    BY DEF Prepare, purchaseVars, Decide, Abort, Accept, Refuse, GrantApproval,
           CancelDeadChain, IssueAuthority
<1>3. Consumed' = Consumed
    <2>1. CASE UNCHANGED authority
        BY <2>1 DEF Consumed
    <2>2. CASE \E r \in Refs : IssueAuthority(r)
        BY <1>1, <2>2, IssuesUnused
    <2> QED  BY <2>1, <2>2 DEF Prepare, purchaseVars, Decide, Abort, Accept, Refuse,
                               GrantApproval, CancelDeadChain
<1>4. ASSUME NEW q \in Refs, paytm[q] # None PROVE payment'[q] = payment[q]
    <2>1. /\ request[q] # None /\ draft[q] = None
          /\ payment[q].state \in {"PROVIDER_PENDING", "CAPTURED", "FAILED"}
        BY <1>1, <1>4, RowsAreOfPurchases, RowsArePast DEF PurchaseInv, Sound, DraftSound
    <2>2. CASE UNCHANGED payment
        BY <2>2
    <2>3. CASE \E r \in Refs : r # q /\ \E p : payment' = [payment EXCEPT ![r] = p]
        BY <1>1, <2>3 DEF PurchaseInv, PurchaseTypes
    <2>4. ASSUME NEW r \in Refs, Accept(r) \/ Refuse(r) PROVE payment'[q] = payment[q]
        <3>1. draft[r] # None /\ \E p : payment' = [payment EXCEPT ![r] = p]
            BY <2>4 DEF Accept, Refuse, Recorded
        <3> QED  BY <2>1, <2>3, <3>1
    <2>5. ASSUME NEW r \in Refs, GrantApproval(r) PROVE payment'[q] = payment[q]
        <3>1. /\ payment[r].state = "APPROVAL_REQUIRED"
              /\ \E p : payment' = [payment EXCEPT ![r] = p]
            BY <2>5 DEF GrantApproval, Transition
        <3> QED  BY <2>1, <2>3, <3>1
    <2>6. ASSUME NEW r \in Refs, CancelDeadChain(r) PROVE payment'[q] = payment[q]
        <3>1. /\ payment[r].state = "AUTHORIZED"
              /\ \E p : payment' = [payment EXCEPT ![r] = p]
            BY <2>6 DEF CancelDeadChain, Issuable, Transition
        <3> QED  BY <2>1, <2>3, <3>1
    <2> QED  BY <2>2, <2>4, <2>5, <2>6 DEF Prepare, purchaseVars, Decide, Abort,
                                           IssueAuthority
<1> QED  BY <1>1, <1>2, <1>3, <1>4

LEMMA PrepareKeeps ==
    ASSUME RailInv, Prepare, UNCHANGED <<railVars, paytmVars>>
    PROVE  RailInv'
<1>1. /\ PurchaseInv' /\ StoryKept
      /\ Consumed' = Consumed /\ UNCHANGED events
      /\ \A q \in Refs : paytm[q] # None => payment'[q] = payment[q]
    BY PrepareFrames
<1>2. RazorpaySound'
    BY <1>1, RazorpayFrame DEF RailInv
<1>3. UNCHANGED <<intent, paytm, opened, gateway, checks, agrees, heard, charged>>
    BY DEF railVars, paytmVars
<1>4. ASSUME NEW q \in Refs PROVE RowSound(q)' /\ AnswerSound(q)' /\ Apart(q)'
    <2>1. RowSound(q) /\ AnswerSound(q) /\ Apart(q)
        BY DEF RailInv, PaytmSound
    <2>2. RowSound(q)'
        BY <1>1, <1>3, <2>1 DEF RowSound
    <2>3. AnswerSound(q)'
        BY <1>3, <2>1 DEF AnswerSound
    <2>4. Apart(q)'
        BY <1>1, <1>3, <2>1 DEF Apart, StoryKept
    <2> QED  BY <2>2, <2>3, <2>4
<1>5. PaytmTypeOK'
    BY <1>3 DEF RailInv, PaytmSound, PaytmTypeOK
<1> QED  BY <1>1, <1>2, <1>4, <1>5 DEF RailInv, PaytmSound

-----------------------------------------------------------------------------
LEMMA RailInvInit == BothInit => RailInv
<1> SUFFICES ASSUME BothInit PROVE RailInv
    OBVIOUS
<1>1. PurchaseInv
    BY PurchaseInvInit DEF BothInit
<1>2. RailTypeOK /\ PaytmTypeOK
    <2>1. RailTypeOK
        BY RailAssumption DEF BothInit, RailStart, RailTypeOK
    <2>2. PaytmTypeOK
        BY PaytmAssumption DEF BothInit, PaytmStart, PaytmTypeOK
    <2> QED  BY <2>1, <2>2
<1>3. ASSUME NEW r \in Refs PROVE IntentSound(r) /\ TrailSound(r) /\ Counted(r)
    <2>1. InFlight(r) = {}
        BY DEF BothInit, RailStart, InFlight, Stage
    <2>2. Counted(r)
        BY <2>1, FS_EmptySet, RailAssumption DEF BothInit, RailStart, Counted
    <2> QED  BY <2>2 DEF BothInit, Init, RailStart, IntentSound, TrailSound
<1>4. \A w \in Workers : AttemptSound(w)
    BY DEF BothInit, RailStart, AttemptSound
<1>5. \A r \in Refs : RowSound(r) /\ AnswerSound(r) /\ Apart(r)
    BY DEF BothInit, Init, RailStart, PaytmStart, RowSound, AnswerSound, Apart, Consumed,
           Explained
<1> QED  BY <1>1, <1>2, <1>3, <1>4, <1>5 DEF RailInv, RazorpaySound, PaytmSound

LEMMA RailStepKeeps ==
    ASSUME RailInv, RailStep, UNCHANGED paytmVars
    PROVE  RailInv'
<1>1. ASSUME NEW w \in Workers, NEW r \in Refs, CreateOrder(w, r) PROVE RailInv'
    BY <1>1, CreateOrderKeeps
<1>2. ASSUME NEW w \in Workers, NEW r \in Refs, Recover(w, r) PROVE RailInv'
    BY <1>2, RecoverKeeps
<1>3. ASSUME NEW w \in Workers, FoundOne(w) \/ FoundSeveral(w) \/ FoundNone(w) PROVE RailInv'
    BY <1>3, FoundOneKeeps, FoundSeveralKeeps, FoundNoneKeeps
<1>4. ASSUME NEW w \in Workers, Place(w) \/ Record(w) PROVE RailInv'
    BY <1>4, PlaceKeeps, RecordKeeps
<1>5. ASSUME NEW w \in Workers, Fail(w) \/ Crash(w) \/ GiveUp(w) PROVE RailInv'
    BY <1>5, FailKeeps, CrashKeeps, GiveUpKeeps
<1>6. ASSUME NEW r \in Refs, AnswerFromRow(r) \/ PlaceLate(r) PROVE RailInv'
    BY <1>6, AnswerFromRowKeeps, PlaceLateKeeps
<1>7. ASSUME NEW r \in Refs, NEW o \in OrderIds,
             Pay(r, o) \/ AttemptFailed(r, o) \/ Callback(r, o)
      PROVE  RailInv'
    <2>1. "captured" \in News
        BY DEF News
    <2>2. CASE Pay(r, o)
        BY <2>2, PayKeeps
    <2>3. CASE AttemptFailed(r, o) \/ Callback(r, o)
        BY <2>1, <2>3, WrittenDownKeeps
    <2> QED  BY <1>7, <2>2, <2>3
<1>8. ASSUME NEW r \in Refs, NEW o \in OrderIds, NEW k \in News, Webhook(r, o, k)
      PROVE  RailInv'
    BY <1>8, WebhookKeeps
<1>9. ASSUME NEW r \in Refs, NEW o \in OrderIds, NEW k \in News, WebhookRefused(r, o, k)
      PROVE  RailInv'
    BY <1>9, WrittenDownKeeps
<1> QED  BY <1>1, <1>2, <1>3, <1>4, <1>5, <1>6, <1>7, <1>8, <1>9 DEF RailStep

LEMMA PaytmStepKeeps ==
    ASSUME RailInv, PaytmStep, UNCHANGED railVars
    PROVE  RailInv'
BY RestartKeeps, StartPaymentKeeps, StartLostKeeps, CompleteKeeps, AskGatewayKeeps,
   ConfirmLostKeeps, ConfirmKeeps DEF PaytmStep

LEMMA RailInvStep ==
    ASSUME RailInv, [BothNext]_bothVars
    PROVE  RailInv'
<1>1. CASE UNCHANGED bothVars
    BY <1>1, QuietStep, RazorpayFrame DEF bothVars, vars, railVars, RailInv
<1> QED  BY <1>1, PrepareKeeps, RailStepKeeps, PaytmStepKeeps DEF BothNext

(* The inductive invariant holds in every behaviour of the two adapters. *)
THEOREM RailInvariant == BothSpec => []RailInv
BY RailInvInit, RailInvStep, PTL DEF BothSpec

(* Types: the rows, stages, counts and audit kinds stay what they are       *)
(* declared to be (razorpay.py, paytm.py).                                 *)
THEOREM RailTypesCorrect == BothSpec => []BothTypeOK
<1>1. RailInv => BothTypeOK
    BY DEF RailInv, RazorpaySound, PaytmSound, BothTypeOK, PurchaseInv, PurchaseTypes,
           ChainInv, TypeOK
<1> QED  BY <1>1, RailInvariant, PTL

(* A captured payment on Paytm has a successful row.                        *)
LEMMA CapturedRows ==
    ASSUME RailInv, NEW r \in Refs, paytm[r] # None, Stands(r, {"CAPTURED"})
    PROVE  r \in charged /\ agrees[r] /\ paytm[r].status = "SUCCESS"
<1>1. RowSound(r) /\ paytm[r] \in Row
    BY DEF RailInv, PaytmSound, PaytmTypeOK
<1>2. paytm[r].status = "SUCCESS"
    BY <1>1 DEF RowSound, Row, Stands
<1> QED  BY <1>1, <1>2 DEF RowSound

LEMMA OneRailEach ==
    ASSUME RailInv, NEW r \in Refs
    PROVE  /\ ~(intent[r] # None /\ paytm[r] # None)
           /\ ~(given[r] # {} /\ paytm[r] # None)
           /\ ~(PaidAtRazorpay(r) /\ r \in charged)
           /\ intent[r] # None \/ paytm[r] # None <=> r \in Consumed
           /\ OneExplanation(r)
<1>1. IntentSound(r) /\ TrailSound(r) /\ AnswerSound(r) /\ Apart(r)
    BY DEF RailInv, RazorpaySound, PaytmSound
<1>2. given[r] # {} => intent[r] # None
    BY <1>1 DEF IntentSound
<1>3. given[r] \subseteq OrderIds /\ events[r] \subseteq Kinds
    BY DEF RailInv, RazorpaySound, RailTypeOK, PurchaseInv, PurchaseTypes
<1>4. PaidAtRazorpay(r) => given[r] # {}
    BY <1>1 DEF PaidAtRazorpay, IntentSound
<1>5. OneExplanation(r)
    <2>1. SUFFICES ASSUME Stands(r, {"CAPTURED"})
                   PROVE  IF paytm[r] # None
                          THEN events[r] = {} /\ r \in charged
                          ELSE events[r] = News /\ PaidAtRazorpay(r)
        BY DEF OneExplanation
    <2>2. CASE paytm[r] # None
        <3>1. given[r] = {}
            BY <1>1, <1>2, <2>2 DEF Apart
        <3>2. events[r] = {}
            BY <1>1, <3>1 DEF TrailSound
        <3> QED  BY <2>1, <2>2, <3>2, CapturedRows
    <2>3. CASE paytm[r] = None
        <3>1. events[r] = {"authorized", "captured"}
            BY <1>1, <2>1, <2>3 DEF Apart, Explained, EventsOf, Stands
        <3>2. PaidAtRazorpay(r)
            BY <1>1, <1>3, <3>1 DEF TrailSound, PaidAtRazorpay
        <3> QED  BY <2>3, <3>1, <3>2 DEF News
    <2> QED  BY <2>2, <2>3
<1> QED  BY <1>1, <1>2, <1>4, <1>5 DEF Apart, AnswerSound

(* A purchase goes through one rail, whatever fails on the way: the         *)
(* authority is the only thing between the adapters (payments.py), and it  *)
(* is enough.                                                              *)
THEOREM OneRailPerPurchase == BothSpec => []OneRail
<1>1. RailInv => OneRail
    BY OneRailEach DEF OneRail
<1> QED  BY <1>1, RailInvariant, PTL

(* Nothing is asked of the provider without a committed intent              *)
(* (razorpay.py, create_order).                                            *)
THEOREM NothingAskedUnrecorded == BothSpec => []ConsumedLeavesIntent
<1>1. ASSUME RailInv, NEW r \in Refs
      PROVE  /\ intent[r] # None => r \in Consumed
             /\ intent[r] = None => orders[r] = 0 /\ late[r] = 0 /\ InFlight(r) = {}
    <2>1. IntentSound(r) /\ Apart(r) /\ \A w \in Workers : AttemptSound(w)
        BY <1>1 DEF RailInv, RazorpaySound
    <2>2. intent[r] = None => InFlight(r) = {}
        BY <2>1 DEF InFlight, Stage, AttemptSound
    <2> QED  BY <2>1, <2>2 DEF IntentSound, Apart
<1>2. RailInv => ConsumedLeavesIntent
    BY <1>1 DEF ConsumedLeavesIntent
<1> QED  BY <1>2, RailInvariant, PTL

(* The audit rows account for the adapter's state (razorpay.py).            *)
THEOREM TrailIsComplete == BothSpec => []TrailAccounts
<1>1. RailInv => TrailAccounts
    BY DEF RailInv, RazorpaySound, TrailSound, TrailAccounts
<1> QED  BY <1>1, RailInvariant, PTL

(* Nothing but the gateway's success for the server's amount captures a     *)
(* Paytm payment (paytm.py, confirm_order).                                *)
THEOREM CapturesAreConfirmed == BothSpec => []CapturedIsConfirmed
<1>1. RailInv => CapturedIsConfirmed
    BY CapturedRows DEF CapturedIsConfirmed
<1> QED  BY <1>1, RailInvariant, PTL

(* The row and the payment never contradict each other, and a failed row    *)
(* holds no budget (paytm.py, transitions.py).                             *)
THEOREM RowsTellThePayment == BothSpec => []RowsAgree
<1>1. ASSUME RailInv, NEW r \in Refs PROVE RowAgrees(r)
    <2>1. SUFFICES ASSUME paytm[r] # None PROVE RowAgrees(r)
        BY DEF RowAgrees
    <2>2. RowSound(r) /\ BudgetsAgree(r) /\ paytm[r] \in Row
        BY <1>1, <2>1 DEF RailInv, PaytmSound, PaytmTypeOK, PurchaseInv, Sound
    <2>3. payment[r].state = "FAILED" => ~Outstanding(r)
        BY <2>2 DEF BudgetsAgree, Claims
    <2> QED  BY <2>1, <2>2, <2>3 DEF RowAgrees, RowSound, Row
<1>2. RailInv => RowsAgree
    BY <1>1 DEF RowsAgree
<1> QED  BY <1>2, RailInvariant, PTL

-----------------------------------------------------------------------------
(* Where the rows come from. *)

LEMMA IntentsAreCreated ==
    ASSUME RailInv, RailStep, NEW r \in Refs, intent[r] = None, intent'[r] # None
    PROVE  \E w \in Workers : CreateOrder(w, r)
<1>1. intent' # intent /\ intent \in [Refs -> Intent \cup {None}]
    BY DEF RailInv, RazorpaySound, RailTypeOK
<1>2. ASSUME NEW w \in Workers PROVE ~FoundOne(w) /\ ~Record(w)
    <2>1. SUFFICES ASSUME FoundOne(w) \/ Record(w) PROVE FALSE
        OBVIOUS
    <2>2. PICK q \in Refs : q = attempt[w].ref /\ intent[q] # None
        BY <2>1, StagesAreNotIdle, UnderWay DEF FoundOne, Record
    <2>3. \E i : intent' = [intent EXCEPT ![q] = i]
        BY <2>1, <2>2 DEF FoundOne, Record, Confirmed
    <2> QED  BY <1>1, <2>2, <2>3
<1>3. \E w \in Workers, q \in Refs : CreateOrder(w, q)
    BY <1>1, <1>2 DEF RailStep, Recover, FoundSeveral, FoundNone, Place, Fail, Crash, GiveUp,
           AnswerFromRow, PlaceLate, Pay, AttemptFailed, Callback, Webhook, WebhookRefused
<1>4. PICK w \in Workers, q \in Refs : CreateOrder(w, q)
    BY <1>3
<1>5. \E i : intent' = [intent EXCEPT ![q] = i]
    BY <1>4 DEF CreateOrder
<1>6. q = r
    BY <1>1, <1>5
<1> QED  BY <1>4, <1>6

LEMMA RowsAreStarted ==
    ASSUME RailInv, PaytmStep, NEW r \in Refs, paytm[r] = None, paytm'[r] # None
    PROVE  StartPayment(r)
<1>1. paytm' # paytm /\ paytm \in [Refs -> Row \cup {None}]
    BY DEF RailInv, PaytmSound, PaytmTypeOK
<1>2. ASSUME NEW q \in Refs PROVE ~Confirm(q)
    <2>1. SUFFICES ASSUME Confirm(q) PROVE FALSE
        OBVIOUS
    <2>2. paytm[q] # None /\ \E p : paytm' = [paytm EXCEPT ![q] = p]
        BY <2>1 DEF Confirm, RailInv, PaytmSound, AnswerSound
    <2> QED  BY <1>1, <2>2
<1>3. \E q \in Refs : StartPayment(q)
    BY <1>1, <1>2 DEF PaytmStep, Restart, StartLost, Complete, AskGateway, ConfirmLost
<1>4. PICK q \in Refs : StartPayment(q)
    BY <1>3
<1>5. \E p : paytm' = [paytm EXCEPT ![q] = p]
    BY <1>4 DEF StartPayment
<1>6. q = r
    BY <1>1, <1>5
<1> QED  BY <1>4, <1>6

LEMMA OrderingIsGated ==
    ASSUME RailInv, BothNext, NEW r \in Refs, Ordered(r)
    PROVE  MayOrder(r)
<1>1. CASE paytm[r] = None /\ paytm'[r] # None
    <2>1. PaytmStep /\ UNCHANGED railVars
        BY <1>1 DEF BothNext, paytmVars
    <2> QED  BY <1>1, <2>1, RowsAreStarted, StartPaymentKeeps
<1>2. CASE intent[r] = None /\ intent'[r] # None
    <2>1. RailStep
        BY <1>2 DEF BothNext, railVars
    <2>2. ConsumeAuthority(r)
        BY <1>2, <2>1, IntentsAreCreated DEF CreateOrder
    <2>3. PurchaseInv /\ authority[r] # None
        BY <2>2 DEF RailInv, ConsumeAuthority
    <2>4. GoesToProvider(r)
        BY <2>2, <2>3, ConsumptionIsGated
    <2>5. StandsForDecision(r)
        BY <2>3 DEF PurchaseInv, Sound
    <2> QED  BY <2>3, <2>4, <2>5 DEF GoesToProvider, StandsForDecision, MayOrder
<1> QED  BY <1>1, <1>2 DEF Ordered

(* No order row is committed for a purchase that does not pass every gate   *)
(* at that moment, on either rail (checkout_authorities.py).               *)
THEOREM OrdersAreGated == BothSpec => OrdersGated
<1>1. RailInv /\ [BothNext]_bothVars => [\A r \in Refs : Ordered(r) => MayOrder(r)]_bothVars
    BY OrderingIsGated
<1> QED  BY <1>1, RailInvariant, PTL DEF BothSpec, OrdersGated

(* The purchases' promises survive the adapters.                            *)
THEOREM RailsKeepThePurchases ==
    BothSpec => []ApprovalGate /\ []BothBudgetsOrNeither /\ []AuthorityStandsForDecision
<1>1. RailInv => ApprovalGate /\ BothBudgetsOrNeither /\ AuthorityStandsForDecision
    BY DEF RailInv, PurchaseInv, Sound, ApprovalGate, BothBudgetsOrNeither,
           AuthorityStandsForDecision
<1> QED  BY <1>1, RailInvariant, PTL

LEMMA RailsAreChainSteps ==
    ASSUME RailInv, BothNext
    PROVE  ChainStep
<1>1. PurchaseInv
    BY DEF RailInv
<1>2. CASE Prepare
    BY <1>1, <1>2, PrepareIsNext, NextIsChainStep
<1>3. CASE RailStep
    <2>1. ASSUME NEW w \in Workers, NEW r \in Refs, CreateOrder(w, r) PROVE ChainStep
        BY <2>1 DEF CreateOrder, ConsumeAuthority, ChainStep
    <2>2. ASSUME NEW r \in Refs, NEW o \in OrderIds, NEW k \in News, Webhook(r, o, k)
          PROVE  ChainStep
        <3>1. ProviderEvent(r, k)
            BY <2>2 DEF Webhook
        <3> QED  BY <3>1, TransitionIsRelease DEF ProviderEvent
    <2>3. CASE UNCHANGED vars
        BY <2>3 DEF vars, chainVars, ChainStep
    <2> QED  BY <1>3, <2>1, <2>2, <2>3 DEF RailStep, Recover, FoundOne, FoundSeveral, FoundNone,
             Place, Record, Fail, Crash, GiveUp, AnswerFromRow, PlaceLate, Pay, AttemptFailed,
             Callback, WebhookRefused
<1>4. CASE PaytmStep
    <2>1. ASSUME NEW r \in Refs, StartPayment(r) PROVE ChainStep
        BY <2>1, TransitionIsRelease DEF StartPayment
    <2>2. ASSUME NEW r \in Refs, Confirm(r) PROVE ChainStep
        <3>1. CASE UNCHANGED <<payment, reserved, hop, spend>>
            BY <2>2, <3>1 DEF Confirm, ChainStep, chainVars, policyVars
        <3>2. CASE \E to \in {"CAPTURED", "FAILED"} : Transition(r, payment[r], to)
            BY <2>2, <3>2, TransitionIsRelease DEF Confirm
        <3> QED  BY <2>2, <3>1, <3>2 DEF Confirm
    <2>3. CASE UNCHANGED vars
        BY <2>3 DEF vars, chainVars, ChainStep
    <2> QED  BY <1>4, <2>1, <2>2, <2>3 DEF PaytmStep, Restart, StartLost, Complete, AskGateway,
                                           ConfirmLost
<1> QED  BY <1>2, <1>3, <1>4 DEF BothNext

(* The adapters use the chain only as the chain's specification allows.     *)
THEOREM RailsImplementDelegation == BothSpec => DelegationSpec
<1>1. RailInv /\ [BothNext]_bothVars => [DelegationNext]_chainVars
    BY RailsAreChainSteps DEF ChainStep, bothVars, vars, chainVars
<1>2. BothInit => DelegationInit
    BY DEF BothInit, Init
<1> QED  BY <1>1, <1>2, RailInvariant, PTL DEF BothSpec, DelegationSpec

-----------------------------------------------------------------------------
(* The day's books under the adapters. *)

LEMMA RailsMoveOrRest ==
    ASSUME RailInv, RailStep \/ PaytmStep
    PROVE  \/ UNCHANGED <<request, payment, reserved>>
           \/ \E r \in Refs, k \in News : ProviderEvent(r, k)
           \/ \E r \in Refs, to \in {"PROVIDER_PENDING", "CAPTURED", "FAILED"} :
                 request' = request /\ payment[r] # None /\ Transition(r, payment[r], to)
<1>1. ASSUME NEW w \in Workers, NEW r \in Refs, CreateOrder(w, r)
      PROVE  UNCHANGED <<request, payment, reserved>>
    BY <1>1 DEF CreateOrder, ConsumeAuthority
<1>2. ASSUME NEW r \in Refs, StartPayment(r)
      PROVE  request' = request /\ payment[r] # None
             /\ Transition(r, payment[r], "PROVIDER_PENDING")
    <2>1. request[r] # None
        BY <1>2 DEF StartPayment, Ready, Issuable
    <2> QED  BY <1>2, <2>1 DEF StartPayment, RailInv, PurchaseInv, Sound, LifeSound
<1>3. ASSUME NEW r \in Refs, Confirm(r)
      PROVE  \/ UNCHANGED <<request, payment, reserved>>
             \/ \E to \in {"PROVIDER_PENDING", "CAPTURED", "FAILED"} :
                   request' = request /\ payment[r] # None /\ Transition(r, payment[r], to)
    <2>1. payment[r] # None
        BY <1>3 DEF Confirm, RailInv, PaytmSound, AnswerSound, RowSound
    <2> QED  BY <1>3, <2>1 DEF Confirm
<1>4. CASE RailStep
    <2>1. ASSUME NEW r \in Refs, NEW o \in OrderIds, NEW k \in News, Webhook(r, o, k)
          PROVE  ProviderEvent(r, k)
        BY <2>1 DEF Webhook
    <2>2. UNCHANGED vars => UNCHANGED <<request, payment, reserved>>
        BY DEF vars
    <2> QED  BY <1>1, <1>4, <2>1, <2>2 DEF RailStep, Recover, FoundOne, FoundSeveral, FoundNone,
             Place, Record, Fail, Crash, GiveUp, AnswerFromRow, PlaceLate, Pay, AttemptFailed,
             Callback, WebhookRefused
<1>5. CASE PaytmStep
    <2>1. UNCHANGED vars => UNCHANGED <<request, payment, reserved>>
        BY DEF vars
    <2> QED  BY <1>2, <1>3, <1>5, <2>1 DEF PaytmStep, Restart, StartLost, Complete, AskGateway,
                                           ConfirmLost
<1> QED  BY <1>4, <1>5

LEMMA RailsKeepTheDays ==
    ASSUME RailInv, RailInv', DaysInv, [BothNext]_bothVars
    PROVE  DaysInv'
<1>1. PurchaseInv' /\ PoliciesKept
    <2>1. BothNext => ChainStep
        BY RailsAreChainSteps
    <2>2. UNCHANGED bothVars => ChainStep
        BY DEF bothVars, vars, chainVars, ChainStep
    <2> QED  BY <2>1, <2>2, ChainStepKeeps DEF RailInv, PurchaseInv, HopsStay
<1>2. CASE UNCHANGED <<request, payment, reserved>>
    BY <1>1, <1>2, DaysLeft
<1>3. CASE Prepare
    BY <1>3, PrepareIsNext, DaysInvStep
<1>4. ASSUME NEW r \in Refs, NEW k \in News, ProviderEvent(r, k) PROVE DaysInv'
    <2>1. k \in Kinds
        BY DEF News, Kinds
    <2>2. Next
        BY <1>4, <2>1 DEF Next
    <2> QED  BY <2>2, DaysInvStep
<1>5. ASSUME NEW r \in Refs, NEW to \in {"PROVIDER_PENDING", "CAPTURED", "FAILED"},
             request' = request, payment[r] # None, Transition(r, payment[r], to)
      PROVE  DaysInv'
    <2>1. request[r] # None /\ payment[r] \in Payment /\ to \in States
        BY <1>5, RowTypes DEF RailInv, PurchaseInv, Sound, KeyFresh, States
    <2> QED  BY <1>1, <1>5, <2>1, DaysMoved
<1>6. CASE UNCHANGED bothVars
    BY <1>2, <1>6 DEF bothVars, vars
<1>7. CASE RailStep \/ PaytmStep
    BY <1>2, <1>4, <1>5, <1>7, RailsMoveOrRest
<1> QED  BY <1>3, <1>6, <1>7 DEF BothNext

(* Whatever the adapters do with a purchase, both budgets' books stay exact  *)
(* and within their limits: the rails move payments only as the pipeline   *)
(* does, and every end gives back what was claimed (transitions.py).       *)
THEOREM RailsKeepTheBooks ==
    BothSpec => /\ []ReservationIsClaims
                /\ []DayWithinLimit
                /\ []CountersAreTheBooks
                /\ []BranchWithinBudget
<1>1. BothInit => DaysInv
    BY DaysInvInit DEF BothInit
<1>2. BothSpec => []DaysInv
    BY <1>1, RailsKeepTheDays, RailInvariant, PTL DEF BothSpec
<1>3. DaysInv => ReservationIsClaims /\ DayWithinLimit
    BY BooksOfTheDay
<1> QED  BY <1>2, <1>3, RailsImplementDelegation, CountersAreExact, BranchesStayWithinBudget, PTL

-----------------------------------------------------------------------------
(* The only events the Razorpay adapter passes on are successes: failed     *)
(* attempts are written down and move nothing (razorpay.py,                *)
(* receive_razorpay_webhook).                                              *)
OnlyNews == \A r \in Refs : events[r] \subseteq News

LEMMA OnlyNewsStep ==
    ASSUME RailInv, OnlyNews, [BothNext]_bothVars
    PROVE  OnlyNews'
<1>1. ASSUME NEW r \in Refs, NEW o \in OrderIds, NEW k \in News, Webhook(r, o, k)
      PROVE  OnlyNews'
    <2>1. events' = [events EXCEPT ![r] = @ \cup {k}] /\ events \in [Refs -> SUBSET Kinds]
        BY <1>1 DEF Webhook, ProviderEvent, RailInv, PurchaseInv, PurchaseTypes
    <2> QED  BY <2>1 DEF OnlyNews
<1>2. CASE UNCHANGED events
    BY <1>2 DEF OnlyNews
<1>3. CASE Prepare
    BY <1>2, <1>3 DEF Prepare, purchaseVars, Decide, Abort, Accept, Refuse, GrantApproval,
                      CancelDeadChain, IssueAuthority
<1>4. CASE RailStep
    BY <1>1, <1>2, <1>4 DEF RailStep, CreateOrder, ConsumeAuthority, Recover, FoundOne,
       FoundSeveral, FoundNone, Place, Record, Fail, Crash, GiveUp, AnswerFromRow, PlaceLate,
       Pay, AttemptFailed, Callback, WebhookRefused, vars
<1>5. CASE PaytmStep
    BY <1>2, <1>5 DEF PaytmStep, Restart, StartPayment, StartLost, Complete, AskGateway,
       ConfirmLost, Confirm, vars
<1>6. CASE UNCHANGED bothVars
    BY <1>2, <1>6 DEF bothVars, vars
<1> QED  BY <1>3, <1>4, <1>5, <1>6 DEF BothNext

LEMMA PaidIsExpected ==
    ASSUME RailInv, OnlyNews, NEW r \in Refs, PaidAtRazorpay(r)
    PROVE  Stands(r, {"AUTHORIZED", "PROVIDER_PENDING", "CANCELLED"} \cup Captures)
<1>1. intent[r] # None
    BY DEF PaidAtRazorpay, RailInv, RazorpaySound, IntentSound
<1>2. r \in Consumed /\ paytm[r] = None /\ Explained(r)
    BY <1>1 DEF RailInv, Apart
<1>3. authority[r] # None /\ Sound(r)
    BY <1>2 DEF Consumed, RailInv, PurchaseInv
<1>4. /\ request[r] # None /\ request[r].verdict # "DENY"
      /\ request[r].verdict = "REQUIRE_APPROVAL" => approval[r] # None
    BY <1>3 DEF Sound, StandsForDecision
<1>5. payment[r] # None /\ payment[r].state \in Reached \ {"DENIED"}
    BY <1>3, <1>4 DEF Sound, LifeSound
<1>6. payment[r].state # "APPROVAL_REQUIRED"
    BY <1>3, <1>4 DEF Sound, LifeSound, Gated, Beyond
<1>7. payment[r].state # "FAILED"
    <2>1. events[r] = EventsOf(payment[r].state) /\ events[r] \subseteq News
        BY <1>2, <1>5 DEF Explained, OnlyNews
    <2> QED  BY <2>1 DEF EventsOf, News
<1> QED  BY <1>5, <1>6, <1>7 DEF Stands, Reached, Captures

(* A purchase whose order is paid at the provider still takes the capture,  *)
(* or has taken it, unless a dead chain cancelled it: no failed attempt,   *)
(* callback or webhook has closed the door (razorpay.py).                  *)
THEOREM PaidOrdersStayExpected == BothSpec => []PaidOrdersAreExpected
<1>1. BothInit => OnlyNews
    BY DEF BothInit, Init, OnlyNews
<1>2. RailInv /\ OnlyNews => PaidOrdersAreExpected
    BY PaidIsExpected DEF PaidOrdersAreExpected
<1> QED  BY <1>1, <1>2, OnlyNewsStep, RailInvariant, PTL DEF BothSpec
=============================================================================
