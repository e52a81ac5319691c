--------------------------- MODULE PurchaseProofs ---------------------------
(***************************************************************************)
(* What purchases promise for every number of requests, hops, policies and *)
(* instants.  The invariant is a conjunction over requests: an action      *)
(* touches one request, so it is shown sound again and every other request *)
(* is framed by one lemma.  The delegation half is not proved again: a     *)
(* purchase's step is a step of DelegationSpec, or leaves it alone.        *)
(***************************************************************************)
EXTENDS PurchaseBooks, DelegationProofs

-----------------------------------------------------------------------------
(* The inductive invariant. *)

PurchaseTypes ==
    /\ draft \in [Refs -> Draft \cup {None}]
    /\ request \in [Refs -> Request \cup {None}]
    /\ payment \in [Refs -> Payment \cup {None}]
    /\ approval \in [Refs -> Approval \cup {None}]
    /\ authority \in [Refs -> Authority \cup {None}]
    /\ reserved \in [Actors -> [Days -> Nat]]
    /\ events \in [Refs -> SUBSET Kinds]

(* A request inside its creating transaction is not recorded yet, and the   *)
(* hop it was shown, though perhaps dead by now, exists.                   *)
DraftSound(r) ==
    draft[r] # None =>
        /\ request[r] = None
        /\ draft[r].amount \in Amounts
        /\ draft[r].held \in Granted \cup {None}

(* Before a request is recorded nothing else carries its key.              *)
KeyFresh(r) ==
    request[r] = None =>
        /\ payment[r] = None
        /\ approval[r] = None
        /\ authority[r] = None
        /\ spend[r] = None
        /\ events[r] = {}

Reached == {"APPROVAL_REQUIRED", "AUTHORIZED", "PROVIDER_PENDING", "CAPTURED", "DENIED",
            "FAILED", "REFUNDED", "CANCELLED"}

(* A recorded request has a payment, in a state its verdict allows.         *)
LifeSound(r) ==
    request[r] # None =>
        /\ payment[r] # None
        /\ payment[r].state \in Reached
        /\ request[r].version \in DOMAIN policies
        /\ request[r].verdict = "DENY" <=> payment[r].state = "DENIED"
        /\ payment[r].state = "APPROVAL_REQUIRED" => request[r].verdict = "REQUIRE_APPROVAL"

Sound(r) ==
    /\ DraftSound(r)
    /\ KeyFresh(r)
    /\ LifeSound(r)
    /\ Gated(r)
    /\ StandsForDecision(r)
    /\ BudgetsAgree(r)

PurchaseInv ==
    /\ ChainInv
    /\ PurchaseTypes
    /\ \A r \in Refs : Sound(r)

-----------------------------------------------------------------------------
(* Framing. *)

Untouched(r) ==
    /\ draft'[r] = draft[r]
    /\ request'[r] = request[r]
    /\ payment'[r] = payment[r]
    /\ approval'[r] = approval[r]
    /\ authority'[r] = authority[r]
    /\ events'[r] = events[r]
    /\ spend'[r] = spend[r]

HopsStay == HopsKept /\ PoliciesKept

LEMMA GrantedStay == HopsKept => Granted \subseteq Granted'
BY DEF HopsKept, SameBounds, Granted

LEMMA Framed ==
    ASSUME HopsStay, NEW r \in Refs, Sound(r), Untouched(r)
    PROVE  Sound(r)'
<1>1. Granted \subseteq Granted'
    BY GrantedStay DEF HopsStay
<1>2. DraftSound(r)' /\ KeyFresh(r)'
    BY <1>1 DEF Sound, Untouched, DraftSound, KeyFresh
<1>3. LifeSound(r)'
    BY DEF Sound, Untouched, LifeSound, HopsStay, PoliciesKept
<1>4. Gated(r)'
    BY DEF Sound, Untouched, Gated, Beyond
<1>5. StandsForDecision(r)'
    BY DEF Sound, Untouched, StandsForDecision, LifeSound, HopsStay, PoliciesKept
<1>6. BudgetsAgree(r)'
    BY DEF Sound, Untouched, BudgetsAgree, Claims, Outstanding
<1> QED  BY <1>2, <1>3, <1>4, <1>5, <1>6 DEF Sound

-----------------------------------------------------------------------------
(* A purchase's step, seen by the delegation chain. *)

ChainStep == DelegationNext \/ UNCHANGED chainVars

LEMMA PoliciesStay ==
    ASSUME PoliciesTypeOK, ChainStep
    PROVE  PoliciesKept
<1>1. CASE UNCHANGED policies
    BY <1>1 DEF PoliciesKept
<1>2. CASE \E p \in Drafts : CreatePolicy(p)
    BY <1>2, CreatePolicyKeeps
<1>3. UNCHANGED policies \/ \E p \in Drafts : CreatePolicy(p)
    BY DEF ChainStep, chainVars, DelegationNext, Govern, Tick, GrantRoot, Grant, Revoke,
           SpendOnce, Release, policyVars
<1> QED  BY <1>1, <1>2, <1>3

LEMMA ChainStepKeeps ==
    ASSUME ChainInv, ChainStep
    PROVE  ChainInv' /\ HopsStay
<1>1. PoliciesKept
    BY PoliciesStay DEF ChainInv, DelegationTypeOK
<1>2. CASE DelegationNext
    BY <1>1, <1>2, ChainInvStep DEF HopsStay
<1>3. CASE UNCHANGED chainVars
    <2>1. UNCHANGED delegationVars /\ UNCHANGED policyVars
        BY <1>3 DEF chainVars, delegationVars, policyVars
    <2> QED  BY <1>1, <2>1, PoliciesUnchanged, PoliciesOnlyKeep
             DEF HopsStay, ChainInv, DelegationTypeOK
<1> QED  BY <1>2, <1>3 DEF ChainStep

LEMMA TransitionIsRelease ==
    ASSUME NEW r \in Refs, NEW p, NEW to, Transition(r, p, to), UNCHANGED policyVars
    PROVE  ChainStep
BY DEF Transition, ChainStep, DelegationNext, Release, chainVars, policyVars

LEMMA AcceptIsSpend ==
    ASSUME PurchaseInv, NEW r \in Refs, Accept(r)
    PROVE  ChainStep
<1> DEFINE d == draft[r]
<1>1. d \in Draft /\ d \in [actor : Actors, amount : Nat, sku : Skus \cup {None},
          created : Times, read : Times, verdict : Verdicts, version : Nat,
          held : Hops \cup {None}]
    BY DEF Accept, PurchaseInv, PurchaseTypes, Draft
<1>2. request[r] = None /\ d.amount \in Amounts /\ d.held \in Granted \cup {None}
      /\ spend[r] = None
    BY DEF PurchaseInv, Sound, DraftSound, KeyFresh, Accept
<1>3. UNCHANGED policyVars
    BY DEF Accept
<1>4. CASE d.held = None
    BY <1>3, <1>4 DEF Accept, ChainStep, chainVars, policyVars
<1>5. CASE d.held # None
    <2>1. PICK t \in Recent, u \in Times : ClaimsHold(d, DayOf[u], t)
        BY DEF Accept
    <2>2. d.sku \in Skus /\ MaySpend(d.held, d.amount, d.sku, t)
        BY <1>1, <1>5, <2>1 DEF ClaimsHold
    <2>3. Charge(r, d.held, d.amount, d.sku)
        BY <1>5 DEF Accept
    <2> HIDE DEF d
    <2>4. SpendOnce(r, d.held, d.amount, d.sku)
        BY <1>2, <1>3, <1>5, <2>2, <2>3 DEF SpendOnce
    <2>5. d.held \in Hops
        BY <1>2, <1>5 DEF Granted
    <2> QED  BY <1>2, <2>2, <2>4, <2>5 DEF ChainStep, DelegationNext
<1> QED  BY <1>4, <1>5

LEMMA NextIsChainStep ==
    ASSUME PurchaseInv, Next
    PROVE  ChainStep
<1>1. CASE Govern /\ UNCHANGED purchaseVars
    BY <1>1 DEF ChainStep, DelegationNext
<1>2. ASSUME NEW r \in Refs, Accept(r) PROVE ChainStep
    BY <1>2, AcceptIsSpend
<1>3. ASSUME NEW r \in Refs, GrantApproval(r) PROVE ChainStep
    BY <1>3, TransitionIsRelease DEF GrantApproval
<1>4. ASSUME NEW r \in Refs, CancelDeadChain(r) PROVE ChainStep
    BY <1>4, TransitionIsRelease DEF CancelDeadChain
<1>5. ASSUME NEW r \in Refs, NEW k \in Kinds, ProviderEvent(r, k) PROVE ChainStep
    BY <1>5, TransitionIsRelease DEF ProviderEvent
<1>6. ASSUME NEW r \in Refs,
             \/ \E a \in Actors, n \in Amounts, s \in Skus \cup {None}, b \in BOOLEAN :
                  Decide(r, a, n, s, b)
             \/ Abort(r)
             \/ Refuse(r)
             \/ IssueAuthority(r)
             \/ ConsumeAuthority(r)
      PROVE  ChainStep
    BY <1>6 DEF Decide, Abort, Refuse, IssueAuthority, ConsumeAuthority, ChainStep
<1> QED  BY <1>1, <1>2, <1>3, <1>4, <1>5, <1>6 DEF Next

-----------------------------------------------------------------------------
(* One request is written; the others are framed. *)

(* That the events explain the payment is kept apart: it is true of the     *)
(* events route, and not of a rail that moves payments on its own word.    *)
StoryKept == \A r \in Refs : Explained(r) => Explained(r)'

LEMMA OneWritten ==
    ASSUME PurchaseInv, HopsStay, NEW r \in Refs, Sound(r)', Explained(r) => Explained(r)',
           \A q \in Refs : q # r => Untouched(q)
    PROVE  (\A q \in Refs : Sound(q)') /\ StoryKept
<1>1. ASSUME NEW q \in Refs, q # r, Explained(q) PROVE Explained(q)'
    BY <1>1 DEF Untouched, Explained
<1>2. StoryKept
    BY <1>1 DEF StoryKept
<1> QED  BY <1>2, Framed DEF PurchaseInv

LEMMA RowTypes ==
    ASSUME PurchaseInv, NEW r \in Refs
    PROVE  /\ draft[r] # None => draft[r] \in Draft
           /\ request[r] # None => request[r] \in Request
           /\ payment[r] # None => payment[r] \in Payment
           /\ approval[r] # None => approval[r] \in Approval
           /\ authority[r] # None => authority[r] \in Authority
           /\ spend[r] # None => spend[r] \in Spend
BY DEF PurchaseInv, PurchaseTypes, ChainInv, DelegationTypeOK

LEMMA ClockTypes ==
    ASSUME PurchaseInv
    PROVE  /\ now \in Times /\ Recent \subseteq Times /\ Times \subseteq Nat
           /\ \A t \in Times : DayOf[t] \in Days
           /\ Newest \in Nat /\ policies \in Seq(Policy)
BY PoliciesAssumption
DEF PurchaseInv, ChainInv, DelegationTypeOK, PoliciesTypeOK, Recent, Times, Days, Newest

LEMMA HeldByGranted ==
    ASSUME NEW a, NEW t
    PROVE  HeldBy(a, t) \in Granted \cup {None}
BY DEF HeldBy

LEMMA LeftAfterTyped ==
    ASSUME NEW n \in Nat, NEW m \in Nat
    PROVE  LeftAfter(n, m) \in Nat
BY DEF LeftAfter

(* What a legal move of a recorded payment does to everything but the       *)
(* payment's own amounts.                                                  *)
LEMMA TransitionEffect ==
    ASSUME PurchaseInv, NEW r \in Refs, request[r] # None, NEW p \in Payment,
           p.state = payment[r].state, NEW to \in States, Transition(r, p, to)
    PROVE  /\ to \in Legal(payment[r].state) /\ MayMove(p, to)
           /\ payment' = [payment EXCEPT ![r] = [p EXCEPT !.state = to]]
           /\ [p EXCEPT !.state = to] \in Payment
           /\ payment'[r] = [p EXCEPT !.state = to]
           /\ reserved' \in [Actors -> [Days -> Nat]]
           /\ \A q \in Refs : q # r => payment'[q] = payment[q] /\ spend'[q] = spend[q]
           /\ UNCHANGED request => BudgetsAgree(r)'
<1>1. /\ request[r] \in Request /\ payment[r] \in Payment /\ payment[r].state \in Reached
      /\ payment \in [Refs -> Payment \cup {None}]
      /\ reserved \in [Actors -> [Days -> Nat]]
      /\ spend \in [Refs -> Spend \cup {None}]
    BY RowTypes DEF PurchaseInv, PurchaseTypes, Sound, LifeSound, ChainInv, DelegationTypeOK
<1>2. to \in Legal(payment[r].state) /\ MayMove(p, to)
      /\ payment' = [payment EXCEPT ![r] = [p EXCEPT !.state = to]]
    BY DEF Transition, MayMove
<1>3. [p EXCEPT !.state = to] \in Payment /\ [p EXCEPT !.state = to].state = to
    BY DEF Payment
<1>4. payment'[r] = [p EXCEPT !.state = to] /\ payment'[r] # None
      /\ \A q \in Refs : q # r => payment'[q] = payment[q]
    BY <1>1, <1>2, <1>3, PurchaseAssumption
<1>5. reserved' \in [Actors -> [Days -> Nat]]
    <2> DEFINE a == request[r].actor
               day == DayOf[request[r].created]
    <2>1. a \in Actors /\ day \in Days /\ request[r].amount \in Nat
        BY <1>1, ClockTypes DEF Request
    <2>2. reserved[a][day] \in Nat /\ reserved[a] \in [Days -> Nat]
        BY <1>1, <2>1
    <2>3. reserved' = reserved
          \/ reserved' = [reserved EXCEPT ![a] =
                [reserved[a] EXCEPT ![day] = LeftAfter(reserved[a][day], request[r].amount)]]
        BY DEF Transition, ReleaseDay
    <2>4. LeftAfter(reserved[a][day], request[r].amount) \in Nat
        BY <2>1, <2>2, LeftAfterTyped
    <2> HIDE DEF a, day
    <2>5. [reserved[a] EXCEPT ![day] = LeftAfter(reserved[a][day], request[r].amount)]
            \in [Days -> Nat]
        BY <2>2, <2>4
    <2> QED  BY <1>1, <2>3, <2>5
<1>6. \A q \in Refs : q # r => spend'[q] = spend[q]
    BY <1>1 DEF Transition, GiveBack
<1>7. CASE to \in Releasing
    <2>1. payment[r].state \in Holding
        BY <1>1, <1>2, <1>7 DEF Reached, Legal, Releasing, Holding
    <2>2. GiveBack(r)
        BY <1>7, <2>1 DEF Transition
    <2>3. ~Outstanding(r)'
        BY <1>1, <2>2 DEF GiveBack, Outstanding, Spend
    <2>4. ASSUME UNCHANGED request PROVE ~Claims(r)'
        BY <1>3, <1>4, <1>7, <2>4 DEF Claims, Releasing
    <2>5. UNCHANGED request => BudgetsAgree(r)'
        BY <2>3, <2>4 DEF BudgetsAgree
    <2> QED  BY <1>2, <1>3, <1>4, <1>5, <1>6, <2>5
<1>8. CASE to \notin Releasing
    <2>1. spend' = spend
        BY <1>8 DEF Transition
    <2>2. Claims(r)
        BY <1>1, <1>2 DEF Reached, Legal, Claims
    <2>3. ASSUME UNCHANGED request PROVE Claims(r)'
        BY <1>3, <1>4, <1>8, <2>3 DEF Claims, Releasing
    <2>4. BudgetsAgree(r)
        BY DEF PurchaseInv, Sound
    <2>5. UNCHANGED request => BudgetsAgree(r)'
        BY <2>1, <2>2, <2>3, <2>4 DEF BudgetsAgree, Outstanding
    <2> QED  BY <1>2, <1>3, <1>4, <1>5, <1>6, <2>5
<1> QED  BY <1>7, <1>8

-----------------------------------------------------------------------------
(* The actions, one lemma each. *)

RequestsSound == PurchaseTypes /\ \A q \in Refs : Sound(q)

LEMMA GovernSound ==
    ASSUME PurchaseInv, HopsStay, Govern, UNCHANGED purchaseVars
    PROVE  RequestsSound' /\ StoryKept
<1>1. spend' = spend
    BY GovernWritesNothing DEF NothingWritten
<1>2. \A r \in Refs : Untouched(r)
    BY <1>1 DEF Untouched, purchaseVars
<1>3. PurchaseTypes'
    BY DEF purchaseVars, PurchaseInv, PurchaseTypes
<1>4. StoryKept
    BY DEF purchaseVars, StoryKept, Explained
<1> QED  BY <1>2, <1>3, <1>4, Framed DEF PurchaseInv, RequestsSound

LEMMA DecideSound ==
    ASSUME PurchaseInv, HopsStay, NEW r \in Refs, NEW a \in Actors, NEW n \in Amounts,
           NEW s \in Skus \cup {None}, NEW b \in BOOLEAN, Decide(r, a, n, s, b)
    PROVE  RequestsSound' /\ StoryKept
<1>1. PICK c \in Recent :
        draft' = [draft EXCEPT ![r] =
           [actor |-> a, amount |-> n, sku |-> s, created |-> c, read |-> now,
            verdict |-> Evaluate(Newest, n, b, reserved[a][DayOf[now]], now),
            version |-> Newest, held |-> HeldBy(a, now)]]
    BY DEF Decide
<1> DEFINE row == [actor |-> a, amount |-> n, sku |-> s, created |-> c, read |-> now,
            verdict |-> Evaluate(Newest, n, b, reserved[a][DayOf[now]], now),
            version |-> Newest, held |-> HeldBy(a, now)]
<1>2. /\ request[r] = None
      /\ hop' = hop /\ spend' = spend /\ request' = request /\ payment' = payment
      /\ approval' = approval /\ authority' = authority /\ events' = events
      /\ reserved' = reserved /\ policies' = policies
    BY DEF Decide, chainVars
<1>3. row \in Draft /\ row.amount = n /\ row.held \in Granted \cup {None}
    <2>1. Evaluate(Newest, n, b, reserved[a][DayOf[now]], now) \in Verdicts
        BY DEF Evaluate, Verdicts
    <2>2. HeldBy(a, now) \in Granted \cup {None} /\ HeldBy(a, now) \in Hops \cup {None}
        BY HeldByGranted DEF Granted
    <2>3. c \in Times /\ now \in Times /\ Newest \in Nat /\ n \in Nat
        BY ClockTypes, DelegationAssumption
    <2> QED  BY <2>1, <2>2, <2>3 DEF Draft
<1> HIDE DEF row
<1>4. PurchaseTypes' /\ draft'[r] = row /\ \A q \in Refs : q # r => Untouched(q)
    BY <1>1, <1>2, <1>3 DEF PurchaseInv, PurchaseTypes, Untouched, row
<1>5. Granted' = Granted
    BY <1>2 DEF Granted
<1>6. Sound(r)
    BY DEF PurchaseInv
<1>7. DraftSound(r)'
    BY <1>2, <1>3, <1>4, <1>5 DEF DraftSound
<1>8. Sound(r)'
    BY <1>2, <1>6, <1>7
    DEF Sound, KeyFresh, LifeSound, Gated, Beyond, StandsForDecision, BudgetsAgree,
        Claims, Outstanding
<1>9. Explained(r) => Explained(r)'
    BY <1>2 DEF Explained
<1> QED  BY <1>4, <1>8, <1>9, OneWritten DEF RequestsSound

LEMMA AbortSound ==
    ASSUME PurchaseInv, HopsStay, NEW r \in Refs, Abort(r)
    PROVE  RequestsSound' /\ StoryKept
<1>1. /\ draft' = [draft EXCEPT ![r] = None]
      /\ hop' = hop /\ spend' = spend /\ request' = request /\ payment' = payment
      /\ approval' = approval /\ authority' = authority /\ events' = events
      /\ reserved' = reserved /\ policies' = policies
    BY DEF Abort, chainVars
<1>2. PurchaseTypes' /\ draft'[r] = None /\ \A q \in Refs : q # r => Untouched(q)
    BY <1>1 DEF PurchaseInv, PurchaseTypes, Untouched
<1>3. Sound(r)
    BY DEF PurchaseInv
<1>4. Sound(r)'
    BY <1>1, <1>2, <1>3
    DEF Sound, DraftSound, KeyFresh, LifeSound, Gated, Beyond, StandsForDecision,
        BudgetsAgree, Claims, Outstanding
<1>5. Explained(r) => Explained(r)'
    BY <1>1 DEF Explained
<1> QED  BY <1>2, <1>4, <1>5, OneWritten DEF RequestsSound

(* Recording a request with its decision and its payment. *)
LEMMA RecordedEffect ==
    ASSUME PurchaseInv, NEW r \in Refs, draft[r] # None,
           NEW verdict \in Verdicts, NEW delegation \in Hops \cup {None},
           NEW day \in Days \cup {None}, Recorded(r, draft[r], verdict, delegation, day)
    PROVE  /\ draft' \in [Refs -> Draft \cup {None}]
           /\ request' \in [Refs -> Request \cup {None}]
           /\ payment' \in [Refs -> Payment \cup {None}]
           /\ draft'[r] = None /\ request'[r] # None /\ payment'[r] # None
           /\ request'[r].actor = draft[r].actor /\ request'[r].amount = draft[r].amount
           /\ request'[r].sku = draft[r].sku /\ request'[r].verdict = verdict
           /\ request'[r].delegation = delegation
           /\ request'[r].version \in DOMAIN policies
           /\ payment'[r].state = CASE verdict = "ALLOW" -> "AUTHORIZED"
                                    [] verdict = "DENY" -> "DENIED"
                                    [] verdict = "REQUIRE_APPROVAL" -> "APPROVAL_REQUIRED"
           /\ verdict = "ALLOW" => payment'[r].authorized = draft[r].amount
           /\ payment'[r].captured = 0 /\ payment'[r].refunded = 0
           /\ \A q \in Refs : q # r => /\ draft'[q] = draft[q]
                                       /\ request'[q] = request[q]
                                       /\ payment'[q] = payment[q]
<1> DEFINE d == draft[r]
           req == [actor |-> d.actor, amount |-> d.amount, sku |-> d.sku,
                   created |-> d.created, verdict |-> verdict, version |-> d.version,
                   delegation |-> delegation, reservedOn |-> day]
           st == CASE verdict = "ALLOW" -> "AUTHORIZED"
                   [] verdict = "DENY" -> "DENIED"
                   [] verdict = "REQUIRE_APPROVAL" -> "APPROVAL_REQUIRED"
           pay == [state |-> st,
                   authorized |-> IF verdict = "ALLOW" THEN d.amount ELSE None,
                   captured |-> 0, refunded |-> 0]
<1>1. /\ draft' = [draft EXCEPT ![r] = None]
      /\ request' = [request EXCEPT ![r] = req]
      /\ payment' = [payment EXCEPT ![r] = pay]
      /\ d.version \in DOMAIN policies
    BY DEF Recorded
<1>2. d \in Draft
    BY RowTypes
<1>3. d.actor \in Actors /\ d.amount \in Nat /\ d.sku \in Skus \cup {None}
      /\ d.created \in Times /\ d.version \in Nat
    BY <1>2 DEF Draft
<1> HIDE DEF d
<1>4. req \in Request
    BY <1>3 DEF Request
<1>5. st \in States
    BY DEF Verdicts, States
<1> HIDE DEF st
<1>6. pay \in Payment
    BY <1>3, <1>5 DEF Payment
<1>7. req # None /\ pay # None
    BY <1>4, <1>6, PurchaseAssumption
<1> HIDE DEF req, pay
<1>8. /\ draft' \in [Refs -> Draft \cup {None}] /\ draft'[r] = None
      /\ request' \in [Refs -> Request \cup {None}] /\ request'[r] = req
      /\ payment' \in [Refs -> Payment \cup {None}] /\ payment'[r] = pay
      /\ \A q \in Refs : q # r => /\ draft'[q] = draft[q]
                                  /\ request'[q] = request[q]
                                  /\ payment'[q] = payment[q]
    BY <1>1, <1>4, <1>6 DEF PurchaseInv, PurchaseTypes
<1>9. /\ req.actor = d.actor /\ req.amount = d.amount /\ req.sku = d.sku
      /\ req.verdict = verdict /\ req.version = d.version /\ req.delegation = delegation
    BY DEF req
<1>10. /\ pay.state = st /\ pay.captured = 0 /\ pay.refunded = 0
       /\ verdict = "ALLOW" => pay.authorized = d.amount
    BY DEF pay
<1> QED  BY <1>1, <1>7, <1>8, <1>9, <1>10 DEF d, st

LEMMA AcceptSound ==
    ASSUME PurchaseInv, HopsStay, NEW r \in Refs, Accept(r)
    PROVE  RequestsSound' /\ StoryKept
<1> DEFINE d == draft[r]
<1>1. d # None /\ d \in Draft /\ request[r] = None
    BY RowTypes DEF Accept, PurchaseInv, Sound, DraftSound
<1>2. /\ d.actor \in Actors /\ d.amount \in Nat /\ d.sku \in Skus \cup {None}
      /\ d.verdict \in Verdicts /\ d.held \in Hops \cup {None}
    BY <1>1 DEF Draft
<1>3. PICK t \in Recent, u \in Times :
        /\ ClaimsHold(d, DayOf[u], t)
        /\ reserved' = [reserved EXCEPT ![d.actor][DayOf[u]] = @ + d.amount]
        /\ Recorded(r, d, d.verdict, d.held, DayOf[u])
    BY DEF Accept
<1>4. UNCHANGED <<policies, approval, authority, events>>
    BY DEF Accept, policyVars
<1>5. IF d.held # None
      THEN spend' = [spend EXCEPT ![r] = [hop |-> d.held, amount |-> d.amount,
                                          sku |-> d.sku, released |-> FALSE]]
      ELSE spend' = spend
    BY DEF Accept, Charge
<1>6. d.verdict # "DENY" /\ (d.held # None => d.sku \in Skus)
    BY <1>2, <1>3 DEF ClaimsHold
<1>7. DayOf[u] \in Days
    BY ClockTypes
<1>8. reserved' \in [Actors -> [Days -> Nat]]
    <2> DEFINE day == DayOf[u]
    <2>1. reserved \in [Actors -> [Days -> Nat]]
        BY DEF PurchaseInv, PurchaseTypes
    <2>2. reserved[d.actor][day] + d.amount \in Nat /\ day \in Days
        BY <1>2, <1>7, <2>1
    <2>3. reserved' = [reserved EXCEPT ![d.actor] =
                        [reserved[d.actor] EXCEPT ![day] = reserved[d.actor][day] + d.amount]]
        BY <1>3
    <2> HIDE DEF day, d
    <2> QED  BY <1>2, <2>1, <2>2, <2>3
<1> HIDE DEF d
<1>9. /\ approval[r] = None /\ authority[r] = None /\ events[r] = {} /\ spend[r] = None
    BY <1>1 DEF PurchaseInv, Sound, KeyFresh
<1>10. /\ draft' \in [Refs -> Draft \cup {None}]
       /\ request' \in [Refs -> Request \cup {None}]
       /\ payment' \in [Refs -> Payment \cup {None}]
       /\ draft'[r] = None /\ request'[r] # None /\ payment'[r] # None
       /\ request'[r].actor = d.actor /\ request'[r].amount = d.amount
       /\ request'[r].sku = d.sku /\ request'[r].verdict = d.verdict
       /\ request'[r].delegation = d.held
       /\ request'[r].version \in DOMAIN policies
       /\ payment'[r].state = (CASE d.verdict = "ALLOW" -> "AUTHORIZED"
                                 [] d.verdict = "DENY" -> "DENIED"
                                 [] d.verdict = "REQUIRE_APPROVAL" -> "APPROVAL_REQUIRED")
       /\ d.verdict = "ALLOW" => payment'[r].authorized = d.amount
       /\ payment'[r].captured = 0 /\ payment'[r].refunded = 0
       /\ \A q \in Refs : q # r => /\ draft'[q] = draft[q]
                                   /\ request'[q] = request[q]
                                   /\ payment'[q] = payment[q]
    <2> DEFINE day == DayOf[u]
    <2>1. /\ draft[r] # None /\ day \in Days \cup {None}
          /\ d.verdict \in Verdicts /\ d.held \in Hops \cup {None}
          /\ Recorded(r, draft[r], d.verdict, d.held, day)
        BY <1>1, <1>2, <1>3, <1>7 DEF d
    <2> HIDE DEF day
    <2> QED  BY <2>1, RecordedEffect DEF d
<1>11. PurchaseTypes'
    BY <1>4, <1>8, <1>10 DEF PurchaseInv, PurchaseTypes
<1>12. \/ d.verdict = "ALLOW" /\ payment'[r].state = "AUTHORIZED"
       \/ d.verdict = "REQUIRE_APPROVAL" /\ payment'[r].state = "APPROVAL_REQUIRED"
    BY <1>2, <1>6, <1>10 DEF Verdicts
<1>13. spend \in [Refs -> Spend \cup {None}]
    BY DEF PurchaseInv, ChainInv, DelegationTypeOK
<1>14. \A q \in Refs : q # r => Untouched(q)
    BY <1>4, <1>5, <1>10, <1>13 DEF Untouched
<1>15. DraftSound(r)' /\ KeyFresh(r)' /\ LifeSound(r)'
    BY <1>4, <1>10, <1>12 DEF DraftSound, KeyFresh, LifeSound, Reached
<1>16. Gated(r)' /\ StandsForDecision(r)'
    BY <1>4, <1>9, <1>10, <1>12 DEF Gated, Beyond, StandsForDecision
<1>17. Explained(r)'
    BY <1>4, <1>9, <1>10, <1>12 DEF Explained, EventsOf
<1>18. BudgetsAgree(r)'
    <2>1. Claims(r)'
        BY <1>10, <1>12 DEF Claims
    <2>2. CASE d.held = None
        BY <1>5, <1>9, <1>10, <2>2 DEF BudgetsAgree, Outstanding
    <2>3. CASE d.held # None
        <3> DEFINE row == [hop |-> d.held, amount |-> d.amount, sku |-> d.sku,
                           released |-> FALSE]
        <3>1. row \in Spend
            BY <1>2, <1>6, <2>3 DEF Spend
        <3>2. row # None
            BY <3>1, DelegationAssumption
        <3>3. spend'[r] = row
            BY <1>5, <1>13, <2>3
        <3>4. ~row.released /\ row.hop = d.held /\ row.amount = d.amount /\ row.sku = d.sku
            OBVIOUS
        <3> HIDE DEF row
        <3> QED  BY <1>10, <2>1, <2>3, <3>2, <3>3, <3>4 DEF BudgetsAgree, Outstanding
    <2> QED  BY <2>2, <2>3
<1>19. Sound(r)'
    BY <1>15, <1>16, <1>18 DEF Sound
<1> QED  BY <1>11, <1>14, <1>17, <1>19, OneWritten DEF RequestsSound

LEMMA RefuseSound ==
    ASSUME PurchaseInv, HopsStay, NEW r \in Refs, Refuse(r)
    PROVE  RequestsSound' /\ StoryKept
<1> DEFINE d == draft[r]
<1>1. d # None /\ request[r] = None /\ Recorded(r, d, "DENY", None, None)
    BY DEF Refuse, PurchaseInv, Sound, DraftSound
<1>2. UNCHANGED <<spend, policies, approval, authority, events, reserved>>
    BY DEF Refuse, chainVars
<1>3. /\ approval[r] = None /\ authority[r] = None /\ events[r] = {} /\ spend[r] = None
    BY <1>1 DEF PurchaseInv, Sound, KeyFresh
<1>4. /\ draft' \in [Refs -> Draft \cup {None}]
      /\ request' \in [Refs -> Request \cup {None}]
      /\ payment' \in [Refs -> Payment \cup {None}]
      /\ draft'[r] = None /\ request'[r] # None /\ payment'[r] # None
      /\ request'[r].verdict = "DENY" /\ request'[r].delegation = None
      /\ request'[r].version \in DOMAIN policies
      /\ payment'[r].state = "DENIED"
      /\ payment'[r].captured = 0 /\ payment'[r].refunded = 0
      /\ \A q \in Refs : q # r => /\ draft'[q] = draft[q]
                                  /\ request'[q] = request[q]
                                  /\ payment'[q] = payment[q]
    BY <1>1, RecordedEffect DEF Verdicts
<1> HIDE DEF d
<1>5. PurchaseTypes'
    BY <1>2, <1>4 DEF PurchaseInv, PurchaseTypes
<1>6. \A q \in Refs : q # r => Untouched(q)
    BY <1>2, <1>4 DEF Untouched
<1>7. DraftSound(r)' /\ KeyFresh(r)' /\ LifeSound(r)'
    BY <1>2, <1>4 DEF DraftSound, KeyFresh, LifeSound, Reached
<1>8. Gated(r)' /\ StandsForDecision(r)'
    BY <1>2, <1>3, <1>4 DEF Gated, Beyond, StandsForDecision
<1>9. Explained(r)'
    BY <1>2, <1>3, <1>4 DEF Explained, EventsOf
<1>10. BudgetsAgree(r)'
    BY <1>2, <1>3, <1>4 DEF BudgetsAgree, Outstanding, Claims
<1>11. Sound(r)'
    BY <1>7, <1>8, <1>10 DEF Sound
<1> QED  BY <1>5, <1>6, <1>9, <1>11, OneWritten DEF RequestsSound

LEMMA GrantApprovalSound ==
    ASSUME PurchaseInv, HopsStay, NEW r \in Refs, GrantApproval(r)
    PROVE  RequestsSound' /\ StoryKept
<1> DEFINE q == request[r]
           p == [payment[r] EXCEPT !.authorized = q.amount]
           row == [version |-> q.version, by |-> Approver,
                   expires |-> policies[q.version].expiry, consumed |-> TRUE]
<1>1. /\ q # None /\ q.actor # Approver /\ payment[r].state = "APPROVAL_REQUIRED"
      /\ q.version = Newest
      /\ approval' = [approval EXCEPT ![r] = row]
      /\ Transition(r, p, "AUTHORIZED")
      /\ UNCHANGED <<now, policies, draft, request, authority, events>>
    BY DEF GrantApproval, MayConsume, policyVars
<1>2. /\ Sound(r) /\ q \in Request /\ payment[r] # None /\ payment[r] \in Payment
      /\ q.version \in DOMAIN policies
    BY <1>1, RowTypes DEF PurchaseInv, Sound, LifeSound
<1>3. q.amount \in Nat /\ q.version \in Nat
    BY <1>2 DEF Request
<1>4. p \in Payment /\ p.state = "APPROVAL_REQUIRED" /\ p.authorized = q.amount
      /\ p.captured = payment[r].captured /\ p.refunded = payment[r].refunded
    BY <1>1, <1>2, <1>3 DEF Payment
<1>5. row \in Approval /\ row # None
    <2>1. policies[q.version] \in Policy
        BY <1>2, ClockTypes
    <2>2. policies[q.version].expiry \in Nat
        BY <2>1 DEF Policy
    <2>3. row \in Approval
        BY <1>3, <2>2 DEF Approval
    <2> QED  BY <2>3, PurchaseAssumption
<1>6. row.consumed /\ row.version = q.version /\ row.by = Approver
    OBVIOUS
<1> HIDE DEF row, p, q
<1>7. /\ payment' = [payment EXCEPT ![r] = [p EXCEPT !.state = "AUTHORIZED"]]
      /\ [p EXCEPT !.state = "AUTHORIZED"] \in Payment
      /\ payment'[r] = [p EXCEPT !.state = "AUTHORIZED"]
      /\ reserved' \in [Actors -> [Days -> Nat]]
      /\ \A x \in Refs : x # r => payment'[x] = payment[x] /\ spend'[x] = spend[x]
      /\ BudgetsAgree(r)'
    <2>1. /\ request[r] # None /\ UNCHANGED request /\ "AUTHORIZED" \in States
          /\ p \in Payment /\ p.state = payment[r].state
        BY <1>1, <1>4 DEF States, q
    <2> QED  BY <1>1, <2>1, TransitionEffect
<1>8. /\ payment'[r].state = "AUTHORIZED" /\ payment'[r].authorized = q.amount
      /\ payment'[r].captured = payment[r].captured
      /\ payment'[r].refunded = payment[r].refunded
      /\ payment'[r] # None
    BY <1>4, <1>7, PurchaseAssumption DEF Payment
<1>9. PurchaseTypes'
    BY <1>1, <1>5, <1>7 DEF PurchaseInv, PurchaseTypes
<1>10. /\ approval'[r] = row /\ approval'[r] # None
       /\ \A x \in Refs : x # r => Untouched(x)
    BY <1>1, <1>5, <1>7 DEF PurchaseInv, PurchaseTypes, Untouched
<1>11. DraftSound(r)' /\ KeyFresh(r)'
    BY <1>1, <1>2 DEF Sound, DraftSound, KeyFresh, q
<1>12. LifeSound(r)' /\ q.verdict = "REQUIRE_APPROVAL"
    BY <1>1, <1>2, <1>8 DEF Sound, LifeSound, Reached, q
<1>13. Gated(r)'
    BY <1>1, <1>6, <1>8, <1>10, <1>12 DEF Gated, Beyond, q
<1>14. Explained(r) => Explained(r)'
    BY <1>1, <1>2, <1>8 DEF Explained, EventsOf, q
<1>15. StandsForDecision(r)'
    BY <1>1, <1>2, <1>10 DEF Sound, StandsForDecision, q
<1>16. Sound(r)'
    BY <1>7, <1>11, <1>12, <1>13, <1>15 DEF Sound
<1> QED  BY <1>9, <1>10, <1>14, <1>16, OneWritten DEF RequestsSound

LEMMA CancelDeadChainSound ==
    ASSUME PurchaseInv, HopsStay, NEW r \in Refs, CancelDeadChain(r)
    PROVE  RequestsSound' /\ StoryKept
<1> DEFINE p == payment[r]
<1>1. /\ request[r] # None /\ p.state = "AUTHORIZED"
      /\ Transition(r, p, "CANCELLED")
      /\ UNCHANGED <<now, policies, draft, request, approval, authority, events>>
    BY DEF CancelDeadChain, Issuable, policyVars
<1>2. Sound(r) /\ p \in Payment /\ p # None
    BY <1>1, RowTypes DEF PurchaseInv, Sound, LifeSound
<1>3. /\ payment' = [payment EXCEPT ![r] = [p EXCEPT !.state = "CANCELLED"]]
      /\ [p EXCEPT !.state = "CANCELLED"] \in Payment
      /\ payment'[r] = [p EXCEPT !.state = "CANCELLED"]
      /\ reserved' \in [Actors -> [Days -> Nat]]
      /\ \A x \in Refs : x # r => payment'[x] = payment[x] /\ spend'[x] = spend[x]
      /\ BudgetsAgree(r)'
    <2>1. /\ request[r] # None /\ UNCHANGED request /\ "CANCELLED" \in States
          /\ p.state = payment[r].state
        BY <1>1 DEF States
    <2> HIDE DEF p
    <2> QED  BY <1>1, <1>2, <2>1, TransitionEffect
<1>4. /\ payment'[r].state = "CANCELLED" /\ payment'[r].authorized = payment[r].authorized
      /\ payment'[r].captured = payment[r].captured
      /\ payment'[r].refunded = payment[r].refunded
      /\ payment'[r] # None
    BY <1>2, <1>3, PurchaseAssumption DEF Payment
<1>5. PurchaseTypes' /\ \A x \in Refs : x # r => Untouched(x)
    BY <1>1, <1>3 DEF PurchaseInv, PurchaseTypes, Untouched
<1>6. DraftSound(r)' /\ KeyFresh(r)' /\ LifeSound(r)'
    BY <1>1, <1>2, <1>4 DEF Sound, DraftSound, KeyFresh, LifeSound, Reached
<1>7. Gated(r)' /\ StandsForDecision(r)'
    BY <1>1, <1>2, <1>4 DEF Sound, Gated, Beyond, StandsForDecision
<1>8. Explained(r) => Explained(r)'
    BY <1>1, <1>2, <1>4 DEF Explained, EventsOf
<1>9. Sound(r)'
    BY <1>3, <1>6, <1>7 DEF Sound
<1> QED  BY <1>5, <1>8, <1>9, OneWritten DEF RequestsSound

LEMMA IssueAuthoritySound ==
    ASSUME PurchaseInv, HopsStay, NEW r \in Refs, IssueAuthority(r)
    PROVE  RequestsSound' /\ StoryKept
<1>1. PICK t \in Recent :
        /\ Issuable(r, t)
        /\ request[r].sku # None
        /\ request[r].verdict = "REQUIRE_APPROVAL" => approval[r] # None
        /\ authority' = [authority EXCEPT ![r] =
              [version |-> Newest, used |-> FALSE,
               expires |-> IF policies[Newest].expiry < t + AuthorityTtl
                           THEN policies[Newest].expiry ELSE t + AuthorityTtl]]
    BY DEF IssueAuthority
<1> DEFINE row == [version |-> Newest, used |-> FALSE,
               expires |-> IF policies[Newest].expiry < t + AuthorityTtl
                           THEN policies[Newest].expiry ELSE t + AuthorityTtl]
<1>2. /\ request[r] # None /\ payment[r].state = "AUTHORIZED" /\ request[r].version = Newest
      /\ Newest \in DOMAIN policies
    BY <1>1 DEF Issuable, InForce
<1>3. UNCHANGED <<policies, hop, spend, draft, request, payment, approval, reserved, events>>
    BY DEF IssueAuthority, chainVars
<1>4. policies[Newest].expiry \in Nat /\ t + AuthorityTtl \in Nat /\ Newest \in Nat
    <2>1. policies[Newest] \in Policy /\ t \in Nat /\ Newest \in Nat
        BY <1>2, ClockTypes
    <2> QED  BY <2>1, PurchaseAssumption DEF Policy
<1>5. row \in Authority /\ row.version = Newest /\ row.expires <= policies[Newest].expiry
    BY <1>4 DEF Authority
<1> HIDE DEF row
<1>6. PurchaseTypes' /\ authority'[r] = row /\ \A x \in Refs : x # r => Untouched(x)
    BY <1>1, <1>3, <1>5 DEF PurchaseInv, PurchaseTypes, Untouched, row
<1>7. Sound(r)
    BY DEF PurchaseInv
<1>8. DraftSound(r)' /\ KeyFresh(r)' /\ LifeSound(r)' /\ Gated(r)'
    <2>1. Granted' = Granted
        BY <1>3 DEF Granted
    <2>2. DraftSound(r)' /\ KeyFresh(r)'
        BY <1>2, <1>3, <1>7, <2>1 DEF Sound, DraftSound, KeyFresh
    <2> QED  BY <1>3, <1>7, <2>2 DEF Sound, LifeSound, Gated, Beyond
<1>9. BudgetsAgree(r)'
    BY <1>3, <1>7 DEF Sound, BudgetsAgree, Outstanding, Claims
<1>10. StandsForDecision(r)'
    BY <1>1, <1>2, <1>3, <1>5, <1>6, <1>7 DEF StandsForDecision, Sound, LifeSound
<1>11. Sound(r)'
    BY <1>8, <1>9, <1>10 DEF Sound
<1>12. Explained(r) => Explained(r)'
    BY <1>3 DEF Explained
<1> QED  BY <1>6, <1>11, <1>12, OneWritten DEF RequestsSound

LEMMA ConsumeAuthoritySound ==
    ASSUME PurchaseInv, HopsStay, NEW r \in Refs, ConsumeAuthority(r)
    PROVE  RequestsSound' /\ StoryKept
<1> DEFINE row == [authority[r] EXCEPT !.used = TRUE]
<1>1. /\ authority[r] # None /\ authority' = [authority EXCEPT ![r] = row]
      /\ UNCHANGED <<policies, hop, spend, draft, request, payment, approval, reserved, events>>
    BY DEF ConsumeAuthority, chainVars
<1>2. authority[r] \in Authority
    BY <1>1, RowTypes
<1>3. /\ row \in Authority /\ row.version = authority[r].version
      /\ row.expires = authority[r].expires
    BY <1>2 DEF Authority
<1> HIDE DEF row
<1>4. PurchaseTypes' /\ authority'[r] = row /\ \A x \in Refs : x # r => Untouched(x)
    BY <1>1, <1>3 DEF PurchaseInv, PurchaseTypes, Untouched
<1>5. Sound(r) /\ request[r] # None
    BY <1>1 DEF PurchaseInv, Sound, KeyFresh
<1>6. DraftSound(r)' /\ KeyFresh(r)' /\ LifeSound(r)' /\ Gated(r)'
    <2>1. Granted' = Granted
        BY <1>1 DEF Granted
    <2>2. DraftSound(r)' /\ KeyFresh(r)'
        BY <1>1, <1>5, <2>1 DEF Sound, DraftSound, KeyFresh
    <2> QED  BY <1>1, <1>5, <2>2 DEF Sound, LifeSound, Gated, Beyond
<1>7. BudgetsAgree(r)'
    BY <1>1, <1>5 DEF Sound, BudgetsAgree, Outstanding, Claims
<1>8. StandsForDecision(r)'
    BY <1>1, <1>3, <1>4, <1>5 DEF StandsForDecision, Sound
<1>9. Sound(r)'
    BY <1>6, <1>7, <1>8 DEF Sound
<1>10. Explained(r) => Explained(r)'
    BY <1>1 DEF Explained
<1> QED  BY <1>4, <1>9, <1>10, OneWritten DEF RequestsSound

(* The state machine lets each kind of event through from one state only.   *)
LEMMA EventMoves ==
    ASSUME PurchaseInv, NEW r \in Refs, NEW k \in Kinds, request[r] # None,
           Target(k) \in Legal(payment[r].state)
    PROVE  /\ Target(k) \in States
           /\ k = "authorized" => payment[r].state = "AUTHORIZED"
           /\ k = "captured" => payment[r].state = "PROVIDER_PENDING"
           /\ k = "failed" => payment[r].state = "PROVIDER_PENDING"
           /\ k = "refunded" => payment[r].state = "CAPTURED"
<1>1. payment[r].state \in Reached
    BY DEF PurchaseInv, Sound, LifeSound
<1>2. CASE k = "authorized"
    BY <1>1, <1>2 DEF Reached, Target, Legal, States
<1>3. CASE k = "captured"
    BY <1>1, <1>3 DEF Reached, Target, Legal, States
<1>4. CASE k = "failed"
    BY <1>1, <1>4 DEF Reached, Target, Legal, States
<1>5. CASE k = "refunded"
    BY <1>1, <1>5 DEF Reached, Target, Legal, States
<1> QED  BY <1>2, <1>3, <1>4, <1>5 DEF Kinds

LEMMA ProviderEventSound ==
    ASSUME PurchaseInv, HopsStay, NEW r \in Refs, NEW k \in Kinds, ProviderEvent(r, k)
    PROVE  RequestsSound' /\ StoryKept
<1> DEFINE p == WithAmounts(payment[r], k)
           to == Target(k)
<1>1. /\ payment[r] # None
      /\ Transition(r, p, to)
      /\ events' = [events EXCEPT ![r] = events[r] \cup {k}]
      /\ UNCHANGED <<now, policies, draft, request, approval, authority>>
    BY DEF ProviderEvent, policyVars
<1>2. Sound(r) /\ request[r] # None
    BY <1>1 DEF PurchaseInv, Sound, KeyFresh
<1>3. request[r] \in Request /\ payment[r] \in Payment
    BY <1>1, <1>2, RowTypes
<1>4. request[r].amount \in Nat /\ request[r].amount # None
    BY <1>3, PurchaseAssumption DEF Request
<1>5. /\ p \in Payment /\ p.state = payment[r].state /\ p.authorized = payment[r].authorized
      /\ p.captured = IF k = "captured"
                      THEN IF payment[r].authorized = None THEN 0 ELSE payment[r].authorized
                      ELSE payment[r].captured
      /\ p.refunded = IF k = "refunded" THEN payment[r].captured ELSE payment[r].refunded
    BY <1>3 DEF Payment, WithAmounts
<1> HIDE DEF p
<1>6. to \in Legal(payment[r].state)
    BY <1>1, <1>5 DEF Transition, MayMove
<1>7. /\ to \in States
      /\ k = "authorized" => payment[r].state = "AUTHORIZED"
      /\ k = "captured" => payment[r].state = "PROVIDER_PENDING"
      /\ k = "failed" => payment[r].state = "PROVIDER_PENDING"
      /\ k = "refunded" => payment[r].state = "CAPTURED"
    BY <1>2, <1>6, EventMoves
<1>8. to = CASE k = "authorized" -> "PROVIDER_PENDING" [] k = "captured" -> "CAPTURED"
             [] k = "failed" -> "FAILED" [] k = "refunded" -> "REFUNDED"
    BY DEF Target
<1> HIDE DEF to
<1>9. /\ payment' = [payment EXCEPT ![r] = [p EXCEPT !.state = to]]
      /\ [p EXCEPT !.state = to] \in Payment
      /\ payment'[r] = [p EXCEPT !.state = to]
      /\ reserved' \in [Actors -> [Days -> Nat]]
      /\ \A x \in Refs : x # r => payment'[x] = payment[x] /\ spend'[x] = spend[x]
      /\ BudgetsAgree(r)'
    BY <1>1, <1>2, <1>5, <1>7, TransitionEffect
<1>10. /\ payment'[r].state = to /\ payment'[r].authorized = p.authorized
       /\ payment'[r].captured = p.captured /\ payment'[r].refunded = p.refunded
       /\ payment'[r] # None
    BY <1>5, <1>9, PurchaseAssumption DEF Payment
<1>11. events'[r] = events[r] \cup {k}
    BY <1>1 DEF PurchaseInv, PurchaseTypes
<1>12. PurchaseTypes' /\ \A x \in Refs : x # r => Untouched(x)
    <2>1. events' \in [Refs -> SUBSET Kinds]
        BY <1>1 DEF PurchaseInv, PurchaseTypes
    <2>2. \A x \in Refs : x # r => events'[x] = events[x]
        BY <1>1 DEF PurchaseInv, PurchaseTypes
    <2> QED  BY <1>1, <1>9, <2>1, <2>2 DEF PurchaseInv, PurchaseTypes, Untouched
<1>13. Beyond(r) /\ payment[r].authorized = request[r].amount /\ payment[r].state # "DENIED"
    <2>1. Beyond(r)
        BY <1>7 DEF Beyond, Kinds
    <2> QED  BY <1>2, <2>1 DEF Sound, Gated, Beyond
<1>14. to \in {"PROVIDER_PENDING", "CAPTURED", "FAILED", "REFUNDED"}
    BY <1>8 DEF Kinds
<1>15. DraftSound(r)' /\ KeyFresh(r)'
    BY <1>1, <1>2 DEF Sound, DraftSound, KeyFresh
<1>16. LifeSound(r)'
    BY <1>1, <1>2, <1>10, <1>13, <1>14 DEF Sound, LifeSound, Reached
<1>17. Gated(r)'
    BY <1>1, <1>2, <1>5, <1>10, <1>13, <1>14 DEF Sound, Gated, Beyond
<1>18. StandsForDecision(r)'
    BY <1>1, <1>2 DEF Sound, StandsForDecision
<1>19. ASSUME Explained(r) PROVE Explained(r)'
    <2>1. /\ events[r] = EventsOf(payment[r].state)
          /\ payment[r].captured = IF "captured" \in events[r] THEN request[r].amount ELSE 0
          /\ payment[r].refunded = IF "refunded" \in events[r] THEN request[r].amount ELSE 0
        BY <1>1, <1>19 DEF Explained
    <2>2. CASE k = "authorized"
        <3>1. events'[r] = {"authorized"} /\ to = "PROVIDER_PENDING" /\ events[r] = {}
            BY <1>7, <1>8, <1>11, <2>1, <2>2 DEF EventsOf
        <3> QED  BY <1>1, <1>5, <1>10, <2>1, <2>2, <3>1 DEF Explained, EventsOf
    <2>3. CASE k = "captured"
        <3>1. events'[r] = {"authorized", "captured"} /\ to = "CAPTURED"
              /\ events[r] = {"authorized"}
            BY <1>7, <1>8, <1>11, <2>1, <2>3 DEF EventsOf
        <3> QED  BY <1>1, <1>4, <1>5, <1>10, <1>13, <2>1, <2>3, <3>1 DEF Explained, EventsOf
    <2>4. CASE k = "failed"
        <3>1. events'[r] = {"authorized", "failed"} /\ to = "FAILED"
              /\ events[r] = {"authorized"}
            BY <1>7, <1>8, <1>11, <2>1, <2>4 DEF EventsOf
        <3> QED  BY <1>1, <1>5, <1>10, <2>1, <2>4, <3>1 DEF Explained, EventsOf
    <2>5. CASE k = "refunded"
        <3>1. events'[r] = {"authorized", "captured", "refunded"} /\ to = "REFUNDED"
              /\ events[r] = {"authorized", "captured"}
            BY <1>7, <1>8, <1>11, <2>1, <2>5 DEF EventsOf
        <3> QED  BY <1>1, <1>5, <1>10, <2>1, <2>5, <3>1 DEF Explained, EventsOf
    <2> QED  BY <2>2, <2>3, <2>4, <2>5 DEF Kinds
<1>20. Sound(r)'
    BY <1>9, <1>15, <1>16, <1>17, <1>18 DEF Sound
<1> QED  BY <1>12, <1>19, <1>20, OneWritten DEF RequestsSound

-----------------------------------------------------------------------------
(* Every behaviour. *)

LEMMA PurchaseInvInit == Init => PurchaseInv
<1> SUFFICES ASSUME Init PROVE PurchaseInv
    OBVIOUS
<1>1. ChainInv
    BY ChainInvInit DEF Init
<1>2. PurchaseTypes
    BY DEF Init, PurchaseTypes
<1>3. ASSUME NEW r \in Refs PROVE Sound(r)
    BY DEF Init, DelegationInit, Sound, DraftSound, KeyFresh, LifeSound, Gated,
           StandsForDecision, BudgetsAgree, Outstanding, Claims
<1> QED  BY <1>1, <1>2, <1>3 DEF PurchaseInv

LEMMA PurchaseInvStep ==
    ASSUME PurchaseInv, Next
    PROVE  PurchaseInv' /\ StoryKept
<1>1. ChainInv' /\ HopsStay
    BY NextIsChainStep, ChainStepKeeps DEF PurchaseInv
<1>2. RequestsSound' /\ StoryKept
    <2>1. CASE Govern /\ UNCHANGED purchaseVars
        BY <1>1, <2>1, GovernSound
    <2>2. ASSUME NEW r \in Refs, NEW a \in Actors, NEW n \in Amounts,
                 NEW s \in Skus \cup {None}, NEW b \in BOOLEAN, Decide(r, a, n, s, b)
          PROVE  RequestsSound' /\ StoryKept
        BY <1>1, <2>2, DecideSound
    <2>3. ASSUME NEW r \in Refs, Abort(r) PROVE RequestsSound' /\ StoryKept
        BY <1>1, <2>3, AbortSound
    <2>4. ASSUME NEW r \in Refs, Accept(r) PROVE RequestsSound' /\ StoryKept
        BY <1>1, <2>4, AcceptSound
    <2>5. ASSUME NEW r \in Refs, Refuse(r) PROVE RequestsSound' /\ StoryKept
        BY <1>1, <2>5, RefuseSound
    <2>6. ASSUME NEW r \in Refs, GrantApproval(r) PROVE RequestsSound' /\ StoryKept
        BY <1>1, <2>6, GrantApprovalSound
    <2>7. ASSUME NEW r \in Refs, CancelDeadChain(r) PROVE RequestsSound' /\ StoryKept
        BY <1>1, <2>7, CancelDeadChainSound
    <2>8. ASSUME NEW r \in Refs, IssueAuthority(r) PROVE RequestsSound' /\ StoryKept
        BY <1>1, <2>8, IssueAuthoritySound
    <2>9. ASSUME NEW r \in Refs, ConsumeAuthority(r) PROVE RequestsSound' /\ StoryKept
        BY <1>1, <2>9, ConsumeAuthoritySound
    <2>10. ASSUME NEW r \in Refs, NEW k \in Kinds, ProviderEvent(r, k) PROVE RequestsSound' /\ StoryKept
        BY <1>1, <2>10, ProviderEventSound
    <2> QED
        BY <2>1, <2>2, <2>3, <2>4, <2>5, <2>6, <2>7, <2>8, <2>9, <2>10 DEF Next
<1> QED  BY <1>1, <1>2 DEF PurchaseInv, RequestsSound

LEMMA PurchaseInvStutter ==
    ASSUME PurchaseInv, UNCHANGED vars
    PROVE  PurchaseInv'
<1>1. UNCHANGED chainVars /\ UNCHANGED purchaseVars /\ spend' = spend
    BY DEF vars, chainVars, purchaseVars
<1>2. ChainInv' /\ HopsStay
    BY <1>1, ChainStepKeeps DEF PurchaseInv, ChainStep
<1>3. \A r \in Refs : Untouched(r)
    BY <1>1 DEF Untouched, purchaseVars
<1>4. PurchaseTypes'
    BY <1>1 DEF purchaseVars, PurchaseInv, PurchaseTypes
<1> QED  BY <1>2, <1>3, <1>4, Framed DEF PurchaseInv

(* The inductive invariant holds in every behaviour of the pipeline. *)
THEOREM PurchaseInvariant == Spec => []PurchaseInv
<1>1. PurchaseInv /\ [Next]_vars => PurchaseInv'
    BY PurchaseInvStep, PurchaseInvStutter
<1> QED  BY <1>1, PurchaseInvInit, PTL DEF Spec

(* Types: no counter, amount or reservation leaves the naturals. *)
THEOREM PurchaseTypeCorrect == Spec => []TypeOK
<1>1. PurchaseInv => TypeOK
    BY DEF PurchaseInv, PurchaseTypes, ChainInv, TypeOK
<1> QED  BY <1>1, PurchaseInvariant, PTL

(* The pipeline uses the chain only as the chain's own specification allows: *)
(* it spends a fresh reference after the whole chain agreed, and gives back *)
(* what it spent (payment_requests.py, transitions.py).                    *)
THEOREM PurchasesImplementDelegation == Spec => DelegationSpec
<1>1. PurchaseInv /\ [Next]_vars => [DelegationNext]_chainVars
    BY NextIsChainStep DEF ChainStep, vars, chainVars
<1>2. Init => DelegationInit
    BY DEF Init
<1> QED  BY <1>1, <1>2, PurchaseInvariant, PTL DEF Spec, DelegationSpec

(* No purchase passes its approval gate: not by any order of approvals,     *)
(* policy changes, revocations and events (transitions.py, approvals.py).  *)
THEOREM ApprovalIsRequired == Spec => []ApprovalGate
<1>1. PurchaseInv => ApprovalGate
    BY DEF PurchaseInv, Sound, ApprovalGate
<1> QED  BY <1>1, PurchaseInvariant, PTL

(* A delegation spend is outstanding exactly while its payment holds the    *)
(* day's budget.                                                           *)
THEOREM BudgetsHeldTogether == Spec => []BothBudgetsOrNeither
<1>1. PurchaseInv => BothBudgetsOrNeither
    BY DEF PurchaseInv, Sound, BothBudgetsOrNeither
<1> QED  BY <1>1, PurchaseInvariant, PTL

(* The accepted events are the explanation of the payment (webhooks.py).    *)
THEOREM EventsAreTheExplanation == Spec => []EventsExplainPayment
<1>1. Init => EventsExplainPayment
    BY DEF Init, EventsExplainPayment, Explained
<1>2. PurchaseInv /\ EventsExplainPayment /\ [Next]_vars => EventsExplainPayment'
    <2>1. ASSUME EventsExplainPayment, UNCHANGED vars PROVE EventsExplainPayment'
        BY <2>1 DEF vars, EventsExplainPayment, Explained
    <2> QED  BY <2>1, PurchaseInvStep DEF StoryKept, EventsExplainPayment
<1> QED  BY <1>1, <1>2, PurchaseInvariant, PTL DEF Spec

(* An authority never outlives or outruns the decision it was cut from      *)
(* (checkout_authorities.py, issue_checkout_authority).                    *)
THEOREM AuthoritiesStand == Spec => []AuthorityStandsForDecision
<1>1. PurchaseInv => AuthorityStandsForDecision
    BY DEF PurchaseInv, Sound, AuthorityStandsForDecision
<1> QED  BY <1>1, PurchaseInvariant, PTL

LEMMA OnlyConsumptionUses ==
    ASSUME PurchaseInv, Next, NEW r \in Refs,
           authority[r] # None, ~authority[r].used, authority'[r].used
    PROVE  ConsumeAuthority(r)
<1>0. authority' # authority /\ authority'[r] # authority[r]
    OBVIOUS
<1>1. \E q \in Refs : IssueAuthority(q) \/ ConsumeAuthority(q)
    BY <1>0 DEF Next, purchaseVars, Decide, Abort, Accept, Refuse, GrantApproval,
                CancelDeadChain, ProviderEvent
<1>2. PICK q \in Refs : IssueAuthority(q) \/ ConsumeAuthority(q)
    BY <1>1
<1>3. q = r
    BY <1>0, <1>2 DEF IssueAuthority, ConsumeAuthority, PurchaseInv, PurchaseTypes
<1>4. ~IssueAuthority(r)
    BY DEF IssueAuthority
<1> QED  BY <1>2, <1>3, <1>4

LEMMA ConsumptionIsGated ==
    ASSUME PurchaseInv, NEW r \in Refs, ConsumeAuthority(r)
    PROVE  GoesToProvider(r)
<1>1. PICK t \in Recent : t < authority[r].expires /\ ChainAgrees(r, t)
    BY DEF ConsumeAuthority
<1>2. /\ authority[r] # None /\ payment[r].state = "AUTHORIZED"
      /\ authority[r].version = Newest
    BY DEF ConsumeAuthority
<1>3. request[r].version = Newest
    BY <1>2 DEF PurchaseInv, Sound, StandsForDecision
<1>4. authority[r].expires \in Nat
    BY <1>2, RowTypes DEF Authority
<1>5. now < authority[r].expires + MaxWait
    <2>1. now \in Nat /\ t \in Nat /\ MaxWait \in Nat /\ now <= t + MaxWait
        BY ClockTypes, PoliciesAssumption DEF Recent
    <2> QED  BY <1>1, <1>4, <2>1
<1>6. request[r].delegation # None => \A a \in Chain(request[r].delegation) : ~hop[a].revoked
    BY <1>1 DEF ChainAgrees, ChainLive, Live
<1> QED  BY <1>2, <1>3, <1>5, <1>6 DEF GoesToProvider

(* The last gate before a provider order, for every chain and every policy  *)
(* history (checkout_authorities.py, consume_checkout_authority).          *)
THEOREM LastGateHolds == Spec => ConsumedOnlyWhileAuthorized
<1>1. PurchaseInv /\ [Next]_vars => [ConsumptionsGated]_vars
    BY OnlyConsumptionUses, ConsumptionIsGated DEF ConsumptionsGated
<1> QED  BY <1>1, PurchaseInvariant, PTL DEF Spec, ConsumedOnlyWhileAuthorized

(* What the chain promises on its own, it promises under the pipeline.       *)
THEOREM PurchasesKeepTheChain ==
    Spec => /\ []ChainNarrows
            /\ []OneHopPerActor
            /\ []CountersAreTheBooks
            /\ []BranchWithinBudget
            /\ SpendNeedsWholeChain
            /\ HistoryIsFixed
BY PurchasesImplementDelegation, AttenuationIsTransitive, ActorsHoldOneHop,
   CountersAreExact, BranchesStayWithinBudget, SpendsAreAgreed, HistoryNeverChanges, PTL

-----------------------------------------------------------------------------
(* The day's books.  On a day nothing straddled, the reservation is the sum  *)
(* of the claims; and of any of the claims one was decided under a daily   *)
(* limit that holds them all (the last of them: the others were there when *)
(* it was let in).  Asking it of every subset makes it survive a release.  *)
RecordedRefs == { r \in Refs : request[r] # None }

ClaimRows(Q) == [r \in Q |-> request[r].amount]

ReservedWhenAgreed(r) ==
    request[r] # None /\ request[r].verdict # "DENY" => request[r].reservedOn \in Days

OneLimitHolds(Q) ==
    Q # {} => \E r \in Q : SumFunction(ClaimRows(Q)) <= policies[request[r].version].daily

DayInOrder(a, day) ==
    ~Straddled(a, day) =>
        /\ reserved[a][day] = SumFunction(ClaimRows(ClaimsOn(a, day)))
        /\ \A Q \in SUBSET ClaimsOn(a, day) : OneLimitHolds(Q)

DaysInv ==
    /\ PurchaseInv
    /\ IsFiniteSet(RecordedRefs)
    /\ \A r \in Refs : ReservedWhenAgreed(r)
    /\ \A a \in Actors, day \in Days : DayInOrder(a, day)

LEMMA ClaimsFinite ==
    ASSUME DaysInv, NEW a, NEW day, NEW Q \in SUBSET ClaimsOn(a, day)
    PROVE  /\ Q \subseteq RecordedRefs /\ IsFiniteSet(Q)
           /\ \A r \in Q : /\ request[r] \in Request /\ request[r].amount \in Nat
                           /\ request[r].version \in DOMAIN policies
<1>1. Q \subseteq RecordedRefs
    BY DEF ClaimsOn, Claims, RecordedRefs
<1>2. IsFiniteSet(Q)
    BY <1>1, FS_Subset DEF DaysInv
<1>3. \A r \in Q : r \in Refs /\ request[r] # None
    BY <1>1 DEF RecordedRefs
<1>4. \A r \in Q : request[r] \in Request /\ request[r].version \in DOMAIN policies
    BY <1>3, RowTypes DEF DaysInv, PurchaseInv, Sound, LifeSound
<1> QED  BY <1>1, <1>2, <1>4 DEF Request

(* Recorded requests are never rewritten, so the sums over old claims and    *)
(* the limits they were decided under stay what they were.                 *)
OldRequestsKept == \A q \in Refs : request[q] # None => request'[q] = request[q]

LEMMA OldClaimsKept ==
    ASSUME DaysInv, OldRequestsKept, PoliciesKept,
           NEW a, NEW day, NEW Q \in SUBSET ClaimsOn(a, day)
    PROVE  ClaimRows(Q)' = ClaimRows(Q) /\ (OneLimitHolds(Q) => OneLimitHolds(Q)')
<1>1. \A r \in Q : request'[r] = request[r]
    BY ClaimsFinite DEF OldRequestsKept, RecordedRefs
<1>2. ClaimRows(Q)' = ClaimRows(Q)
    BY <1>1 DEF ClaimRows
<1>3. \A r \in Q : policies'[request[r].version] = policies[request[r].version]
    BY ClaimsFinite DEF PoliciesKept
<1> QED  BY <1>1, <1>2, <1>3 DEF OneLimitHolds

LEMMA StraddledStays ==
    ASSUME OldRequestsKept, NEW a, NEW day, Straddled(a, day)
    PROVE  Straddled(a, day)'
BY DEF OldRequestsKept, Straddled, Straddles

LEMMA DaysUnmoved ==
    ASSUME DaysInv, PurchaseInv', PoliciesKept, OldRequestsKept, reserved' = reserved,
           IsFiniteSet(RecordedRefs'), \A q \in Refs : ReservedWhenAgreed(q)',
           \A q \in Refs : Claims(q)' <=> Claims(q)
    PROVE  DaysInv'
<1>1. ASSUME NEW a \in Actors, NEW day \in Days, ~Straddled(a, day)'
      PROVE  /\ reserved'[a][day] = SumFunction(ClaimRows(ClaimsOn(a, day))')
             /\ \A Q \in SUBSET ClaimsOn(a, day)' : OneLimitHolds(Q)'
    <2>1. DayInOrder(a, day) /\ ~Straddled(a, day)
        BY <1>1, StraddledStays DEF DaysInv
    <2>2. ClaimsOn(a, day)' = ClaimsOn(a, day)
        BY DEF ClaimsOn, Claims, OldRequestsKept
    <2>3. ClaimRows(ClaimsOn(a, day))' = ClaimRows(ClaimsOn(a, day))
        <3>1. \A r \in ClaimsOn(a, day) : request'[r] = request[r]
            BY DEF ClaimsOn, Claims, OldRequestsKept
        <3> QED  BY <2>2, <3>1 DEF ClaimRows
    <2>4. \A Q \in SUBSET ClaimsOn(a, day) : OneLimitHolds(Q)'
        BY <2>1, OldClaimsKept DEF DayInOrder
    <2> QED  BY <2>1, <2>2, <2>3, <2>4 DEF DayInOrder
<1> QED  BY <1>1 DEF DaysInv, DayInOrder

(* Giving an amount back takes it from the sum it is part of, so the floor   *)
(* of release_daily_spend is never what decides.                           *)
LEMMA DaysReleased ==
    ASSUME DaysInv, PurchaseInv', PoliciesKept, request' = request, NEW r \in Refs,
           Claims(r), ~Claims(r)', \A q \in Refs \ {r} : Claims(q)' <=> Claims(q),
           ReleaseDay(request[r])
    PROVE  DaysInv'
<1> DEFINE q == request[r]
           home == DayOf[q.created]
<1>0. OldRequestsKept /\ RecordedRefs' = RecordedRefs
      /\ \A x \in Refs : ReservedWhenAgreed(x)'
    BY DEF OldRequestsKept, RecordedRefs, DaysInv, ReservedWhenAgreed
<1>1. q \in Request /\ q # None /\ q.verdict # "DENY" /\ q.reservedOn \in Days
    BY RowTypes DEF Claims, DaysInv, PurchaseInv, Sound, LifeSound, ReservedWhenAgreed
<1>2. q.actor \in Actors /\ home \in Days /\ q.amount \in Nat
    BY <1>1, ClockTypes DEF Request, DaysInv, PurchaseInv
<1>3. /\ reserved \in [Actors -> [Days -> Nat]]
      /\ reserved' = [reserved EXCEPT ![q.actor][home] = LeftAfter(@, q.amount)]
    BY DEF ReleaseDay, DaysInv, PurchaseInv, PurchaseTypes
<1> HIDE DEF home
<1>4. /\ reserved'[q.actor][home] = LeftAfter(reserved[q.actor][home], q.amount)
      /\ \A a \in Actors, day \in Days :
           a # q.actor \/ day # home => reserved'[a][day] = reserved[a][day]
    BY <1>2, <1>3
<1>5. ASSUME NEW a \in Actors, NEW day \in Days, ~Straddled(a, day)'
      PROVE  /\ reserved'[a][day] = SumFunction(ClaimRows(ClaimsOn(a, day))')
             /\ \A Q \in SUBSET ClaimsOn(a, day)' : OneLimitHolds(Q)'
    <2>1. DayInOrder(a, day) /\ ~Straddled(a, day)
        BY <1>0, <1>5, StraddledStays DEF DaysInv
    <2>2. ClaimsOn(a, day)' = ClaimsOn(a, day) \ {r}
        BY DEF ClaimsOn, Claims
    <2>3. ASSUME NEW Q \in SUBSET ClaimsOn(a, day)' PROVE OneLimitHolds(Q)'
        <3>1. Q \in SUBSET ClaimsOn(a, day)
            BY <2>2
        <3> QED  BY <1>0, <2>1, <3>1, OldClaimsKept DEF DayInOrder
    <2>4. a = q.actor => (r \in ClaimsOn(a, day) <=> day = home)
        <3>1. a = q.actor /\ q.reservedOn # home => day # home /\ day # q.reservedOn
            BY <1>1, <2>1, PurchaseAssumption DEF Straddled, Straddles, home
        <3>2. a = q.actor => (r \in ClaimsOn(a, day) <=> day = q.reservedOn)
            BY DEF ClaimsOn
        <3> QED  BY <3>1, <3>2
    <2>5. CASE a = q.actor /\ day = home
        <3> DEFINE S == ClaimsOn(a, day)
                   f == ClaimRows(S)
                   g == [x \in S \ {r} |-> request[x].amount]
        <3>1. r \in S
            BY <2>4, <2>5
        <3>2. IsFiniteSet(S) /\ \A x \in S : f[x] = request[x].amount /\ f[x] \in Nat
            BY ClaimsFinite DEF ClaimRows
        <3>3. DOMAIN f = S /\ DOMAIN g = S \ {r} /\ f[r] = q.amount
              /\ \A x \in S \ {r} : g[x] = f[x]
            BY <3>1 DEF ClaimRows
        <3>4. ClaimRows(ClaimsOn(a, day))' = g
            BY <2>2 DEF ClaimRows
        <3>5. reserved[a][day] = SumFunction(f)
            BY <2>1 DEF DayInOrder
        <3> HIDE DEF S, f, g
        <3>6. SumFunction(g) = SumFunction(f) - f[r]
            BY <3>1, <3>2, <3>3, RowRemoved
        <3>7. SumFunction(g) \in Nat
            <4>1. IsFiniteSet(DOMAIN g) /\ \A x \in DOMAIN g : g[x] \in Nat
                BY <3>2, <3>3, FS_Subset
            <4> QED  BY <4>1, ColumnNat
        <3>8. reserved[a][day] \in Nat
            BY <1>3
        <3>9. reserved'[a][day] = SumFunction(g)
            BY <1>2, <1>4, <2>5, <3>3, <3>5, <3>6, <3>7, <3>8 DEF LeftAfter
        <3> QED  BY <2>3, <3>4, <3>9
    <2>6. CASE ~(a = q.actor /\ day = home)
        <3>1. r \notin ClaimsOn(a, day)
            BY <2>4, <2>6 DEF ClaimsOn
        <3>2. ClaimRows(ClaimsOn(a, day))' = ClaimRows(ClaimsOn(a, day))
            BY <2>2, <3>1 DEF ClaimRows
        <3> QED  BY <1>4, <2>1, <2>3, <2>6, <3>2 DEF DayInOrder
    <2> QED  BY <2>5, <2>6
<1> QED  BY <1>0, <1>5 DEF DaysInv, DayInOrder

(* One more recorded request. *)
LEMMA RequestAdded ==
    ASSUME DaysInv, NEW r \in Refs, request[r] = None, request'[r] # None,
           \A q \in Refs : q # r => request'[q] = request[q]
    PROVE  OldRequestsKept /\ IsFiniteSet(RecordedRefs')
<1>1. RecordedRefs' = RecordedRefs \cup {r}
    BY DEF RecordedRefs
<1>2. IsFiniteSet(RecordedRefs')
    BY <1>1, FS_AddElement DEF DaysInv
<1> QED  BY <1>2 DEF OldRequestsKept

LEMMA DaysRefused ==
    ASSUME DaysInv, PurchaseInv', PoliciesKept, NEW r \in Refs, Refuse(r)
    PROVE  DaysInv'
<1>1. draft[r] # None /\ request[r] = None /\ Recorded(r, draft[r], "DENY", None, None)
      /\ reserved' = reserved
    BY DEF Refuse, DaysInv, PurchaseInv, Sound, DraftSound
<1>2. /\ request'[r] # None /\ request'[r].verdict = "DENY" /\ payment'[r].state = "DENIED"
      /\ \A q \in Refs : q # r => request'[q] = request[q] /\ payment'[q] = payment[q]
    BY <1>1, RecordedEffect DEF Verdicts, DaysInv
<1>3. OldRequestsKept /\ IsFiniteSet(RecordedRefs')
    BY <1>1, <1>2, RequestAdded
<1>4. \A q \in Refs : ReservedWhenAgreed(q)'
    BY <1>2 DEF DaysInv, ReservedWhenAgreed
<1>5. \A q \in Refs : Claims(q)' <=> Claims(q)
    BY <1>1, <1>2 DEF Claims
<1> QED  BY <1>1, <1>3, <1>4, <1>5, DaysUnmoved

(* Accepting a request adds it to the claims on the day it reserved, and the *)
(* limit it was held to is one that all of that day's claims are within.   *)
LEMMA DaysAccepted ==
    ASSUME DaysInv, PurchaseInv', PoliciesKept, NEW r \in Refs, Accept(r)
    PROVE  DaysInv'
<1>1. PICK t \in Recent, u \in Times :
        /\ ClaimsHold(draft[r], DayOf[u], t)
        /\ reserved' = [reserved EXCEPT ![draft[r].actor][DayOf[u]] = @ + draft[r].amount]
        /\ Recorded(r, draft[r], draft[r].verdict, draft[r].held, DayOf[u])
    BY DEF Accept
<1>2. PICK d : d = draft[r]
    OBVIOUS
<1>3. PICK home : home = DayOf[u]
    OBVIOUS
<1>4. /\ draft[r] # None /\ d \in Draft /\ request[r] = None /\ home \in Days
      /\ UNCHANGED policies
    BY <1>2, <1>3, RowTypes, ClockTypes
    DEF Accept, DaysInv, PurchaseInv, Sound, DraftSound, policyVars
<1>5. /\ d.actor \in Actors /\ d.amount \in Nat /\ d.verdict \in Verdicts \ {"DENY"}
      /\ d.held \in Hops \cup {None} /\ d.version \in DOMAIN policies
      /\ reserved[d.actor][home] + d.amount <= policies[d.version].daily
    BY <1>1, <1>2, <1>3, <1>4 DEF Draft, ClaimsHold, DayHasRoom, Recorded
<1>6. /\ request'[r] # None /\ request'[r].actor = d.actor /\ request'[r].amount = d.amount
      /\ request'[r].verdict = d.verdict
      /\ payment'[r].state \in {"AUTHORIZED", "APPROVAL_REQUIRED"}
      /\ \A q \in Refs : q # r => request'[q] = request[q] /\ payment'[q] = payment[q]
    BY <1>1, <1>2, <1>3, <1>4, <1>5, RecordedEffect DEF Verdicts, DaysInv
<1>7. request'[r].version = d.version /\ request'[r].reservedOn = home
    BY <1>1, <1>2, <1>3 DEF Recorded, DaysInv, PurchaseInv, PurchaseTypes
<1>8. OldRequestsKept /\ IsFiniteSet(RecordedRefs')
    BY <1>4, <1>6, RequestAdded
<1>9. \A q \in Refs : ReservedWhenAgreed(q)'
    BY <1>4, <1>6, <1>7 DEF DaysInv, ReservedWhenAgreed
<1>10. Claims(r)' /\ ~Claims(r) /\ \A q \in Refs : q # r => (Claims(q)' <=> Claims(q))
    BY <1>4, <1>6 DEF Claims
<1>11. /\ reserved'[d.actor][home] = reserved[d.actor][home] + d.amount
       /\ \A a \in Actors, day \in Days :
            a # d.actor \/ day # home => reserved'[a][day] = reserved[a][day]
    BY <1>1, <1>2, <1>3, <1>4, <1>5 DEF DaysInv, PurchaseInv, PurchaseTypes
<1>12. ASSUME NEW a \in Actors, NEW day \in Days, ~Straddled(a, day)'
       PROVE  /\ reserved'[a][day] = SumFunction(ClaimRows(ClaimsOn(a, day))')
              /\ \A Q \in SUBSET ClaimsOn(a, day)' : OneLimitHolds(Q)'
    <2>1. DayInOrder(a, day) /\ ~Straddled(a, day)
        BY <1>8, <1>12, StraddledStays DEF DaysInv
    <2>2. \A Q \in SUBSET ClaimsOn(a, day) : OneLimitHolds(Q)'
        BY <1>8, <2>1, OldClaimsKept DEF DayInOrder
    <2>3. CASE a = d.actor /\ day = home
        <3>1. PICK S : S = ClaimsOn(a, day)
            OBVIOUS
        <3>2. PICK f : f = ClaimRows(S)
            OBVIOUS
        <3>3. PICK g : g = ClaimRows(S \cup {r})'
            OBVIOUS
        <3>4. ClaimsOn(a, day)' = S \cup {r} /\ r \notin S
            BY <1>6, <1>7, <1>10, <2>3, <3>1 DEF ClaimsOn
        <3>5. IsFiniteSet(S) /\ \A x \in S : request[x].amount \in Nat /\ request'[x] = request[x]
            BY <1>8, <3>1, ClaimsFinite DEF OldRequestsKept, RecordedRefs
        <3>6. /\ DOMAIN f = S /\ DOMAIN g = S \cup {r} /\ g[r] = d.amount
              /\ \A x \in S : f[x] \in Nat /\ g[x] = f[x]
            BY <1>6, <3>2, <3>3, <3>5 DEF ClaimRows
        <3>7. SumFunction(g) = SumFunction(f) + d.amount
            BY <1>5, <3>4, <3>5, <3>6, RowAdded
        <3>8. reserved[a][day] = SumFunction(f)
            BY <2>1, <3>1, <3>2 DEF DayInOrder
        <3>9. reserved'[a][day] = SumFunction(g)
            BY <1>11, <2>3, <3>7, <3>8
        <3>10. SumFunction(g) <= policies[d.version].daily
            BY <1>5, <2>3, <3>7, <3>8
        <3>11. ASSUME NEW Q \in SUBSET (S \cup {r}) PROVE OneLimitHolds(Q)'
            <4>1. CASE r \notin Q
                BY <2>2, <3>1, <4>1
            <4>2. CASE r \in Q
                <5>1. PICK k : k = ClaimRows(Q)'
                    OBVIOUS
                <5>2. DOMAIN k = Q /\ \A x \in Q : k[x] = g[x]
                    BY <3>3, <5>1 DEF ClaimRows
                <5>3. IsFiniteSet(DOMAIN g) /\ \A x \in DOMAIN g : g[x] \in Nat
                    BY <1>5, <3>5, <3>6, FS_AddElement
                <5>4. DOMAIN k \subseteq DOMAIN g
                    BY <3>6, <5>2
                <5>5. SumFunction(k) <= SumFunction(g)
                    BY <5>2, <5>3, <5>4, ColumnSubset
                <5>6. SumFunction(k) \in Int /\ SumFunction(g) \in Int
                      /\ policies[d.version].daily \in Int
                    <6>1. IsFiniteSet(DOMAIN k) /\ \A x \in DOMAIN k : k[x] \in Nat
                        BY <5>2, <5>3, <5>4, FS_Subset
                    <6>2. policies[d.version] \in Policy
                        BY <1>5, ClockTypes DEF DaysInv
                    <6> QED  BY <5>3, <6>1, <6>2, ColumnNat DEF Policy
                <5>7. SumFunction(k) <= policies[d.version].daily
                    BY <3>10, <5>5, <5>6
                <5>8. SumFunction(ClaimRows(Q)') <= policies'[request'[r].version].daily
                    BY <1>4, <1>7, <5>1, <5>7
                <5> QED  BY <4>2, <5>8 DEF OneLimitHolds
            <4> QED  BY <4>1, <4>2
        <3> QED  BY <3>3, <3>4, <3>9, <3>11
    <2>4. CASE ~(a = d.actor /\ day = home)
        <3>1. ClaimsOn(a, day)' = ClaimsOn(a, day)
            BY <1>4, <1>6, <1>7, <1>10, <2>4 DEF ClaimsOn, Claims
        <3>2. ClaimRows(ClaimsOn(a, day))' = ClaimRows(ClaimsOn(a, day))
            BY <1>8, <3>1, OldClaimsKept DEF ClaimRows
        <3> QED  BY <1>11, <2>1, <2>2, <2>4, <3>1, <3>2 DEF DayInOrder
    <2> QED  BY <2>3, <2>4
<1> QED  BY <1>8, <1>9, <1>12 DEF DaysInv, DayInOrder

(* A move of one recorded payment: it keeps its claim and the day stays as   *)
(* it was, or it dies out of a state that holds the day and gives it back. *)
LEMMA DaysMoved ==
    ASSUME DaysInv, PurchaseInv', PoliciesKept, request' = request,
           NEW r \in Refs, request[r] # None,
           NEW p \in Payment, p.state = payment[r].state, NEW to \in States,
           Transition(r, p, to)
    PROVE  DaysInv'
<1>1. /\ to \in Legal(payment[r].state) /\ payment'[r] = [p EXCEPT !.state = to]
      /\ \A q \in Refs : q # r => payment'[q] = payment[q]
    BY TransitionEffect DEF DaysInv
<1>2. payment'[r].state = to /\ payment[r].state \in Reached
    BY <1>1 DEF Payment, DaysInv, PurchaseInv, Sound, LifeSound
<1>3. Claims(r) /\ \A q \in Refs : q # r => (Claims(q)' <=> Claims(q))
    BY <1>1, <1>2 DEF Claims, Legal, Reached
<1>4. CASE to \in Releasing
    <2>1. payment[r].state \in Holding
        BY <1>1, <1>2, <1>4 DEF Reached, Legal, Releasing, Holding
    <2>2. ReleaseDay(request[r])
        BY <1>4, <2>1 DEF Transition
    <2>3. ~Claims(r)'
        BY <1>2, <1>4 DEF Claims, Releasing
    <2> QED  BY <1>3, <2>2, <2>3, DaysReleased
<1>5. CASE to \notin Releasing
    <2>1. reserved' = reserved
        BY <1>5 DEF Transition
    <2>2. Claims(r)'
        BY <1>2, <1>5 DEF Claims, Releasing
    <2>3. RecordedRefs' = RecordedRefs /\ OldRequestsKept
          /\ \A q \in Refs : ReservedWhenAgreed(q)'
        BY DEF RecordedRefs, OldRequestsKept, DaysInv, ReservedWhenAgreed
    <2> QED  BY <1>3, <2>1, <2>2, <2>3, DaysUnmoved DEF DaysInv
<1> QED  BY <1>4, <1>5

LEMMA DaysLeft ==
    ASSUME DaysInv, PurchaseInv', PoliciesKept, UNCHANGED <<request, payment, reserved>>
    PROVE  DaysInv'
<1>1. RecordedRefs' = RecordedRefs /\ OldRequestsKept
      /\ (\A q \in Refs : ReservedWhenAgreed(q)') /\ \A q \in Refs : Claims(q)' <=> Claims(q)
    BY DEF RecordedRefs, OldRequestsKept, DaysInv, ReservedWhenAgreed, Claims
<1> QED  BY <1>1, DaysUnmoved DEF DaysInv

LEMMA DaysInvStep ==
    ASSUME DaysInv, Next
    PROVE  DaysInv'
<1>1. PurchaseInv' /\ PoliciesKept
    BY PurchaseInvStep, NextIsChainStep, ChainStepKeeps DEF DaysInv, PurchaseInv, HopsStay
<1>2. ASSUME NEW r \in Refs, Accept(r) PROVE DaysInv'
    BY <1>1, <1>2, DaysAccepted
<1>3. ASSUME NEW r \in Refs, Refuse(r) PROVE DaysInv'
    BY <1>1, <1>3, DaysRefused
<1>4. ASSUME NEW r \in Refs, GrantApproval(r) PROVE DaysInv'
    <2>1. PICK q : q = request[r]
        OBVIOUS
    <2>2. /\ q # None /\ request' = request
          /\ Transition(r, [payment[r] EXCEPT !.authorized = q.amount], "AUTHORIZED")
        BY <1>4, <2>1 DEF GrantApproval
    <2>3. payment[r] \in Payment /\ q.amount \in Nat
        BY <2>1, <2>2, RowTypes DEF DaysInv, PurchaseInv, Sound, LifeSound, Request
    <2>4. PICK p : p = [payment[r] EXCEPT !.authorized = q.amount]
        OBVIOUS
    <2>5. p \in Payment /\ p.state = payment[r].state
        BY <2>3, <2>4 DEF Payment
    <2> QED  BY <1>1, <2>1, <2>2, <2>4, <2>5, DaysMoved DEF States
<1>5. ASSUME NEW r \in Refs, CancelDeadChain(r) PROVE DaysInv'
    <2>1. request[r] # None /\ request' = request /\ Transition(r, payment[r], "CANCELLED")
        BY <1>5 DEF CancelDeadChain, Issuable
    <2>2. payment[r] \in Payment
        BY <2>1, RowTypes DEF DaysInv, PurchaseInv, Sound, LifeSound
    <2> QED  BY <1>1, <2>1, <2>2, DaysMoved DEF States
<1>6. ASSUME NEW r \in Refs, NEW k \in Kinds, ProviderEvent(r, k) PROVE DaysInv'
    <2>1. PICK p : p = WithAmounts(payment[r], k)
        OBVIOUS
    <2>2. payment[r] # None /\ request' = request /\ Transition(r, p, Target(k))
        BY <1>6, <2>1 DEF ProviderEvent
    <2>3. request[r] # None /\ payment[r] \in Payment
        BY <2>2, RowTypes DEF DaysInv, PurchaseInv, Sound, KeyFresh
    <2>4. p \in Payment /\ p.state = payment[r].state
        BY <2>1, <2>3 DEF Payment, WithAmounts
    <2>5. Target(k) \in States
        BY DEF Target, States, Kinds
    <2> QED  BY <1>1, <2>2, <2>3, <2>4, <2>5, DaysMoved
<1>7. ASSUME \/ Govern /\ UNCHANGED purchaseVars
             \/ \E r \in Refs :
                  \/ \E a \in Actors, n \in Amounts, s \in Skus \cup {None}, b \in BOOLEAN :
                       Decide(r, a, n, s, b)
                  \/ Abort(r)
                  \/ IssueAuthority(r)
                  \/ ConsumeAuthority(r)
      PROVE  DaysInv'
    <2>1. UNCHANGED <<request, payment, reserved>>
        BY <1>7 DEF purchaseVars, Decide, Abort, IssueAuthority, ConsumeAuthority
    <2> QED  BY <1>1, <2>1, DaysLeft
<1> QED  BY <1>2, <1>3, <1>4, <1>5, <1>6, <1>7 DEF Next

LEMMA DaysInvInit == Init => DaysInv
<1> SUFFICES ASSUME Init PROVE DaysInv
    OBVIOUS
<1>1. PurchaseInv /\ \A r \in Refs : ReservedWhenAgreed(r)
    BY PurchaseInvInit DEF Init, ReservedWhenAgreed
<1>2. RecordedRefs = {} /\ IsFiniteSet(RecordedRefs)
    BY FS_EmptySet DEF Init, RecordedRefs
<1>3. ASSUME NEW a \in Actors, NEW day \in Days PROVE DayInOrder(a, day)
    <2>1. ClaimsOn(a, day) = {} /\ reserved[a][day] = 0
        BY DEF Init, ClaimsOn, Claims
    <2>2. DOMAIN ClaimRows({}) = {}
        BY DEF ClaimRows
    <2>3. SumFunction(ClaimRows({})) = 0
        BY <2>2, SumEmpty DEF SumFunction
    <2> QED  BY <2>1, <2>3 DEF DayInOrder, OneLimitHolds
<1> QED  BY <1>1, <1>2, <1>3 DEF DaysInv

(* The books of the days, as an invariant of every behaviour. *)
THEOREM DaysInvariant == Spec => []DaysInv
<1>1. DaysInv /\ UNCHANGED vars => DaysInv'
    <2> SUFFICES ASSUME DaysInv, UNCHANGED vars PROVE DaysInv'
        OBVIOUS
    <2>1. PurchaseInv'
        BY PurchaseInvStutter DEF DaysInv
    <2>2. PoliciesKept /\ UNCHANGED <<request, payment, reserved>>
        BY DEF vars, PoliciesKept
    <2> QED  BY <2>1, <2>2, DaysLeft
<1>2. DaysInv /\ [Next]_vars => DaysInv'
    BY <1>1, DaysInvStep
<1> QED  BY <1>2, DaysInvInit, PTL DEF Spec

LEMMA BooksOfTheDay ==
    ASSUME DaysInv
    PROVE  ReservationIsClaims /\ DayWithinLimit
<1>1. ReservationIsClaims
    BY DEF DaysInv, DayInOrder, ReservationIsClaims, Claimed, ClaimRows
<1>2. ASSUME NEW a \in Actors, NEW day \in Days,
             ClaimsOn(a, day) # {}, ~Straddled(a, day)
      PROVE  \E r \in ClaimsOn(a, day) :
                Claimed(ClaimsOn(a, day)) <= policies[request[r].version].daily
    <2>1. OneLimitHolds(ClaimsOn(a, day))
        BY <1>2 DEF DaysInv, DayInOrder
    <2> QED  BY <1>2, <2>1 DEF OneLimitHolds, Claimed, ClaimRows
<1> QED  BY <1>1, <1>2 DEF DayWithinLimit

(* Concurrent claims lose no update and a dead purchase gives back its own   *)
(* amount once: a day's reservation is the sum of the purchases that hold  *)
(* it, for every day no transaction straddled (evaluate.py,                *)
(* reserve_daily_spend and release_daily_spend).                           *)
THEOREM ReservationsAreExact == Spec => []ReservationIsClaims
BY BooksOfTheDay, DaysInvariant, PTL

(* The daily limit is a limit however requests interleave: the lock on the   *)
(* actor's day makes the claim of each answer for all claims before it.    *)
THEOREM DaysStayWithinLimit == Spec => []DayWithinLimit
BY BooksOfTheDay, DaysInvariant, PTL
=============================================================================
