------------------------------ MODULE Purchase ------------------------------
(***************************************************************************)
(* The life of one tenant's purchases: a request is decided against the    *)
(* newest policy, claims a day's budget and a delegation's in one          *)
(* transaction, may wait for a human approval, is issued one checkout      *)
(* authority which a provider adapter consumes once, and is then moved by  *)
(* the provider's signed events.                                           *)
(*                                                                         *)
(* An action is a committed transaction, with two exceptions.  Creating a  *)
(* request reads the policy, the day's reservation and the actor's hop     *)
(* without locks (Decide) and claims budget later (Record); and a handler  *)
(* may act on a clock reading it took up to MaxWait earlier.               *)
(***************************************************************************)
EXTENDS DelegationChain

CONSTANTS
    AuthorityTtl,  \* _AUTHORITY_TTL, in instants
    Approver       \* DEMO_APPROVER_ID: the one human who grants approvals

States == { "CREATED", "APPROVAL_REQUIRED", "AUTHORIZED", "PROVIDER_PENDING", "CAPTURED",
            "PARTIALLY_REFUNDED", "DENIED", "EXPIRED", "FAILED", "REFUNDED", "CANCELLED" }

(* Mutant: an approval can be skipped. *)
LegalSkippingApproval(s) ==
    CASE s = "APPROVAL_REQUIRED" -> {"AUTHORIZED", "DENIED", "EXPIRED", "PROVIDER_PENDING"}
      [] s = "AUTHORIZED"        -> {"PROVIDER_PENDING", "EXPIRED", "CANCELLED"}
      [] s = "PROVIDER_PENDING"  -> {"CAPTURED", "FAILED"}
      [] OTHER                   -> {}

Legal(s) ==
    CASE s = "CREATED"            -> {"APPROVAL_REQUIRED", "AUTHORIZED", "DENIED", "EXPIRED"}
      [] s = "APPROVAL_REQUIRED"  -> {"AUTHORIZED", "DENIED", "EXPIRED"}
      [] s = "AUTHORIZED"         -> {"PROVIDER_PENDING", "EXPIRED", "CANCELLED"}
      [] s = "PROVIDER_PENDING"   -> {"CAPTURED", "FAILED"}
      [] s = "CAPTURED"           -> {"REFUNDED", "PARTIALLY_REFUNDED"}
      [] s = "PARTIALLY_REFUNDED" -> {"PARTIALLY_REFUNDED", "REFUNDED"}
      [] OTHER                    -> {}

(* Mutant: a failed payment is forgotten. *)
ReleasingExceptFailed == {"DENIED", "EXPIRED", "CANCELLED"}

Releasing == {"DENIED", "EXPIRED", "FAILED", "CANCELLED"}
Holding   == {"APPROVAL_REQUIRED", "AUTHORIZED", "PROVIDER_PENDING"}
Captures  == {"CAPTURED", "PARTIALLY_REFUNDED", "REFUNDED"}

Verdicts == {"ALLOW", "REQUIRE_APPROVAL", "DENY"}
Kinds    == {"authorized", "captured", "failed", "refunded"}

(* A transaction that has evaluated a request and not committed yet.        *)
Draft == [actor : Actors, amount : Nat, sku : Skus \cup {None}, created : Times,
          read : Times, verdict : Verdicts, version : Nat, held : Hops \cup {None}]

(* payment_request with its authorization_decision.  reservedOn records the *)
(* date the reservation was made under, which the code does not store.     *)
Request == [actor : Actors, amount : Nat, sku : Skus \cup {None}, created : Times,
            verdict : Verdicts, version : Nat, delegation : Hops \cup {None},
            reservedOn : Days \cup {None}]

Payment == [state : States, authorized : Nat \cup {None}, captured : Nat, refunded : Nat]

Approval  == [version : Nat, by : {Approver}, expires : Nat, consumed : BOOLEAN]
Authority == [version : Nat, expires : Nat, used : BOOLEAN]

ASSUME PurchaseAssumption ==
    /\ AuthorityTtl \in Nat
    /\ None \notin Nat \cup Days \cup Draft \cup Request \cup Payment \cup Approval \cup Authority

VARIABLES
    draft,      \* requests inside their creating transaction
    request,    \* payment_request and its decision, by idempotency key
    payment,
    approval,
    authority,  \* checkout_authority
    reserved,   \* daily_spend_reservation, by actor and date
    events      \* provider_event: the kinds accepted for each payment

purchaseVars == <<draft, request, payment, approval, authority, reserved, events>>
vars == <<now, policies, hop, spend, draft, request, payment, approval, authority,
          reserved, events>>

-----------------------------------------------------------------------------
(* transition(): the only writer of a payment's state.                     *)
MayMove(p, to) ==
    /\ to \in Legal(p.state)
    /\ IF p.authorized = None
       THEN p.captured = 0 /\ p.state \notin Captures /\ to \notin Captures
       ELSE p.captured <= p.authorized
    /\ p.refunded <= p.captured

(* release_daily_spend: what is left of a reservation, never below zero.    *)
LeftAfter(n, amount) == IF n > amount THEN n - amount ELSE 0

(* Mutants: the reservation goes back to today; it can go below zero. *)
ReleaseToday(q) ==
    reserved' = [reserved EXCEPT ![q.actor][DayOf[now]] = LeftAfter(@, q.amount)]

ReleaseUnfloored(q) ==
    reserved' = [reserved EXCEPT ![q.actor][DayOf[q.created]] = @ - q.amount]

(* The reservation goes back to the date of the request's created_at.       *)
ReleaseDay(q) ==
    reserved' =
        [reserved EXCEPT ![q.actor][DayOf[q.created]] = LeftAfter(@, q.amount)]

(* p is the locked row with whatever its caller set on it before the move.  *)
Transition(r, p, to) ==
    /\ MayMove(p, to)
    /\ payment' = [payment EXCEPT ![r] = [p EXCEPT !.state = to]]
    /\ IF to \in Releasing /\ p.state \in Holding
       THEN ReleaseDay(request[r]) /\ GiveBack(r)
       ELSE UNCHANGED <<reserved, hop, spend>>

-----------------------------------------------------------------------------
(* Creating a request, first half: everything the transaction reads without *)
(* a lock.  created_at is the transaction's start.  The advisory lock on    *)
(* the idempotency key is held from here, so a key has one draft at most.  *)
Decide(r, a, n, s, permitted) ==
    /\ request[r] = None /\ draft[r] = None
    /\ \E c \in Recent :
         draft' = [draft EXCEPT ![r] =
           [actor |-> a, amount |-> n, sku |-> s, created |-> c, read |-> now,
            verdict |-> Evaluate(Newest, n, permitted, reserved[a][DayOf[now]], now),
            version |-> Newest, held |-> HeldBy(a, now)]]
    /\ UNCHANGED <<chainVars, request, payment, approval, authority, reserved, events>>

(* The transaction is lost: the connection drops or the commit fails.      *)
Abort(r) ==
    /\ draft[r] # None
    /\ draft' = [draft EXCEPT ![r] = None]
    /\ UNCHANGED <<chainVars, request, payment, approval, authority, reserved, events>>

(* reserve_daily_spend: against the limit of the version that was decided   *)
(* on, under the row lock of the actor's day.                              *)
(* Mutant: the limit the evaluation saw is believed.                       *)
DayHasRoomAsRead(d, day) == TRUE

DayHasRoom(d, day) == reserved[d.actor][day] + d.amount <= policies[d.version].daily

(* Mutant: a hop found live at the evaluation is not asked again. *)
ClaimsHoldUnasked(d, day, t) ==
    /\ d.verdict # "DENY"
    /\ DayHasRoom(d, day)
    /\ d.held # None => d.sku # None

ClaimsHold(d, day, t) ==
    /\ d.verdict # "DENY"
    /\ DayHasRoom(d, day)
    /\ d.held # None => d.sku # None /\ MaySpend(d.held, d.amount, d.sku, t)

(* The request, its decision and its payment, already moved out of CREATED. *)
(* fk_authorization_decision_policy_tenant: a decision cites a real policy, *)
(* so one taken with no policy at all (version 0) fails to insert and      *)
(* leaves only Abort.                                                      *)
Recorded(r, d, verdict, delegation, day) ==
    /\ d.version \in DOMAIN policies
    /\ request' = [request EXCEPT ![r] =
         [actor |-> d.actor, amount |-> d.amount, sku |-> d.sku, created |-> d.created,
          verdict |-> verdict, version |-> d.version, delegation |-> delegation,
          reservedOn |-> day]]
    /\ payment' = [payment EXCEPT ![r] =
         [state |-> CASE verdict = "ALLOW"            -> "AUTHORIZED"
                      [] verdict = "DENY"             -> "DENIED"
                      [] verdict = "REQUIRE_APPROVAL" -> "APPROVAL_REQUIRED",
          authorized |-> IF verdict = "ALLOW" THEN d.amount ELSE None,
          captured |-> 0, refunded |-> 0]]
    /\ draft' = [draft EXCEPT ![r] = None]

(* Creating a request, second half: both budgets are claimed or neither.    *)
(* The reservation's date is read after the evaluation and before the      *)
(* chain is asked, so it may be a later date than created_at's.            *)
Accept(r) ==
    LET d == draft[r] IN
    /\ d # None
    /\ \E t \in Recent, u \in Times :
         /\ d.read <= u /\ u <= t
         /\ ClaimsHold(d, DayOf[u], t)
         /\ reserved' = [reserved EXCEPT ![d.actor][DayOf[u]] = @ + d.amount]
         /\ Recorded(r, d, d.verdict, d.held, DayOf[u])
    /\ IF d.held # None
       THEN Charge(r, d.held, d.amount, d.sku)
       ELSE UNCHANGED <<hop, spend>>
    /\ UNCHANGED <<policyVars, approval, authority, events>>

Refuse(r) ==
    LET d == draft[r] IN
    /\ d # None
    /\ \E t \in Recent, u \in Times :
         d.read <= u /\ u <= t /\ ~ClaimsHold(d, DayOf[u], t)
    /\ Recorded(r, d, "DENY", None, None)
    /\ UNCHANGED <<chainVars, approval, authority, reserved, events>>

-----------------------------------------------------------------------------
(* _consume_approval, of the approval written in the same transaction: it   *)
(* expires with the policy it was decided under, which must be the newest. *)
MayConsume(q) == q.version = Newest /\ \E t \in Recent : InForce(q.version, t)

(* grant_approval: writes the approval, authorizes the amount and consumes  *)
(* the approval in the transition; any refusal undoes all three.           *)
GrantApproval(r) ==
    LET q == request[r]
        p == payment[r] IN
    /\ q # None
    /\ q.actor # Approver
    /\ p.state = "APPROVAL_REQUIRED"
    /\ approval[r] # None => approval[r].consumed
    /\ MayConsume(q)
    /\ approval' = [approval EXCEPT ![r] =
         [version |-> q.version, by |-> Approver, expires |-> policies[q.version].expiry,
          consumed |-> TRUE]]
    /\ Transition(r, [p EXCEPT !.authorized = q.amount], "AUTHORIZED")
    /\ UNCHANGED <<policyVars, draft, request, authority, events>>

-----------------------------------------------------------------------------
(* issue_checkout_authority, up to the question it asks the chain.          *)
(* Mutant: the decision's policy version is not compared with the newest.  *)
IssuableUnderAnyPolicy(r, t) ==
    /\ request[r] # None
    /\ payment[r].state = "AUTHORIZED"
    /\ InForce(Newest, t)

Issuable(r, t) ==
    /\ request[r] # None
    /\ payment[r].state = "AUTHORIZED"
    /\ request[r].version = Newest
    /\ InForce(Newest, t)

(* Mutant: only the hop the request names is asked. *)
LeafAgrees(r, t) == request[r].delegation # None => Live(request[r].delegation, t)

ChainAgrees(r, t) == request[r].delegation # None => ChainLive(request[r].delegation, t)

(* A dead chain cancels the payment, which returns both budgets.            *)
CancelDeadChain(r) ==
    /\ \E t \in Recent : Issuable(r, t) /\ ~ChainAgrees(r, t)
    /\ Transition(r, payment[r], "CANCELLED")
    /\ UNCHANGED <<policyVars, draft, request, approval, authority, events>>

(* Asked again, the route returns the authority it already issued, or       *)
(* refuses; neither writes.                                                *)
IssueAuthority(r) ==
    /\ authority[r] = None
    /\ \E t \in Recent :
         /\ Issuable(r, t)
         /\ ChainAgrees(r, t)
         /\ request[r].sku # None
         /\ request[r].verdict = "REQUIRE_APPROVAL" =>
              approval[r] # None /\ approval[r].consumed
         /\ authority' = [authority EXCEPT ![r] =
              [version |-> Newest, used |-> FALSE,
               expires |-> IF policies[Newest].expiry < t + AuthorityTtl
                           THEN policies[Newest].expiry ELSE t + AuthorityTtl]]
    /\ UNCHANGED <<chainVars, draft, request, payment, approval, reserved, events>>

(* consume_checkout_authority, inside the adapter's transaction and before  *)
(* any provider order exists.  It refuses without writing.                 *)
ConsumeAuthority(r) ==
    /\ authority[r] # None
    /\ ~authority[r].used
    /\ payment[r].state = "AUTHORIZED"
    /\ authority[r].version = Newest
    /\ \E t \in Recent :
         /\ t < authority[r].expires
         /\ InForce(Newest, t)
         /\ ChainAgrees(r, t)
    /\ authority' = [authority EXCEPT ![r].used = TRUE]
    /\ UNCHANGED <<chainVars, draft, request, payment, approval, reserved, events>>

-----------------------------------------------------------------------------
(* receive_provider_event.  Events arrive in any order and any number of    *)
(* times; an accepted one is recorded under its id, and one the state      *)
(* machine refuses leaves no record, so the provider may send it again.    *)
Target(k) ==
    CASE k = "authorized" -> "PROVIDER_PENDING"
      [] k = "captured"   -> "CAPTURED"
      [] k = "failed"     -> "FAILED"
      [] k = "refunded"   -> "REFUNDED"

WithAmounts(p, k) ==
    CASE k = "captured" -> [p EXCEPT !.captured = IF p.authorized = None THEN 0
                                                  ELSE p.authorized]
      [] k = "refunded" -> [p EXCEPT !.refunded = p.captured]
      [] OTHER          -> p

(* Mutant: the event is recorded although the state machine refused it. *)
ProviderEventKept(r, k) ==
    /\ payment[r] # None
    /\ k \notin events[r]
    /\ IF MayMove(WithAmounts(payment[r], k), Target(k))
       THEN Transition(r, WithAmounts(payment[r], k), Target(k))
       ELSE UNCHANGED <<payment, reserved, hop, spend>>
    /\ events' = [events EXCEPT ![r] = @ \cup {k}]
    /\ UNCHANGED <<policyVars, draft, request, approval, authority>>

ProviderEvent(r, k) ==
    /\ payment[r] # None
    /\ k \notin events[r]
    /\ Transition(r, WithAmounts(payment[r], k), Target(k))
    /\ events' = [events EXCEPT ![r] = @ \cup {k}]
    /\ UNCHANGED <<policyVars, draft, request, approval, authority>>

-----------------------------------------------------------------------------
TypeOK ==
    /\ DelegationTypeOK
    /\ draft \in [Refs -> Draft \cup {None}]
    /\ request \in [Refs -> Request \cup {None}]
    /\ payment \in [Refs -> Payment \cup {None}]
    /\ approval \in [Refs -> Approval \cup {None}]
    /\ authority \in [Refs -> Authority \cup {None}]
    /\ reserved \in [Actors -> [Days -> Nat]]
    /\ events \in [Refs -> SUBSET Kinds]

Init ==
    /\ DelegationInit
    /\ draft = [r \in Refs |-> None]
    /\ request = [r \in Refs |-> None]
    /\ payment = [r \in Refs |-> None]
    /\ approval = [r \in Refs |-> None]
    /\ authority = [r \in Refs |-> None]
    /\ reserved = [a \in Actors |-> [d \in Days |-> 0]]
    /\ events = [r \in Refs |-> {}]

Next ==
    \/ Govern /\ UNCHANGED purchaseVars
    \/ \E r \in Refs :
         \/ \E a \in Actors, n \in Amounts, s \in Skus \cup {None}, b \in BOOLEAN :
              Decide(r, a, n, s, b)
         \/ Abort(r)
         \/ Accept(r)
         \/ Refuse(r)
         \/ GrantApproval(r)
         \/ CancelDeadChain(r)
         \/ IssueAuthority(r)
         \/ ConsumeAuthority(r)
         \/ \E k \in Kinds : ProviderEvent(r, k)

Spec == Init /\ [][Next]_vars
=============================================================================
