--------------------------- MODULE EvidenceProofs ---------------------------
(***************************************************************************)
(* What a page read statement by statement may be relied on for, whatever  *)
(* purchases, approvers and operators do between two statements.  Nothing  *)
(* is locked, so nothing read is still true when the page is finished; the *)
(* proofs rest on what cannot be taken back: a payment only goes forward,  *)
(* an authority once there stays there, a dead chain stays dead.           *)
(***************************************************************************)
EXTENDS Evidence, PurchaseProofs

-----------------------------------------------------------------------------
(* What a step does to a recorded purchase. *)

Advances(r) ==
    /\ request'[r] = request[r]
    /\ approval[r] # None => approval'[r] # None
    /\ authority[r] # None => authority'[r] # None
    /\ events[r] \subseteq events'[r]
    /\ ~Outstanding(r) => ~Outstanding(r)'
    /\ \/ payment'[r] = payment[r]
       \/ payment'[r].state \in Legal(payment[r].state)

LEMMA UntouchedAdvances ==
    ASSUME NEW r \in Refs, Untouched(r)
    PROVE  Advances(r)
  BY DEF Untouched, Advances, Outstanding

LEMMA ReleasesOnly ==
    ASSUME PurchaseInv, NEW r \in Refs, NEW q \in Refs, NEW p, NEW to, Transition(q, p, to)
    PROVE  ~Outstanding(r) => ~Outstanding(r)'
  <1>1. spend \in [Refs -> Spend \cup {None}]
    BY DEF PurchaseInv, ChainInv, DelegationTypeOK
  <1>2. spend' = spend \/ (Outstanding(q) /\ spend' = [spend EXCEPT ![q].released = TRUE])
    BY DEF Transition, GiveBack
  <1> QED
    BY <1>1, <1>2 DEF Outstanding

LEMMA TransitionAdvances ==
    ASSUME PurchaseInv, NEW r \in Refs, request[r] # None, NEW q \in Refs,
           NEW p \in Payment, p.state = payment[q].state, NEW to \in States, Transition(q, p, to),
           UNCHANGED request,
           approval[r] # None => approval'[r] # None, UNCHANGED authority,
           events[r] \subseteq events'[r]
    PROVE  Advances(r)
  <1>1. ~Outstanding(r) => ~Outstanding(r)'
    BY ReleasesOnly
  <1>2. payment' = [payment EXCEPT ![q] = [p EXCEPT !.state = to]] /\ to \in Legal(p.state)
    BY DEF Transition, MayMove
  <1>3. payment \in [Refs -> Payment \cup {None}]
    BY DEF PurchaseInv, PurchaseTypes
  <1>4. [p EXCEPT !.state = to].state = to
    BY DEF Payment
  <1>5. payment'[r] = payment[r] \/ payment'[r].state \in Legal(payment[r].state)
    BY <1>2, <1>3, <1>4
  <1> QED
    BY <1>1, <1>5 DEF Advances

LEMMA RecordsAdvance ==
    ASSUME PurchaseInv, Next, NEW r \in Refs, request[r] # None
    PROVE  Advances(r)
  <1>0. /\ draft \in [Refs -> Draft \cup {None}] /\ request \in [Refs -> Request \cup {None}]
        /\ payment \in [Refs -> Payment \cup {None}] /\ approval \in [Refs -> Approval \cup {None}]
        /\ authority \in [Refs -> Authority \cup {None}] /\ events \in [Refs -> SUBSET Kinds]
        /\ spend \in [Refs -> Spend \cup {None}]
    BY DEF PurchaseInv, PurchaseTypes, ChainInv, DelegationTypeOK
  <1>1. CASE Govern /\ UNCHANGED purchaseVars
    <2>1. spend' = spend
      BY <1>1, GovernWritesNothing DEF NothingWritten
    <2> QED
      BY <1>1, <2>1, UntouchedAdvances DEF Untouched, purchaseVars
  <1>2. ASSUME NEW q \in Refs,
               \/ \E a \in Actors, n \in Amounts, s \in Skus \cup {None}, b \in BOOLEAN :
                    Decide(q, a, n, s, b)
               \/ Abort(q)
        PROVE  Advances(r)
    <2>1. UNCHANGED <<request, payment, approval, authority, events, spend>>
      BY <1>2 DEF Decide, Abort, chainVars
    <2> QED
      BY <2>1 DEF Advances, Outstanding
  <1>3. ASSUME NEW q \in Refs, Accept(q) \/ Refuse(q)
        PROVE  Advances(r)
    <2>1. draft[q] # None
      BY <1>3 DEF Accept, Refuse
    <2>2. q # r
      BY <2>1 DEF PurchaseInv, Sound, DraftSound
    <2>3. request'[r] = request[r] /\ payment'[r] = payment[r]
      BY <1>0, <1>3, <2>2 DEF Accept, Refuse, Recorded
    <2>4. spend'[r] = spend[r]
      BY <1>0, <1>3, <2>2 DEF Accept, Refuse, Charge, chainVars
    <2>5. UNCHANGED <<approval, authority, events>>
      BY <1>3 DEF Accept, Refuse
    <2> QED
      BY <2>3, <2>4, <2>5 DEF Advances, Outstanding
  <1>4. ASSUME NEW q \in Refs, GrantApproval(q)
        PROVE  Advances(r)
    <2> DEFINE p == [payment[q] EXCEPT !.authorized = request[q].amount]
    <2>1. request[q] # None /\ Transition(q, p, "AUTHORIZED")
          /\ UNCHANGED <<request, authority, events>>
      BY <1>4 DEF GrantApproval
    <2>2. request[q] \in Request /\ payment[q] # None /\ payment[q] \in Payment
      BY <2>1, RowTypes DEF PurchaseInv, Sound, LifeSound
    <2>3. p \in Payment /\ p.state = payment[q].state
      BY <2>2 DEF Payment, Request
    <2> HIDE DEF p
    <2>4. approval[r] # None => approval'[r] # None
      <3> DEFINE a == [version |-> request[q].version, by |-> Approver,
                       expires |-> policies[request[q].version].expiry, consumed |-> TRUE]
      <3>1. approval' = [approval EXCEPT ![q] = a]
        BY <1>4 DEF GrantApproval
      <3>2. a \in Approval
        <4>1. request[q].version \in DOMAIN policies
          BY <2>1 DEF PurchaseInv, Sound, LifeSound
        <4>2. policies[request[q].version] \in Policy
          BY <4>1, ClockTypes
        <4>3. request[q].version \in Nat
          BY <2>2 DEF Request
        <4> QED
          BY <4>2, <4>3 DEF Policy, Approval
      <3> QED
        BY <1>0, <3>1, <3>2, PurchaseAssumption
    <2>5. "AUTHORIZED" \in States
      BY DEF States
    <2> QED
      BY <2>1, <2>3, <2>4, <2>5, TransitionAdvances
  <1>5. ASSUME NEW q \in Refs, CancelDeadChain(q)
        PROVE  Advances(r)
    <2>1. /\ request[q] # None /\ Transition(q, payment[q], "CANCELLED")
          /\ UNCHANGED <<request, authority, events, approval>>
      BY <1>5 DEF CancelDeadChain, Issuable
    <2>2. payment[q] \in Payment
      BY <2>1, RowTypes DEF PurchaseInv, Sound, LifeSound
    <2>3. "CANCELLED" \in States
      BY DEF States
    <2> QED
      BY <2>1, <2>2, <2>3, TransitionAdvances
  <1>6. ASSUME NEW q \in Refs, IssueAuthority(q)
        PROVE  Advances(r)
    <2>1. UNCHANGED <<request, payment, approval, events, spend>>
      BY <1>6 DEF IssueAuthority, chainVars
    <2>2. authority[q] = None
      BY <1>6 DEF IssueAuthority
    <2>3. ASSUME r # q PROVE authority'[r] = authority[r]
      BY <1>0, <1>6, <2>3 DEF IssueAuthority
    <2> QED
      BY <2>1, <2>2, <2>3 DEF Advances, Outstanding
  <1>7. ASSUME NEW q \in Refs, ConsumeAuthority(q)
        PROVE  Advances(r)
    <2>1. UNCHANGED <<request, payment, approval, events, spend>>
      BY <1>7 DEF ConsumeAuthority, chainVars
    <2>2. authority' = [authority EXCEPT ![q].used = TRUE] /\ authority[q] # None
      BY <1>7 DEF ConsumeAuthority
    <2>3. [authority[q] EXCEPT !.used = TRUE] \in Authority
      BY <1>0, <2>2 DEF Authority
    <2>4. authority[r] # None => authority'[r] # None
      BY <1>0, <2>2, <2>3, PurchaseAssumption
    <2> QED
      BY <2>1, <2>4 DEF Advances, Outstanding
  <1>8. ASSUME NEW q \in Refs, NEW k \in Kinds, ProviderEvent(q, k)
        PROVE  Advances(r)
    <2> DEFINE p == WithAmounts(payment[q], k)
    <2>1. /\ payment[q] # None /\ Transition(q, p, Target(k))
          /\ events' = [events EXCEPT ![q] = @ \cup {k}]
          /\ UNCHANGED <<request, authority, approval>>
      BY <1>8 DEF ProviderEvent
    <2>2. payment[q] \in Payment
      BY <2>1, RowTypes
    <2>3. p \in Payment /\ p.state = payment[q].state
      BY <2>2 DEF Payment, WithAmounts
    <2> HIDE DEF p
    <2>4. Target(k) \in States
      BY DEF Target, States, Kinds
    <2>5. events[r] \subseteq events'[r]
      BY <1>0, <2>1
    <2> QED
      BY <2>1, <2>3, <2>4, <2>5, TransitionAdvances
  <1> QED
    BY <1>1, <1>2, <1>3, <1>4, <1>5, <1>6, <1>7, <1>8 DEF Next

(* A payment only goes forward. *)
LEMMA PaymentsGoForward ==
    ASSUME PurchaseInv, NEW r \in Refs, request[r] # None, Advances(r)
    PROVE  /\ Beyond(r) => Beyond(r)'
           /\ payment[r].state \notin {"APPROVAL_REQUIRED", "AUTHORIZED"} =>
                payment'[r].state \notin {"APPROVAL_REQUIRED", "AUTHORIZED"}
           /\ Beyond(r) /\ payment[r].state # "AUTHORIZED" => payment'[r].state # "AUTHORIZED"
           /\ payment[r].state \in Captures => payment'[r].state \in Captures
  <1>1. payment[r].state \in Reached
    BY DEF PurchaseInv, Sound, LifeSound
  <1>2. CASE payment'[r] = payment[r]
    BY <1>2 DEF Beyond
  <1>3. CASE payment'[r].state \in Legal(payment[r].state)
    BY <1>1, <1>3 DEF Reached, Legal, Beyond, Captures
  <1> QED
    BY <1>2, <1>3 DEF Advances

-----------------------------------------------------------------------------
(* Chains: the hop a request names exists, and a chain that stopped         *)
(* agreeing never agrees again.                                            *)
NamesGranted == \A r \in Refs : request[r] # None => request[r].delegation \in Granted \cup {None}

LEMMA NamesGrantedStep ==
    ASSUME PurchaseInv, NamesGranted, Next
    PROVE  NamesGranted'
  <1>1. Granted \subseteq Granted'
    BY NextIsChainStep, ChainStepKeeps, GrantedStay DEF PurchaseInv, HopsStay
  <1> SUFFICES ASSUME NEW r \in Refs, request'[r] # None
               PROVE  request'[r].delegation \in Granted' \cup {None}
    BY DEF NamesGranted
  <1>2. CASE request[r] # None
    BY <1>1, <1>2, RecordsAdvance DEF NamesGranted, Advances
  <1>3. CASE request[r] = None
    <2>1. request \in [Refs -> Request \cup {None}]
      BY DEF PurchaseInv, PurchaseTypes
    <2>2. \E q \in Refs : Accept(q) \/ Refuse(q)
      BY <1>3 DEF Next, purchaseVars, Decide, Abort, GrantApproval, CancelDeadChain,
                  IssueAuthority, ConsumeAuthority, ProviderEvent
    <2>3. PICK q \in Refs : Accept(q) \/ Refuse(q)
      BY <2>2
    <2>4. draft[q].held \in Granted \cup {None}
      BY <2>3 DEF Accept, Refuse, PurchaseInv, Sound, DraftSound
    <2>5. PICK v, g, day : /\ g \in {draft[q].held, None}
                          /\ Recorded(q, draft[q], v, g, day)
      <3>1. CASE Accept(q)
        <4>1. PICK u \in Times : Recorded(q, draft[q], draft[q].verdict, draft[q].held, DayOf[u])
          BY <3>1 DEF Accept
        <4> QED
          BY <4>1
      <3>2. CASE Refuse(q)
        <4>1. Recorded(q, draft[q], "DENY", None, None)
          BY <3>2 DEF Refuse
        <4> QED
          BY <4>1
      <3> QED
        BY <2>3, <3>1, <3>2
    <2>6. r = q
      BY <1>3, <2>1, <2>5 DEF Recorded
    <2>7. request'[r].delegation = g
      BY <2>1, <2>5, <2>6 DEF Recorded
    <2> QED
      BY <1>1, <2>4, <2>5, <2>7
  <1> QED
    BY <1>2, <1>3

LEMMA ClockGoesOn ==
    ASSUME PurchaseInv, Next
    PROVE  now \in Nat /\ now' \in Nat /\ now <= now'
  <1>1. now \in Times /\ now' \in Times /\ Times \subseteq Nat
    BY PurchaseInvStep, PoliciesAssumption
    DEF PurchaseInv, ChainInv, DelegationTypeOK, PoliciesTypeOK, Times
  <1>2. now' = now \/ now' = now + 1
    <2>1. CASE Govern
      BY <2>1 DEF Govern, Tick, CreatePolicy, GrantRoot, Grant, Revoke, policyVars
    <2>2. ASSUME NEW r \in Refs,
                 \/ \E a \in Actors, n \in Amounts, s \in Skus \cup {None}, b \in BOOLEAN :
                      Decide(r, a, n, s, b)
                 \/ Abort(r) \/ Accept(r) \/ Refuse(r)
          PROVE  now' = now
      BY <2>2 DEF Decide, Abort, Accept, Refuse, policyVars, chainVars
    <2>3. ASSUME NEW r \in Refs,
                 \/ GrantApproval(r) \/ CancelDeadChain(r) \/ IssueAuthority(r)
                 \/ ConsumeAuthority(r) \/ \E k \in Kinds : ProviderEvent(r, k)
          PROVE  now' = now
      BY <2>3 DEF GrantApproval, CancelDeadChain, IssueAuthority, ConsumeAuthority,
                  ProviderEvent, policyVars, chainVars
    <2> QED
      BY <2>1, <2>2, <2>3 DEF Next
  <1> QED
    BY <1>1, <1>2

LEMMA DeadChainsStayDead ==
    ASSUME PurchaseInv, NamesGranted, Next, NEW r \in Refs, request[r] # None,
           ~ChainAgrees(r, now)
    PROVE  ~ChainAgrees(r, now)'
  <1>1. PICK g \in Granted : g = request[r].delegation /\ g # None
    BY DEF ChainAgrees, NamesGranted
  <1>2. request'[r] = request[r]
    BY RecordsAdvance DEF Advances
  <1>3. ChainInv' /\ HopsKept
    BY NextIsChainStep, ChainStepKeeps DEF PurchaseInv, HopsStay
  <1>4. PICK a \in Chain(g) : ~Live(a, now)
    BY <1>1 DEF ChainAgrees, ChainLive
  <1>5. a \in Granted /\ SameBounds(a) /\ (hop[a].revoked => hop'[a].revoked)
    BY <1>1, <1>3, <1>4, ChainGranted DEF HopsKept
  <1>6. Chain(g)' = Chain(g)
    BY <1>1, <1>3, ChainKept, EdgesGiveParents
    DEF PurchaseInv, ChainInv, HopsKept, SameBounds, SameTerms
  <1>7. now \in Nat /\ now' \in Nat /\ now <= now'
    BY ClockGoesOn
  <1>8. hop[a].expires \in Nat
    BY <1>5 DEF PurchaseInv, ChainInv, DelegationTypeOK, Granted, Hop
  <1>9. ~Live(a, now)'
    BY <1>4, <1>5, <1>7, <1>8 DEF Live, SameBounds, SameTerms
  <1> QED
    BY <1>1, <1>2, <1>4, <1>6, <1>9 DEF ChainAgrees, ChainLive

-----------------------------------------------------------------------------
(* The order of the statements. *)
Pages == {"receipt", "console"}

Ordered(d) ==
    /\ "authority" \in Answered(d) => "approval" \in Answered(d)
    /\ "payment" \in Answered(d) => "authority" \in Answered(d)
    /\ "events" \in Answered(d) => "payment" \in Answered(d)
    /\ "chain" \in Answered(d) => "payment" \in Answered(d)
    /\ "spend" \in Answered(d) => "payment" \in Answered(d)
    /\ "row_payment" \in Answered(d) => d.kind = "console"
    /\ "row_approval" \in Answered(d) => "row_payment" \in Answered(d)
    /\ d.kind = "console" /\ "approval" \in Answered(d) => "row_approval" \in Answered(d)

Finished(d) ==
    /\ {"approval", "authority", "payment", "events", "chain", "spend"} \subseteq Answered(d)
    /\ d.kind = "console" => {"row_payment", "row_approval"} \subseteq Answered(d)

LEMMA ReceiptStatements ==
    /\ DOMAIN Statements("receipt") = 1 .. 6
    /\ Statements("receipt")[1] = "approval"
    /\ Statements("receipt")[2] = "authority"
    /\ Statements("receipt")[3] = "payment"
    /\ Statements("receipt")[4] = "events"
    /\ Statements("receipt")[5] = "chain"
    /\ Statements("receipt")[6] = "spend"
  BY DEF Statements, Sections

LEMMA ConsoleStatements ==
    /\ DOMAIN Statements("console") = 1 .. 8
    /\ Statements("console")[1] = "row_payment"
    /\ Statements("console")[2] = "row_approval"
    /\ Statements("console")[3] = "approval"
    /\ Statements("console")[4] = "authority"
    /\ Statements("console")[5] = "payment"
    /\ Statements("console")[6] = "events"
    /\ Statements("console")[7] = "chain"
    /\ Statements("console")[8] = "spend"
  BY DEF Statements, Sections, Row

LEMMA TurnInOrder ==
    ASSUME NEW d, d.kind \in Pages, NEW s \in Turn(d)
    PROVE  /\ s \notin Answered(d)
           /\ s \in {"row_payment", "row_approval"} => d.kind = "console"
           /\ s = "row_approval" => "row_payment" \in Answered(d)
           /\ s = "approval" /\ d.kind = "console" => "row_approval" \in Answered(d)
           /\ s = "authority" => "approval" \in Answered(d)
           /\ s = "payment" => "authority" \in Answered(d)
           /\ s \in {"events", "chain", "spend"} => "payment" \in Answered(d)
           /\ s \in {"row_payment", "row_approval", "approval", "authority", "payment",
                     "events", "chain", "spend"}
  <1> DEFINE L == Statements(d.kind)
  <1>1. PICK j \in DOMAIN L : /\ s = L[j] /\ s \notin Answered(d)
                              /\ \A k \in 1 .. j - 1 : L[k] \in Answered(d)
    BY DEF Turn
  <1>2. CASE d.kind = "receipt"
    <2>0. /\ DOMAIN L = 1 .. 6
          /\ L[1] = "approval" /\ L[2] = "authority" /\ L[3] = "payment"
          /\ L[4] = "events" /\ L[5] = "chain" /\ L[6] = "spend"
      BY <1>2, ReceiptStatements
    <2> HIDE DEF L
    <2>1. j \in 1 .. 6
      BY <1>1, <2>0
    <2> QED
      BY <1>1, <1>2, <2>0, <2>1
  <1>3. CASE d.kind = "console"
    <2>0. /\ DOMAIN L = 1 .. 8
          /\ L[1] = "row_payment" /\ L[2] = "row_approval"
          /\ L[3] = "approval" /\ L[4] = "authority" /\ L[5] = "payment"
          /\ L[6] = "events" /\ L[7] = "chain" /\ L[8] = "spend"
      BY <1>3, ConsoleStatements
    <2> HIDE DEF L
    <2>1. j \in 1 .. 8
      BY <1>1, <2>0
    <2> QED
      BY <1>1, <1>3, <2>0, <2>1
  <1> QED
    BY <1>2, <1>3 DEF Pages

LEMMA NoTurnLeft ==
    ASSUME NEW d, d.kind \in Pages, Turn(d) = {}
    PROVE  Finished(d)
  <1> DEFINE L == Statements(d.kind)
  <1>1. ASSUME NEW j \in DOMAIN L, \A k \in 1 .. j - 1 : L[k] \in Answered(d)
        PROVE  L[j] \in Answered(d)
    BY <1>1 DEF Turn
  <1>2. CASE d.kind = "receipt"
    <2>0. /\ DOMAIN L = 1 .. 6
          /\ L[1] = "approval" /\ L[2] = "authority" /\ L[3] = "payment"
          /\ L[4] = "events" /\ L[5] = "chain" /\ L[6] = "spend"
      BY <1>2, ReceiptStatements
    <2> HIDE DEF L
    <2>1. L[1] \in Answered(d)
      BY <1>1, <2>0
    <2>2. L[2] \in Answered(d)
      BY <1>1, <2>0, <2>1
    <2>3. L[3] \in Answered(d)
      BY <1>1, <2>0, <2>1, <2>2
    <2>4. L[4] \in Answered(d)
      BY <1>1, <2>0, <2>1, <2>2, <2>3
    <2>5. L[5] \in Answered(d)
      BY <1>1, <2>0, <2>1, <2>2, <2>3, <2>4
    <2>6. L[6] \in Answered(d)
      BY <1>1, <2>0, <2>1, <2>2, <2>3, <2>4, <2>5
    <2> QED
      BY <1>2, <2>0, <2>1, <2>2, <2>3, <2>4, <2>5, <2>6 DEF Finished
  <1>3. CASE d.kind = "console"
    <2>0. /\ DOMAIN L = 1 .. 8
          /\ L[1] = "row_payment" /\ L[2] = "row_approval"
          /\ L[3] = "approval" /\ L[4] = "authority" /\ L[5] = "payment"
          /\ L[6] = "events" /\ L[7] = "chain" /\ L[8] = "spend"
      BY <1>3, ConsoleStatements
    <2> HIDE DEF L
    <2>1. L[1] \in Answered(d)
      BY <1>1, <2>0
    <2>2. L[2] \in Answered(d)
      BY <1>1, <2>0, <2>1
    <2>3. L[3] \in Answered(d)
      BY <1>1, <2>0, <2>1, <2>2
    <2>4. L[4] \in Answered(d)
      BY <1>1, <2>0, <2>1, <2>2, <2>3
    <2>5. L[5] \in Answered(d)
      BY <1>1, <2>0, <2>1, <2>2, <2>3, <2>4
    <2>6. L[6] \in Answered(d)
      BY <1>1, <2>0, <2>1, <2>2, <2>3, <2>4, <2>5
    <2>7. L[7] \in Answered(d)
      BY <1>1, <2>0, <2>1, <2>2, <2>3, <2>4, <2>5, <2>6
    <2>8. L[8] \in Answered(d)
      BY <1>1, <2>0, <2>1, <2>2, <2>3, <2>4, <2>5, <2>6, <2>7
    <2> QED
      BY <1>3, <2>0, <2>1, <2>2, <2>3, <2>4, <2>5, <2>6, <2>7, <2>8 DEF Finished
  <1> QED
    BY <1>2, <1>3 DEF Pages

-----------------------------------------------------------------------------
(* What a page and the records have in common while it is being read, and  *)
(* ever after.  A page that is finished judges by the instant it was       *)
(* finished at, one that is not by the present one.                        *)
Saw(d, s) == s \in Answered(d)

JudgedAt(d) == IF d.at = None THEN now ELSE d.at

Forgone(r, e) == e <= now \/ ~ChainAgrees(r, now)

(* The authority that the page saw and nobody had used.                     *)
SawUnused(d) ==
    Saw(d, "authority") /\ d.seen["authority"] # None /\ ~d.seen["authority"].used

PageTyped(d) ==
    /\ d = [of |-> d.of, kind |-> d.kind, seen |-> d.seen, at |-> d.at]
    /\ d.of \in Refs /\ d.kind \in Pages /\ d.at \in Nat \cup {None}
    /\ Saw(d, "authority") => d.seen["authority"] \in Authority \cup {None}
    /\ Saw(d, "chain") => d.seen["chain"] \subseteq Hop
    /\ Saw(d, "payment") => d.seen["payment"].state \in States
    /\ Ordered(d)
    /\ d.at # None => Finished(d)

(* If no instant showed a permission, then already when the authority was   *)
(* read something stood against it that never goes away, and the sections  *)
(* read later show it.                                                     *)
PermissionStory(d) ==
    SawUnused(d) /\ ~shown =>
        LET r == d.of
            e == d.seen["authority"].expires
        IN
        /\ payment[r].state # "AUTHORIZED" \/ Forgone(r, e)
        /\ Saw(d, "payment") /\ d.seen["payment"].state = "AUTHORIZED" => Forgone(r, e)
        /\ Saw(d, "payment") /\ d.seen["payment"].state = "AUTHORIZED" /\ Saw(d, "chain") =>
              \/ e <= JudgedAt(d)
              \/ \E h \in d.seen["chain"] : h.revoked \/ h.expires <= JudgedAt(d)

(* What was there when it was read is there now, and what is there when the *)
(* payment is read is read after it.                                       *)
PaymentStory(d) ==
    LET r == d.of IN
    /\ Saw(d, "approval") /\ d.seen["approval"] # None => Beyond(r)
    /\ Saw(d, "authority") /\ d.seen["authority"] # None => Beyond(r)
    /\ Saw(d, "payment") =>
          LET s == d.seen["payment"].state IN
          /\ d.seen["approval"] # None \/ d.seen["authority"] # None =>
                s \notin {"APPROVAL_REQUIRED", "DENIED"}
          /\ EventsOf(s) \subseteq events[r]
          /\ s \in Releasing => ~Outstanding(r)
          /\ Saw(d, "events") => EventsOf(s) \subseteq d.seen["events"]
          /\ Saw(d, "spend") /\ s \in Releasing /\ d.seen["spend"] # None =>
                d.seen["spend"].released

(* The console's row is never ahead of what is read after it.               *)
PassedGate(d) ==
    /\ request[d.of].verdict = "REQUIRE_APPROVAL"
    /\ d.seen["row_payment"].state # "APPROVAL_REQUIRED"

RowStory(d) ==
    Saw(d, "row_payment") =>
        LET r == d.of
            s == d.seen["row_payment"].state
        IN
        /\ s = "DENIED" <=> request[r].verdict = "DENY"
        /\ PassedGate(d) => approval[r] # None
        /\ PassedGate(d) /\ Saw(d, "row_approval") => d.seen["row_approval"] # None
        /\ PassedGate(d) /\ Saw(d, "approval") => d.seen["approval"] # None
        /\ s \notin {"APPROVAL_REQUIRED", "AUTHORIZED"} =>
              /\ payment[r].state \notin {"APPROVAL_REQUIRED", "AUTHORIZED"}
              /\ Saw(d, "payment") =>
                    d.seen["payment"].state \notin {"APPROVAL_REQUIRED", "AUTHORIZED"}
        /\ s \in Captures =>
              /\ payment[r].state \in Captures
              /\ Saw(d, "payment") => d.seen["payment"].state \in Captures

PageSound(d) ==
    /\ PageTyped(d)
    /\ request[d.of] # None
    /\ PermissionStory(d)
    /\ PaymentStory(d)
    /\ RowStory(d)

EvidenceInv ==
    /\ PurchaseInv
    /\ EventsExplainPayment
    /\ NamesGranted
    /\ page # None => PageSound(page)

-----------------------------------------------------------------------------
(* Purchases go on while a page is being read, or after. *)
LEMMA PermissionStoryLasts ==
    ASSUME EvidenceInv, Next, Watch, page # None, page' = page
    PROVE  PermissionStory(page)'
  <1> DEFINE r == page.of
             e == page.seen["authority"].expires
  <1> SUFFICES ASSUME SawUnused(page), ~shown'
               PROVE  /\ payment'[r].state # "AUTHORIZED" \/ Forgone(r, e)'
                      /\ Saw(page, "payment") /\ page.seen["payment"].state = "AUTHORIZED" =>
                            Forgone(r, e)'
                      /\ Saw(page, "payment") /\ page.seen["payment"].state = "AUTHORIZED"
                            /\ Saw(page, "chain") =>
                            \/ e <= JudgedAt(page)'
                            \/ \E h \in page.seen["chain"] : h.revoked \/ h.expires <= JudgedAt(page)'
    BY DEF PermissionStory, SawUnused, Saw, Answered
  <1>1. PurchaseInv /\ NamesGranted /\ PageSound(page)
    BY DEF EvidenceInv
  <1>2. r \in Refs /\ request[r] # None /\ Beyond(r) /\ e \in Nat /\ ~shown
    BY <1>1 DEF PageSound, PageTyped, PaymentStory, SawUnused, Watch, Authority
  <1>3. Advances(r)
    BY <1>1, <1>2, RecordsAdvance
  <1>4. payment[r].state # "AUTHORIZED" => payment'[r].state # "AUTHORIZED"
    BY <1>1, <1>2, <1>3, PaymentsGoForward
  <1>5. now \in Nat /\ now' \in Nat /\ now <= now'
    BY <1>1, ClockGoesOn
  <1>6. ~ChainAgrees(r, now) => ~ChainAgrees(r, now)'
    BY <1>1, <1>2, DeadChainsStayDead
  <1>7. Forgone(r, e) => Forgone(r, e)'
    BY <1>2, <1>5, <1>6 DEF Forgone
  <1>8. JudgedAt(page) \in Nat /\ JudgedAt(page)' \in Nat /\ JudgedAt(page) <= JudgedAt(page)'
    BY <1>1, <1>5 DEF JudgedAt, PageSound, PageTyped
  <1>9. ASSUME Saw(page, "chain"), NEW h \in page.seen["chain"]
        PROVE  h.expires \in Nat
    BY <1>1, <1>9 DEF PageSound, PageTyped, Hop
  <1>10. /\ payment[r].state # "AUTHORIZED" \/ Forgone(r, e)
         /\ Saw(page, "payment") /\ page.seen["payment"].state = "AUTHORIZED" => Forgone(r, e)
         /\ Saw(page, "payment") /\ page.seen["payment"].state = "AUTHORIZED"
               /\ Saw(page, "chain") =>
               \/ e <= JudgedAt(page)
               \/ \E h \in page.seen["chain"] : h.revoked \/ h.expires <= JudgedAt(page)
    BY <1>1, <1>2 DEF PageSound, PermissionStory
  <1> HIDE DEF r, e
  <1> QED
    BY <1>2, <1>4, <1>7, <1>8, <1>9, <1>10

LEMMA PaymentStoryLasts ==
    ASSUME EvidenceInv, Next, page # None, page' = page
    PROVE  PaymentStory(page)'
  <1> DEFINE r == page.of
  <1>1. PurchaseInv /\ PageSound(page)
    BY DEF EvidenceInv
  <1>2. r \in Refs /\ request[r] # None
    BY <1>1 DEF PageSound, PageTyped
  <1>3. Advances(r)
    BY <1>1, <1>2, RecordsAdvance
  <1>4. Beyond(r) => Beyond(r)'
    BY <1>1, <1>2, <1>3, PaymentsGoForward
  <1> QED
    BY <1>1, <1>3, <1>4 DEF PageSound, PaymentStory, Advances, Saw, Answered

LEMMA RowStoryLasts ==
    ASSUME EvidenceInv, Next, page # None, page' = page
    PROVE  RowStory(page)'
  <1> DEFINE r == page.of
  <1>1. PurchaseInv /\ PageSound(page)
    BY DEF EvidenceInv
  <1>2. r \in Refs /\ request[r] # None
    BY <1>1 DEF PageSound, PageTyped
  <1>3. Advances(r)
    BY <1>1, <1>2, RecordsAdvance
  <1>4. /\ payment[r].state \notin {"APPROVAL_REQUIRED", "AUTHORIZED"} =>
             payment'[r].state \notin {"APPROVAL_REQUIRED", "AUTHORIZED"}
        /\ payment[r].state \in Captures => payment'[r].state \in Captures
    BY <1>1, <1>2, <1>3, PaymentsGoForward
  <1> QED
    BY <1>1, <1>3, <1>4 DEF PageSound, RowStory, PassedGate, Advances, Saw, Answered

-----------------------------------------------------------------------------
(* One more section is read: what that changes about the page. *)
Reads(s) ==
    /\ s \in Turn(page)
    /\ page.at = None
    /\ page' = [of |-> page.of, kind |-> page.kind, seen |-> page'.seen, at |-> None]
    /\ Answered(page)' = Answered(page) \cup {s}
    /\ page'.seen[s] = Stored(page.of, s)
    /\ \A x \in Answered(page) : page'.seen[x] = page.seen[x]
    /\ ~shown' => ~shown /\ ~OnRecord(page.of)
    /\ UNCHANGED vars

LEMMA ReadSectionReads ==
    ASSUME EvidenceInv, ReadSection, UNCHANGED vars
    PROVE  \E s : Reads(s)
  <1>1. page # None /\ PageTyped(page)
    BY DEF ReadSection, EvidenceInv, PageSound
  <1>2. PICK s \in Turn(page) :
          page' = [page EXCEPT !.seen =
                    [x \in Answered(page) \cup {s} |->
                        IF x = s THEN Stored(page.of, s) ELSE page.seen[x]]]
    BY DEF ReadSection
  <1>3. page.at = None
    <2>1. s \notin Answered(page) /\ (Finished(page) => s \in Answered(page))
      BY <1>1, TurnInOrder DEF PageTyped, Finished
    <2> QED
      BY <1>1, <2>1 DEF PageTyped
  <1>4. s \notin Answered(page)
    BY <1>1, TurnInOrder DEF PageTyped
  <1> DEFINE N == [x \in Answered(page) \cup {s} |->
                      IF x = s THEN Stored(page.of, s) ELSE page.seen[x]]
  <1>5. page' = [of |-> page.of, kind |-> page.kind, seen |-> N, at |-> None]
    <2>1. page = [of |-> page.of, kind |-> page.kind, seen |-> page.seen, at |-> None]
      BY <1>1, <1>3 DEF PageTyped
    <2>2. page' = [page EXCEPT !.seen = N]
      BY <1>2
    <2> HIDE DEF N
    <2> QED
      BY <2>1, <2>2
  <1>6. /\ DOMAIN N = Answered(page) \cup {s} /\ N[s] = Stored(page.of, s)
        /\ \A x \in Answered(page) : N[x] = page.seen[x]
    BY <1>4
  <1> HIDE DEF N
  <1>7. page'.seen = N
    BY <1>5
  <1>8. Answered(page)' = Answered(page) \cup {s}
    BY <1>6, <1>7 DEF Answered
  <1>9. ~shown' => ~shown /\ ~OnRecord(page.of)
    BY DEF ReadSection
  <1> QED
    BY <1>2, <1>3, <1>5, <1>6, <1>7, <1>8, <1>9 DEF Reads

LEMMA ReadsInOrder ==
    ASSUME EvidenceInv, page # None, NEW s, Reads(s)
    PROVE  /\ PageTyped(page)'
           /\ page'.of = page.of /\ page'.kind = page.kind
           /\ request[page.of] # None /\ payment[page.of] # None
           /\ JudgedAt(page) = now /\ JudgedAt(page)' = now
           /\ now \in Nat
  <1> DEFINE r == page.of
  <1>1. PageTyped(page) /\ request[r] # None /\ r \in Refs
    BY DEF EvidenceInv, PageSound, PageTyped
  <1>2. payment[r] # None /\ payment[r] \in Payment
    BY <1>1, RowTypes DEF EvidenceInv, PurchaseInv, Sound, LifeSound
  <1>3. page'.of = r /\ page'.kind = page.kind /\ page'.at = None
    BY DEF Reads
  <1>4. now' = now /\ now \in Nat
    BY ClockTypes DEF Reads, vars, EvidenceInv
  <1>5. Ordered(page)'
    <2>1. /\ s \notin Answered(page)
          /\ s \in {"row_payment", "row_approval"} => page.kind = "console"
          /\ s = "row_approval" => "row_payment" \in Answered(page)
          /\ s = "approval" /\ page.kind = "console" => "row_approval" \in Answered(page)
          /\ s = "authority" => "approval" \in Answered(page)
          /\ s = "payment" => "authority" \in Answered(page)
          /\ s \in {"events", "chain", "spend"} => "payment" \in Answered(page)
      BY <1>1, TurnInOrder DEF PageTyped, Reads
    <2> QED
      BY <1>1, <1>3, <2>1 DEF PageTyped, Ordered, Reads
  <1>6. s = "authority" => page'.seen[s] \in Authority \cup {None}
    BY <1>1 DEF Reads, Stored, EvidenceInv, PurchaseInv, PurchaseTypes
  <1>7. s = "payment" => page'.seen[s].state \in States
    BY <1>2 DEF Reads, Stored, Payment
  <1>8. s = "chain" => page'.seen[s] \subseteq Hop
    <2>1. Chain(request[r].delegation) \subseteq Granted
      BY DEF Chain
    <2>2. \A a \in Granted : hop[a] \in Hop
      BY DEF Granted, EvidenceInv, PurchaseInv, ChainInv, DelegationTypeOK
    <2> QED
      BY <2>1, <2>2 DEF Reads, Stored
  <1>9. PageTyped(page)'
    BY <1>1, <1>3, <1>5, <1>6, <1>7, <1>8 DEF PageTyped, Reads, Saw
  <1> QED
    BY <1>1, <1>2, <1>3, <1>4, <1>9 DEF JudgedAt, Reads

(* Reading the authority at an instant without a permission, or a later     *)
(* section after it, keeps the permission's story.                         *)
LEMMA ReadsPermission ==
    ASSUME EvidenceInv, page # None, NEW s, Reads(s)
    PROVE  PermissionStory(page)'
  <1> DEFINE r == page.of
  <1>1. PageTyped(page) /\ PermissionStory(page)
    BY DEF EvidenceInv, PageSound
  <1>2. /\ PageTyped(page)' /\ page'.of = r /\ JudgedAt(page) = now /\ JudgedAt(page)' = now
        /\ now \in Nat
    BY ReadsInOrder
  <1>3. UNCHANGED <<payment, request, hop, now>>
    BY DEF Reads, vars
  <1>4. \A e : Forgone(r, e)' <=> Forgone(r, e)
    BY <1>2, <1>3 DEF Forgone, ChainAgrees, ChainLive, Live, Chain, Granted, ClosedUpward
  <1> SUFFICES ASSUME SawUnused(page)', ~shown'
               PROVE  LET e == page'.seen["authority"].expires IN
                      /\ payment[r].state # "AUTHORIZED" \/ Forgone(r, e)
                      /\ Saw(page, "payment")' /\ page'.seen["payment"].state = "AUTHORIZED" =>
                            Forgone(r, e)
                      /\ Saw(page, "payment")' /\ page'.seen["payment"].state = "AUTHORIZED"
                            /\ Saw(page, "chain")' =>
                            \/ e <= now
                            \/ \E h \in page'.seen["chain"] : h.revoked \/ h.expires <= now
    BY <1>2, <1>3, <1>4 DEF PermissionStory
  <1> DEFINE e == page'.seen["authority"].expires
  <1>5. e \in Nat
    BY <1>2 DEF SawUnused, PageTyped, Authority
  <1>6. ~shown /\ ~OnRecord(r)
    BY DEF Reads
  <1>7. /\ s \notin Answered(page) /\ Answered(page)' = Answered(page) \cup {s}
        /\ \A x \in Answered(page) : page'.seen[x] = page.seen[x]
        /\ page'.seen[s] = Stored(r, s)
    BY <1>1, TurnInOrder DEF PageTyped, Reads
  <1>8. CASE s = "authority"
    <2>1. "payment" \notin Answered(page)' /\ "chain" \notin Answered(page)'
      BY <1>1, <1>7, <1>8 DEF PageTyped, Ordered
    <2>2. authority[r] # None /\ ~authority[r].used /\ e = authority[r].expires
      BY <1>7, <1>8 DEF SawUnused, Stored
    <2>3. payment[r].state # "AUTHORIZED" \/ Forgone(r, e)
      BY <1>2, <1>5, <1>6, <2>2 DEF OnRecord, Forgone
    <2> QED
      BY <2>1, <2>3 DEF Saw
  <1>9. CASE s # "authority"
    <2>1. SawUnused(page) /\ e = page.seen["authority"].expires
      BY <1>7, <1>9 DEF SawUnused, Saw
    <2>2. /\ payment[r].state # "AUTHORIZED" \/ Forgone(r, e)
          /\ Saw(page, "payment") /\ page.seen["payment"].state = "AUTHORIZED" => Forgone(r, e)
          /\ Saw(page, "payment") /\ page.seen["payment"].state = "AUTHORIZED"
                /\ Saw(page, "chain") =>
                \/ e <= now
                \/ \E h \in page.seen["chain"] : h.revoked \/ h.expires <= now
      BY <1>1, <1>2, <1>6, <2>1 DEF PermissionStory
    <2> HIDE DEF e
    <2>3. CASE s = "payment"
      <3>1. "chain" \notin Answered(page)'
        BY <1>1, <1>7, <2>3 DEF PageTyped, Ordered
      <3>2. page'.seen["payment"] = payment[r]
        BY <1>7, <2>3 DEF Stored
      <3> QED
        BY <2>2, <3>1, <3>2 DEF Saw, e
    <2>4. CASE s = "chain"
      <3>1. Saw(page, "payment") /\ page'.seen["payment"] = page.seen["payment"]
        <4>1. "payment" \in Answered(page)
          BY <1>1, <2>4, TurnInOrder DEF Reads, PageTyped
        <4> QED
          BY <1>7, <4>1 DEF Saw
      <3>2. ASSUME Forgone(r, e)
            PROVE  e <= now \/ \E h \in page'.seen["chain"] : h.revoked \/ h.expires <= now
        <4>1. CASE ~ChainAgrees(r, now)
          <5>1. PICK a \in Chain(request[r].delegation) : ~Live(a, now)
            BY <4>1 DEF ChainAgrees, ChainLive
          <5>2. request[r].delegation # None
            BY <4>1 DEF ChainAgrees
          <5>3. page'.seen["chain"] = { hop[x] : x \in Chain(request[r].delegation) }
            BY <1>7, <2>4, <5>2 DEF Stored
          <5>4. hop[a] \in page'.seen["chain"] /\ hop[a] \in Hop
            BY <1>2, <1>7, <2>4, <5>1, <5>3 DEF PageTyped, Saw
          <5>5. hop[a].revoked \/ hop[a].expires <= now
            BY <1>2, <5>1, <5>4 DEF Live, Hop
          <5> QED
            BY <5>4, <5>5
        <4> QED
          BY <3>2, <4>1 DEF Forgone
      <3> QED
        BY <2>2, <3>1, <3>2 DEF Saw, e
    <2>5. CASE s \notin {"payment", "chain"}
      BY <1>7, <2>2, <2>5 DEF Saw, e
    <2> QED
      BY <2>3, <2>4, <2>5
  <1> QED
    BY <1>8, <1>9

LEMMA ReadsPayment ==
    ASSUME EvidenceInv, page # None, NEW s, Reads(s)
    PROVE  PaymentStory(page)'
  <1> DEFINE r == page.of
             was == page.seen
             is == page'.seen
  <1>1. PageTyped(page) /\ PaymentStory(page) /\ r \in Refs
    BY DEF EvidenceInv, PageSound, PageTyped
  <1>2. page'.of = r /\ request[r] # None /\ payment[r] # None
    BY ReadsInOrder
  <1>3. UNCHANGED <<payment, events, spend>>
    BY DEF Reads, vars
  <1>4. /\ s \notin Answered(page) /\ Answered(page)' = Answered(page) \cup {s}
        /\ \A x \in Answered(page) : is[x] = was[x]
        /\ is[s] = Stored(r, s)
    BY <1>1, TurnInOrder DEF PageTyped, Reads
  <1>5. Sound(r) /\ Explained(r)
    BY <1>1 DEF EvidenceInv, PurchaseInv, EventsExplainPayment
  <1>6. approval[r] # None => Beyond(r)
    BY <1>2, <1>5 DEF Sound, Gated
  <1>7. authority[r] # None => Beyond(r)
    BY <1>2, <1>5, <1>6 DEF Sound, StandsForDecision, LifeSound, Beyond
  <1>8. payment[r].state \in Releasing => ~Outstanding(r)
    BY <1>2, <1>5 DEF Sound, BudgetsAgree, Claims, Releasing
  <1>9. EventsOf(payment[r].state) = events[r]
    BY <1>2, <1>5 DEF Explained
  <1>10. /\ Saw(page, "approval")' /\ is["approval"] # None => Beyond(r)
         /\ Saw(page, "authority")' /\ is["authority"] # None => Beyond(r)
    BY <1>1, <1>4, <1>6, <1>7 DEF PaymentStory, Saw, Stored
  <1>11. ASSUME Saw(page, "payment")'
         PROVE  LET t == is["payment"].state IN
                /\ is["approval"] # None \/ is["authority"] # None =>
                      t \notin {"APPROVAL_REQUIRED", "DENIED"}
                /\ EventsOf(t) \subseteq events[r]
                /\ t \in Releasing => ~Outstanding(r)
                /\ Saw(page, "events")' => EventsOf(t) \subseteq is["events"]
                /\ Saw(page, "spend")' /\ t \in Releasing /\ is["spend"] # None =>
                      is["spend"].released
    <2>1. CASE s = "payment"
      <3>1. "events" \notin Answered(page)' /\ "spend" \notin Answered(page)'
        BY <1>1, <1>4, <2>1 DEF PageTyped, Ordered
      <3>2. "approval" \in Answered(page) /\ "authority" \in Answered(page)
        BY <1>1, <2>1, TurnInOrder DEF Reads, PageTyped, Ordered
      <3>3. is["payment"] = payment[r]
        BY <1>4, <2>1 DEF Stored
      <3> QED
        BY <1>4, <1>8, <1>9, <1>10, <3>1, <3>2, <3>3 DEF Saw, Beyond
    <2>2. CASE s # "payment"
      <3>1. Saw(page, "payment") /\ "approval" \in Answered(page) /\ "authority" \in Answered(page)
        BY <1>1, <1>4, <1>11, <2>2 DEF Saw, PageTyped, Ordered
      <3> DEFINE t == was["payment"].state
      <3>2. /\ is["payment"] = was["payment"] /\ is["approval"] = was["approval"]
            /\ is["authority"] = was["authority"]
        BY <1>4, <3>1 DEF Saw
      <3>3. /\ was["approval"] # None \/ was["authority"] # None =>
                  t \notin {"APPROVAL_REQUIRED", "DENIED"}
            /\ EventsOf(t) \subseteq events[r]
            /\ t \in Releasing => ~Outstanding(r)
            /\ Saw(page, "events") => EventsOf(t) \subseteq was["events"]
            /\ Saw(page, "spend") /\ t \in Releasing /\ was["spend"] # None =>
                  was["spend"].released
        BY <1>1, <3>1 DEF PaymentStory
      <3>4. Saw(page, "events")' => EventsOf(t) \subseteq is["events"]
        BY <1>4, <3>3 DEF Saw, Stored
      <3>5. Saw(page, "spend")' /\ t \in Releasing /\ is["spend"] # None => is["spend"].released
        BY <1>4, <3>3 DEF Saw, Stored, Outstanding
      <3> QED
        BY <3>2, <3>3, <3>4, <3>5
    <2> QED
      BY <2>1, <2>2
  <1>12. UNCHANGED <<events[r], payment[r], spend[r]>>
    BY <1>2, <1>3
  <1>13. (Beyond(r)' <=> Beyond(r)) /\ (Outstanding(r)' <=> Outstanding(r))
    BY <1>2, <1>3 DEF Beyond, Outstanding
  <1> QED
    BY <1>2, <1>10, <1>11, <1>12, <1>13 DEF PaymentStory, Beyond, Outstanding

LEMMA ReadsRow ==
    ASSUME EvidenceInv, page # None, NEW s, Reads(s)
    PROVE  RowStory(page)'
  <1> DEFINE r == page.of
             was == page.seen
             is == page'.seen
  <1>1. PageTyped(page) /\ RowStory(page) /\ r \in Refs
    BY DEF EvidenceInv, PageSound, PageTyped
  <1>2. page'.of = r /\ request[r] # None /\ payment[r] # None
    BY ReadsInOrder
  <1>3. UNCHANGED <<payment, request, approval>>
    BY DEF Reads, vars
  <1>4. /\ s \notin Answered(page) /\ Answered(page)' = Answered(page) \cup {s}
        /\ \A x \in Answered(page) : is[x] = was[x]
        /\ is[s] = Stored(r, s)
    BY <1>1, TurnInOrder DEF PageTyped, Reads
  <1>5. Sound(r)
    BY <1>1 DEF EvidenceInv, PurchaseInv
  <1>6. payment[r].state = "DENIED" <=> request[r].verdict = "DENY"
    BY <1>2, <1>5 DEF Sound, LifeSound
  <1>7. request[r].verdict = "REQUIRE_APPROVAL" /\ payment[r].state # "APPROVAL_REQUIRED" =>
            approval[r] # None
    BY <1>2, <1>5, <1>6 DEF Sound, Gated, Beyond
  <1> SUFFICES ASSUME Saw(page, "row_payment")'
               PROVE  RowStory(page)'
    BY DEF RowStory
  <1>8. CASE s = "row_payment"
    <2>1. /\ "row_approval" \notin Answered(page)' /\ "approval" \notin Answered(page)'
          /\ "payment" \notin Answered(page)'
      <3>1. page.kind = "console"
        BY <1>1, <1>8, TurnInOrder DEF Reads, PageTyped
      <3> QED
        BY <1>1, <1>4, <1>8, <3>1 DEF PageTyped, Ordered
    <2>2. is["row_payment"] = payment[r]
      BY <1>4, <1>8 DEF Stored
    <2> QED
      BY <1>2, <1>3, <1>6, <1>7, <2>1, <2>2 DEF RowStory, Saw, PassedGate, Captures
  <1>9. CASE s # "row_payment"
    <2>1. Saw(page, "row_payment") /\ is["row_payment"] = was["row_payment"]
      BY <1>4, <1>9 DEF Saw
    <2> DEFINE t == was["row_payment"].state
    <2>2. /\ t = "DENIED" <=> request[r].verdict = "DENY"
          /\ PassedGate(page) => approval[r] # None
          /\ PassedGate(page) /\ Saw(page, "row_approval") => was["row_approval"] # None
          /\ PassedGate(page) /\ Saw(page, "approval") => was["approval"] # None
          /\ t \notin {"APPROVAL_REQUIRED", "AUTHORIZED"} =>
                /\ payment[r].state \notin {"APPROVAL_REQUIRED", "AUTHORIZED"}
                /\ Saw(page, "payment") =>
                      was["payment"].state \notin {"APPROVAL_REQUIRED", "AUTHORIZED"}
          /\ t \in Captures =>
                /\ payment[r].state \in Captures
                /\ Saw(page, "payment") => was["payment"].state \in Captures
      BY <1>1, <2>1 DEF RowStory
    <2>3. PassedGate(page)' <=> PassedGate(page)
      BY <1>2, <1>3, <2>1 DEF PassedGate
    <2>4. /\ PassedGate(page) /\ Saw(page, "row_approval")' => is["row_approval"] # None
          /\ PassedGate(page) /\ Saw(page, "approval")' => is["approval"] # None
      BY <1>4, <2>2 DEF Saw, Stored
    <2>5. /\ t \notin {"APPROVAL_REQUIRED", "AUTHORIZED"} /\ Saw(page, "payment")' =>
                is["payment"].state \notin {"APPROVAL_REQUIRED", "AUTHORIZED"}
          /\ t \in Captures /\ Saw(page, "payment")' => is["payment"].state \in Captures
      BY <1>4, <2>2 DEF Saw, Stored
    <2> QED
      BY <1>2, <1>3, <2>1, <2>2, <2>3, <2>4, <2>5 DEF RowStory, Captures
  <1> QED
    BY <1>8, <1>9

-----------------------------------------------------------------------------
(* Every step. *)
LEMMA OpenSound ==
    ASSUME EvidenceInv, NEW r \in Refs, NEW kind \in Pages, Open(r, kind), UNCHANGED vars
    PROVE  PageSound(page)'
  <1> DEFINE d == [of |-> r, kind |-> kind, seen |-> <<>>, at |-> None]
  <1>1. page' = d /\ request[r] # None /\ UNCHANGED request
    BY DEF Open, vars
  <1>2. /\ d.of = r /\ d.kind = kind /\ d.seen = <<>> /\ d.at = None
        /\ DOMAIN d.seen = {}
    OBVIOUS
  <1> HIDE DEF d
  <1>3. Answered(page)' = {} /\ \A s : ~Saw(page, s)'
    BY <1>1, <1>2 DEF Answered, Saw
  <1>4. PageTyped(page)'
    <2>1. d = [of |-> d.of, kind |-> d.kind, seen |-> d.seen, at |-> d.at]
      BY DEF d
    <2>2. Ordered(page)'
      BY <1>3 DEF Ordered
    <2> QED
      BY <1>1, <1>2, <1>3, <2>1, <2>2 DEF PageTyped
  <1>5. PermissionStory(page)' /\ PaymentStory(page)' /\ RowStory(page)'
    BY <1>3 DEF PermissionStory, SawUnused, PaymentStory, RowStory
  <1> QED
    BY <1>1, <1>2, <1>4, <1>5 DEF PageSound

LEMMA ConcludeSound ==
    ASSUME EvidenceInv, Conclude, UNCHANGED vars
    PROVE  PageSound(page)'
  <1>1. page # None /\ PageSound(page) /\ page.at = None /\ Turn(page) = {}
    BY DEF Conclude, EvidenceInv
  <1>2. page' = [of |-> page.of, kind |-> page.kind, seen |-> page.seen, at |-> now]
    BY <1>1 DEF Conclude, PageSound, PageTyped
  <1>3. /\ page'.of = page.of /\ page'.kind = page.kind /\ page'.seen = page.seen
        /\ page'.at = now
    BY <1>2
  <1>4. now \in Nat /\ now # None /\ shown' = shown
    BY ClockTypes, PurchaseAssumption DEF EvidenceInv, Conclude
  <1>5. /\ UNCHANGED <<now, payment, request, approval, authority, events, spend, hop>>
        /\ Answered(page)' = Answered(page)
    BY <1>3 DEF vars, Answered
  <1>6. PageTyped(page)'
    <2>1. Finished(page)
      BY <1>1, NoTurnLeft DEF PageSound, PageTyped
    <2> QED
      BY <1>1, <1>2, <1>3, <1>4, <1>5, <2>1 DEF PageSound, PageTyped, Saw, Ordered, Finished
  <1>7. JudgedAt(page) = now /\ JudgedAt(page)' = now
    BY <1>1, <1>3, <1>4, <1>5 DEF JudgedAt
  <1>8. \A e : Forgone(page.of, e)' <=> Forgone(page.of, e)
    BY <1>3, <1>5 DEF Forgone, ChainAgrees, ChainLive, Live, Chain, Granted, ClosedUpward
  <1>9. PermissionStory(page)'
    BY <1>1, <1>3, <1>4, <1>5, <1>7, <1>8 DEF PageSound, PermissionStory, SawUnused, Saw
  <1>10. PaymentStory(page)'
    BY <1>1, <1>3, <1>5 DEF PageSound, PaymentStory, Saw, Beyond, Outstanding
  <1>11. RowStory(page)'
    BY <1>1, <1>3, <1>5 DEF PageSound, RowStory, PassedGate, Saw
  <1> QED
    BY <1>1, <1>3, <1>5, <1>6, <1>9, <1>10, <1>11 DEF PageSound

LEMMA EvidenceInvInit == EvidenceInit => EvidenceInv
  <1>1. Init => PurchaseInv
    BY PurchaseInvInit
  <1>2. Init => EventsExplainPayment /\ NamesGranted
    BY DEF Init, EventsExplainPayment, Explained, NamesGranted
  <1> QED
    BY <1>1, <1>2 DEF EvidenceInit, EvidenceInv

LEMMA EvidenceInvStep ==
    ASSUME EvidenceInv, [EvidenceNext]_evidenceVars
    PROVE  EvidenceInv'
  <1>1. ASSUME Next, Watch, UNCHANGED page
        PROVE  EvidenceInv'
    <2>1. PurchaseInv' /\ EventsExplainPayment' /\ NamesGranted'
      BY <1>1, PurchaseInvStep, NamesGrantedStep DEF EvidenceInv, StoryKept, EventsExplainPayment
    <2>2. ASSUME page' # None
          PROVE  PageSound(page)'
      <3>1. page # None /\ page' = page
        BY <1>1, <2>2
      <3>2. PageTyped(page) /\ request[page.of] # None /\ page.of \in Refs
        BY <3>1 DEF EvidenceInv, PageSound, PageTyped
      <3>3. PageTyped(page)'
        BY <3>1, <3>2 DEF PageTyped, Saw, Ordered, Finished, Answered
      <3>4. request'[page.of] = request[page.of]
        BY <1>1, <3>2, RecordsAdvance DEF Advances, EvidenceInv
      <3>5. PermissionStory(page)'
        BY <1>1, <3>1, PermissionStoryLasts
      <3>6. PaymentStory(page)'
        BY <1>1, <3>1, PaymentStoryLasts
      <3>7. RowStory(page)'
        BY <1>1, <3>1, RowStoryLasts
      <3> QED
        BY <3>1, <3>2, <3>3, <3>4, <3>5, <3>6, <3>7 DEF PageSound
    <2> QED
      BY <2>1, <2>2 DEF EvidenceInv
  <1>2. ASSUME UNCHANGED vars
        PROVE  PurchaseInv' /\ EventsExplainPayment' /\ NamesGranted'
    BY <1>2, PurchaseInvStutter
    DEF EvidenceInv, vars, EventsExplainPayment, Explained, NamesGranted, Granted
  <1>3. ASSUME NEW r \in Refs, NEW k \in Pages, Open(r, k), UNCHANGED vars
        PROVE  EvidenceInv'
    BY <1>2, <1>3, OpenSound DEF EvidenceInv
  <1>4. ASSUME ReadSection, UNCHANGED vars
        PROVE  EvidenceInv'
    <2>1. page # None
      BY <1>4 DEF ReadSection
    <2>2. PICK s : Reads(s)
      BY <1>4, ReadSectionReads
    <2>3. PageTyped(page)' /\ page'.of = page.of /\ request[page.of] # None
      BY <2>1, <2>2, ReadsInOrder
    <2>4. request'[page'.of] # None
      BY <1>4, <2>3 DEF vars
    <2>5. PermissionStory(page)'
      BY <2>1, <2>2, ReadsPermission
    <2>6. PaymentStory(page)'
      BY <2>1, <2>2, ReadsPayment
    <2>7. RowStory(page)'
      BY <2>1, <2>2, ReadsRow
    <2> QED
      BY <1>2, <1>4, <2>3, <2>4, <2>5, <2>6, <2>7 DEF EvidenceInv, PageSound
  <1>5. ASSUME Conclude, UNCHANGED vars
        PROVE  EvidenceInv'
    BY <1>2, <1>5, ConcludeSound DEF EvidenceInv
  <1>6. ASSUME UNCHANGED evidenceVars
        PROVE  EvidenceInv'
    <2>1. UNCHANGED <<now, payment, request, approval, authority, events, spend, hop, page, shown>>
          /\ UNCHANGED vars
      BY <1>6 DEF evidenceVars, vars
    <2>2. \A r, e : Forgone(r, e)' <=> Forgone(r, e)
      BY <2>1 DEF Forgone, ChainAgrees, ChainLive, Live, Chain, Granted, ClosedUpward
    <2>3. PageTyped(page)' <=> PageTyped(page)
      BY <2>1 DEF PageTyped, Saw, Ordered, Finished, Answered
    <2>4. PermissionStory(page)' <=> PermissionStory(page)
      BY <2>1, <2>2 DEF PermissionStory, SawUnused, Saw, Answered, JudgedAt
    <2>5. PaymentStory(page)' <=> PaymentStory(page)
      BY <2>1 DEF PaymentStory, Saw, Answered, Beyond, Outstanding
    <2>6. RowStory(page)' <=> RowStory(page)
      BY <2>1 DEF RowStory, PassedGate, Saw, Answered
    <2> QED
      BY <1>2, <2>1, <2>3, <2>4, <2>5, <2>6 DEF EvidenceInv, PageSound
  <1> QED
    BY <1>1, <1>3, <1>4, <1>5, <1>6 DEF EvidenceNext, Read, Pages

(* The inductive invariant of a page read beside purchases. *)
THEOREM EvidenceInvariant == EvidenceSpec => []EvidenceInv
  BY EvidenceInvInit, EvidenceInvStep, PTL DEF EvidenceSpec

LEMMA FinishedPage ==
    ASSUME EvidenceInv, Concluded
    PROVE  /\ PageSound(page) /\ Finished(page) /\ JudgedAt(page) = page.at
           /\ \A s \in {"approval", "authority", "payment", "events", "chain", "spend"} : Saw(page, s)
           /\ page.kind = "console" => Saw(page, "row_payment") /\ Saw(page, "row_approval")
  BY DEF EvidenceInv, Concluded, PageSound, PageTyped, Finished, Saw, JudgedAt

(* A permission on a page stands for an instant at which the records showed  *)
(* one, however many transactions fell between its sections (evidence.py,  *)
(* build_payment_request_evidence).                                        *)
THEOREM PermissionsWereTrue == EvidenceSpec => []AllowedWasTrue
  <1>1. EvidenceInv => AllowedWasTrue
    <2> SUFFICES ASSUME EvidenceInv, Concluded, Blocked(page) = None, ~shown
                 PROVE  FALSE
      BY DEF AllowedWasTrue
    <2>1. /\ PageSound(page) /\ JudgedAt(page) = page.at
          /\ Saw(page, "authority") /\ Saw(page, "payment") /\ Saw(page, "chain")
      BY FinishedPage
    <2>2. /\ PaymentBlocks(page.seen["payment"]) = None
          /\ AuthorityBlocks(page.seen["authority"], page.at) = None
          /\ ChainBlocks(page.seen["chain"], page.at) = None
      BY DEF Blocked
    <2>3. page.seen["payment"].state = "AUTHORIZED"
      BY <2>2, EvidenceAssumption DEF PaymentBlocks, Reasons
    <2>4. /\ page.seen["authority"] # None /\ ~page.seen["authority"].used
          /\ ~(page.seen["authority"].expires <= page.at)
      BY <2>2, EvidenceAssumption DEF AuthorityBlocks, Reasons
    <2>5. \A h \in page.seen["chain"] : ~h.revoked /\ ~(h.expires <= page.at)
      BY <2>2, EvidenceAssumption DEF ChainBlocks, Reasons
    <2> QED
      BY <2>1, <2>3, <2>4, <2>5 DEF PageSound, PermissionStory, SawUnused
  <1> QED
    BY <1>1, EvidenceInvariant, PTL

(* A page explains what it shows: events, released spend and approvals stand *)
(* beside the payment they account for, and the console's row is never     *)
(* ahead of its headline (evidence.py; console.py, _headline).             *)
THEOREM PagesHangTogether == EvidenceSpec => []PageHangsTogether
  <1>1. EvidenceInv => PageHangsTogether
    <2> SUFFICES ASSUME EvidenceInv, Concluded
                 PROVE  PaymentExplained(page) /\ (page.kind = "console" => RowExplained(page))
      BY DEF PageHangsTogether
    <2>1. /\ PageSound(page)
          /\ \A s \in {"approval", "authority", "payment", "events", "chain", "spend"} : Saw(page, s)
          /\ page.kind = "console" => Saw(page, "row_payment") /\ Saw(page, "row_approval")
      BY FinishedPage
    <2>2. PaymentExplained(page)
      BY <2>1 DEF PageSound, PaymentStory, PaymentExplained
    <2>3. ASSUME page.kind = "console"
          PROVE  RowExplained(page)
      <3> DEFINE t == page.seen["row_payment"].state
      <3>1. /\ t = "DENIED" <=> request[page.of].verdict = "DENY"
            /\ PassedGate(page) => page.seen["row_approval"] # None
            /\ PassedGate(page) => page.seen["approval"] # None
            /\ t \notin {"APPROVAL_REQUIRED", "AUTHORIZED"} =>
                  page.seen["payment"].state \notin {"APPROVAL_REQUIRED", "AUTHORIZED"}
            /\ t \in Captures => page.seen["payment"].state \in Captures
        BY <2>1, <2>3 DEF PageSound, RowStory
      <3>2. ApprovalState(page) = "REQUIRED" => t = "APPROVAL_REQUIRED"
        BY <3>1 DEF ApprovalState, PassedGate
      <3>3. ApprovalState(page) # "NOT_REQUIRED" /\ t # "APPROVAL_REQUIRED" =>
                page.seen["row_approval"] # None
        BY <3>1 DEF ApprovalState, PassedGate
      <3>4. Headline(page) = "REFUSED" <=> t = "DENIED"
        BY <3>1 DEF Headline
      <3>5. Blocked(page) = None => t \in {"APPROVAL_REQUIRED", "AUTHORIZED"}
        <4>1. Blocked(page) = None => PaymentBlocks(page.seen["payment"]) = None
          BY DEF Blocked
        <4>2. PaymentBlocks(page.seen["payment"]) = None => page.seen["payment"].state = "AUTHORIZED"
          BY EvidenceAssumption DEF PaymentBlocks, Reasons
        <4> QED
          BY <3>1, <4>1, <4>2
      <3>6. t \in Captures => Blocked(page) = "PAYMENT_ALREADY_SETTLED"
        <4>1. page.seen["payment"].state \in Captures =>
                  PaymentBlocks(page.seen["payment"]) = "PAYMENT_ALREADY_SETTLED"
          BY DEF PaymentBlocks, Captures
        <4> QED
          BY <3>1, <4>1, EvidenceAssumption DEF Blocked, Reasons
      <3> QED
        BY <3>2, <3>3, <3>4, <3>5, <3>6 DEF RowExplained
    <2> QED
      BY <2>2, <2>3
  <1> QED
    BY <1>1, EvidenceInvariant, PTL
=============================================================================
