----------------------------- MODULE LockProofs -----------------------------
(***************************************************************************)
(* What holds of the handlers' locks for any number of transactions,       *)
(* actors, keys, purchases and chains.                                     *)
(*                                                                         *)
(* LooksStayTrue is not inductive: a create's look is safe because it still*)
(* holds its key's lock (FreshIsHeld), which no other transaction can hold *)
(* (Exclusive).                                                            *)
(*                                                                         *)
(* That no circle forms within a family of handlers is the textbook        *)
(* argument about an order on the locks, made of lists of any length: the  *)
(* order is Rank, and what a handler still asks for ranks above what it    *)
(* holds.                                                                  *)
(***************************************************************************)
EXTENDS LockOrder, SumProofs, SequenceTheorems, TLAPS

(* Two transactions never hold locks that conflict.                        *)
Exclusive ==
    \A l, m \in held : l.slot # m.slot => ~Conflict(l.lock, m.lock)

(* What a running create has found undecided is behind a lock it holds.     *)
FreshIsHeld ==
    \A s \in Slots : Running(s) =>
        \A k \in job[s].fresh : [slot |-> s, lock |-> ForUpdate("key", k)] \in held

LockInv == LockTypeOK /\ Exclusive /\ FreshIsHeld /\ LooksStayTrue

-----------------------------------------------------------------------------
(* The three ways to lock a row give a lock.                               *)
LEMMA LocksAreLocks ==
    /\ Tenant \in Lock /\ TenantKey \in Lock
    /\ \A k \in Keys : ForUpdate("key", k) \in Lock
    /\ \A t \in Tables \ {"key"}, i \in Ids :
         ForUpdate(t, i) \in Lock /\ Writes(t, i) \in Lock /\ References(t, i) \in Lock
BY DEF Lock, Tables, Ids, Modes, Tenant, TenantKey, ForUpdate, Writes, References

(* A chain is locked by a list of locks, whatever its depth.                *)
LEMMA ChainsAreLocks ==
    ASSUME NEW h \in Hops \cup {None}, NEW c \in LockedChain(h)
    PROVE  c \in Seq(Lock)
<1>1. CASE h = None
  BY <1>1 DEF LockedChain
<1>2. CASE h # None
  <2>1. h \in Hops /\ PathTo[h] \in Seq(Hops)
    BY <1>2, LockAssumption
  <2>2. \A i \in DOMAIN PathTo[h] : ForUpdate("delegation", PathTo[h][i]) \in Lock
    BY <2>1, LocksAreLocks DEF Tables, Ids
  <2>3. c = [i \in DOMAIN PathTo[h] |-> ForUpdate("delegation", PathTo[h][i])]
    BY <1>2 DEF LockedChain
  <2>4. DOMAIN PathTo[h] = 1 .. Len(PathTo[h]) /\ Len(PathTo[h]) \in Nat
    BY <2>1
  <2> QED
    BY <2>2, <2>3, <2>4, IsASeq
<1> QED
  BY <1>1, <1>2

(* A non-empty list of locks stays one when more are appended.              *)
LEMMA Joined ==
    ASSUME NEW s \in Seq(Lock), NEW t \in Seq(Lock), Len(s) > 0
    PROVE  s \o t \in Seq(Lock) /\ Len(s \o t) > 0
BY ConcatProperties

(* So are the two statements that claim both budgets, and those that give   *)
(* them back.                                                              *)
LEMMA ClaimsAreLocks ==
    ASSUME NEW a \in Actors, NEW c \in Claims(a)
    PROVE  c \in Seq(Lock)
<1>1. PICK d \in LockedChain(Holder[a]) : c = <<Writes("reservation", a)>> \o d
  BY DEF Claims
<1>2. Holder[a] \in Hops \cup {None}
  BY LockAssumption
<1>3. d \in Seq(Lock)
  BY <1>1, <1>2, ChainsAreLocks
<1>4. <<Writes("reservation", a)>> \in Seq(Lock)
  BY LocksAreLocks DEF Tables, Ids
<1> QED
  BY <1>1, <1>3, <1>4, ConcatProperties

LEMMA ReleaseIsLocks ==
    ASSUME NEW p \in Purchases
    PROVE  Release(p) \in Seq(Lock)
<1> DEFINE h == Holder[Buyer[p]]
<1>1. Buyer[p] \in Actors /\ h \in Hops \cup {None}
  BY LockAssumption
<1>2. <<Writes("reservation", Buyer[p])>> \in Seq(Lock)
  BY <1>1, LocksAreLocks DEF Tables, Ids
<1>3. h # None => <<Writes("delegation_spend", p), Writes("delegation", h)>> \in Seq(Lock)
  BY <1>1, LocksAreLocks DEF Tables, Ids
<1>4. <<>> \in Seq(Lock)
  OBVIOUS
<1> QED
  BY <1>2, <1>3, <1>4, ConcatProperties DEF Release

-----------------------------------------------------------------------------
(* A handler's work is a non-empty list of locks under its kind.            *)
Proper(w) == w.kind \in Kinds /\ w.rest \in Seq(Lock) /\ w.rest # <<>>

LEMMA CreateIsProper ==
    ASSUME NEW a \in Actors, NEW k \in Keys, NEW w \in Create(a, k)
    PROVE  Proper(w)
<1>1. PICK c \in Claims(a) : w.kind = "create"
                             /\ w.rest = <<ForUpdate("key", k)>> \o c \o <<TenantKey>>
  BY DEF Create, Work
<1>2. <<ForUpdate("key", k)>> \in Seq(Lock) /\ <<TenantKey>> \in Seq(Lock) /\ c \in Seq(Lock)
  BY LocksAreLocks, ClaimsAreLocks
<1>3. <<ForUpdate("key", k)>> \o c \in Seq(Lock) /\ Len(<<ForUpdate("key", k)>> \o c) > 0
  BY <1>2, ConcatProperties
<1>4. w.rest \in Seq(Lock) /\ Len(w.rest) > 0
  BY <1>1, <1>2, <1>3, ConcatProperties
<1> QED
  BY <1>1, <1>4 DEF Proper, Kinds

LEMMA BasketIsProper ==
    ASSUME NEW a \in Actors, NEW w \in Basket(a)
    PROVE  Proper(w)
<1>1. PICK c \in Claims(a) : w.kind = "basket" /\ w.rest = <<TenantKey>> \o c
  BY DEF Basket, Work
<1>2. <<TenantKey>> \in Seq(Lock) /\ c \in Seq(Lock)
  BY LocksAreLocks, ClaimsAreLocks
<1>3. w.rest \in Seq(Lock) /\ Len(w.rest) > 0
  BY <1>1, <1>2, ConcatProperties
<1> QED
  BY <1>1, <1>3 DEF Proper, Kinds

(* Tenant, request and payment, then the chain.                            *)
LEMMA GateIsLocks ==
    ASSUME NEW p \in Purchases, NEW g \in Gate(p)
    PROVE  g \in Seq(Lock) /\ Len(g) > 0
<1> DEFINE front == <<Tenant, ForUpdate("payment_request", p), ForUpdate("payment", p)>>
<1>1. PICK c \in LockedChain(Holder[Buyer[p]]) : g = front \o c
  BY DEF Gate
<1>2. c \in Seq(Lock)
  BY LockAssumption, ChainsAreLocks
<1>3. front \in Seq(Lock) /\ Len(front) = 3
  BY LocksAreLocks DEF Tables, Ids
<1> HIDE DEF front
<1> QED
  BY <1>1, <1>2, <1>3, ConcatProperties

LEMMA IssueIsProper ==
    ASSUME NEW p \in Purchases, NEW w \in Issue(p)
    PROVE  Proper(w)
<1>1. w.kind = "issue" /\ \E g \in Gate(p) : w.rest = g \/ w.rest = g \o Release(p)
  BY DEF Issue, Work
<1>2. PICK g \in Gate(p) : w.rest = g \/ w.rest = g \o Release(p)
  BY <1>1
<1>3. w.rest \in Seq(Lock) /\ Len(w.rest) > 0
  BY <1>2, GateIsLocks, ReleaseIsLocks, Joined
<1> QED
  BY <1>1, <1>3 DEF Proper, Kinds

LEMMA ConsumeIsProper ==
    ASSUME NEW p \in Purchases, NEW w \in Consume(p)
    PROVE  Proper(w)
<1> DEFINE front == <<Tenant, ForUpdate("checkout_authority", p),
                      ForUpdate("payment_request", p), ForUpdate("payment", p)>>
<1>1. PICK c \in LockedChain(Holder[Buyer[p]]) : w.kind = "consume" /\ w.rest = front \o c
  BY DEF Consume, Work
<1>2. c \in Seq(Lock)
  BY LockAssumption, ChainsAreLocks
<1>3. front \in Seq(Lock) /\ Len(front) = 4
  BY LocksAreLocks DEF Tables, Ids
<1> HIDE DEF front
<1>4. front \o c \in Seq(Lock) /\ Len(front \o c) > 0
  BY <1>2, <1>3, ConcatProperties
<1>5. w.rest \in Seq(Lock) /\ Len(w.rest) > 0
  BY <1>1, <1>4
<1> QED
  BY <1>1, <1>5 DEF Proper, Kinds

LEMMA ProviderEventIsProper ==
    ASSUME NEW p \in Purchases, NEW w \in ProviderEvent(p)
    PROVE  Proper(w)
<1> DEFINE seen == <<ForUpdate("payment", p), TenantKey>>
<1>1. w.kind = "event" /\ (w.rest = seen \/ w.rest = seen \o Release(p))
  BY DEF ProviderEvent, Work
<1>2. seen \in Seq(Lock) /\ Len(seen) > 0 /\ seen # <<>>
  BY LocksAreLocks DEF Tables, Ids
<1> HIDE DEF seen
<1>3. Release(p) \in Seq(Lock)
  BY ReleaseIsLocks
<1>4. seen \o Release(p) \in Seq(Lock) /\ Len(seen \o Release(p)) > 0
  BY <1>2, <1>3, Joined
<1>5. CASE w.rest = seen
  BY <1>1, <1>2, <1>5 DEF Proper, Kinds
<1>6. CASE w.rest = seen \o Release(p)
  BY <1>1, <1>4, <1>6 DEF Proper, Kinds
<1> QED
  BY <1>1, <1>5, <1>6

LEMMA ConfirmIsProper ==
    ASSUME NEW p \in Purchases, NEW w \in Confirm(p)
    PROVE  Proper(w)
<1> DEFINE asked == <<ForUpdate("paytm_order", p), ForUpdate("payment", p)>>
<1>1. w.kind = "confirm"
      /\ (w.rest = asked \o <<TenantKey>> \/ w.rest = asked \o Release(p) \o <<TenantKey>>)
  BY DEF Confirm, Work
<1>2. asked \in Seq(Lock) /\ Len(asked) = 2 /\ <<TenantKey>> \in Seq(Lock)
  BY LocksAreLocks DEF Tables, Ids
<1> HIDE DEF asked
<1>3. asked \o Release(p) \in Seq(Lock) /\ Len(asked \o Release(p)) > 0
  BY <1>2, ReleaseIsLocks, Joined
<1>4. asked \o <<TenantKey>> \in Seq(Lock) /\ Len(asked \o <<TenantKey>>) > 0
  BY <1>2, Joined
<1>5. /\ asked \o Release(p) \o <<TenantKey>> \in Seq(Lock)
      /\ Len(asked \o Release(p) \o <<TenantKey>>) > 0
  BY <1>2, <1>3, Joined
<1>6. w.rest \in Seq(Lock) /\ Len(w.rest) > 0
  BY <1>1, <1>4, <1>5
<1> QED
  BY <1>1, <1>6 DEF Proper, Kinds

(* The handlers whose list is written out.                                 *)
LEMMA ShortIsProper ==
    /\ \A p \in Purchases : \A w \in GrantApproval(p) \cup Webhook(p) : Proper(w)
    /\ \A h \in Hops : \A w \in Revoke(h) \cup GrantFirst(h) : Proper(w)
    /\ \A a \in Actors, h \in Hops : \A w \in GrantAgain(a, h) : Proper(w)
    /\ \A w \in PublishPolicy : Proper(w)
<1> USE LocksAreLocks DEF Tables, Ids
<1>1. ASSUME NEW p \in Purchases, NEW w \in GrantApproval(p) PROVE Proper(w)
  <2>1. w.kind = "approve"
        /\ w.rest = <<ForUpdate("payment", p), TenantKey, ForUpdate("approval", p)>>
    BY DEF GrantApproval, Work
  <2> QED
    BY <2>1 DEF Proper, Kinds
<1>2. ASSUME NEW p \in Purchases, NEW w \in Webhook(p) PROVE Proper(w)
  <2>1. /\ w.kind = "webhook"
        /\ \/ w.rest = <<Writes("payment", p), TenantKey, ForUpdate("payment", p)>>
           \/ w.rest = <<TenantKey, References("payment", p), ForUpdate("payment", p)>>
    BY DEF Webhook, Work
  <2>2. <<Writes("payment", p), TenantKey, ForUpdate("payment", p)>> \in Seq(Lock)
    OBVIOUS
  <2>3. <<TenantKey, References("payment", p), ForUpdate("payment", p)>> \in Seq(Lock)
    OBVIOUS
  <2>4. CASE w.rest = <<Writes("payment", p), TenantKey, ForUpdate("payment", p)>>
    BY <2>1, <2>2, <2>4 DEF Proper, Kinds
  <2>5. CASE w.rest = <<TenantKey, References("payment", p), ForUpdate("payment", p)>>
    BY <2>1, <2>3, <2>5 DEF Proper, Kinds
  <2> QED
    BY <2>1, <2>4, <2>5
<1>3. ASSUME NEW h \in Hops, NEW w \in Revoke(h) \cup GrantFirst(h) PROVE Proper(w)
  <2>1. /\ w.kind \in {"revoke", "grant"}
        /\ \/ w.rest = <<Writes("delegation", h), TenantKey>>
           \/ w.rest = <<ForUpdate("delegation", h), TenantKey>>
    BY DEF Revoke, GrantFirst, Work
  <2>2. <<Writes("delegation", h), TenantKey>> \in Seq(Lock)
    OBVIOUS
  <2>3. <<ForUpdate("delegation", h), TenantKey>> \in Seq(Lock)
    OBVIOUS
  <2>4. w.rest # <<>>
    BY <2>1
  <2> QED
    BY <2>1, <2>2, <2>3, <2>4 DEF Proper, Kinds
<1>4. ASSUME NEW a \in Actors, NEW h \in Hops, NEW w \in GrantAgain(a, h) PROVE Proper(w)
  <2>1. /\ w.kind = "regrant" /\ Holder[a] \notin {None, h}
        /\ w.rest = <<ForUpdate("delegation", Holder[a]), TenantKey, ForUpdate("delegation", h)>>
    BY DEF GrantAgain, Work
  <2>2. Holder[a] \in Hops
    BY <2>1, LockAssumption
  <2> QED
    BY <2>1, <2>2 DEF Proper, Kinds
<1>5. ASSUME NEW w \in PublishPolicy PROVE Proper(w)
  <2>1. w.kind = "policy" /\ w.rest = <<Tenant>>
    BY DEF PublishPolicy, Work
  <2> QED
    BY <2>1 DEF Proper, Kinds
<1> QED
  BY <1>1, <1>2, <1>3, <1>4, <1>5

(* Whatever a transaction runs begins as a non-empty list of locks.         *)
LEMMA HandlersAreProper ==
    ASSUME NEW w \in Handlers
    PROVE  Proper(w)
<1>1. CASE w \in OfActors
  BY <1>1, CreateIsProper, BasketIsProper DEF OfActors
<1>2. CASE w \in OfPurchases
  <2>1. PICK p \in Purchases : \/ w \in GrantApproval(p) \cup Webhook(p)
                               \/ w \in Issue(p)
                               \/ w \in Consume(p)
                               \/ w \in ProviderEvent(p)
                               \/ w \in Confirm(p)
    BY <1>2 DEF OfPurchases
  <2> QED
    BY <2>1, ShortIsProper, IssueIsProper, ConsumeIsProper, ProviderEventIsProper, ConfirmIsProper
<1>3. CASE w \in OfHops
  BY <1>3, ShortIsProper DEF OfHops
<1>4. CASE w \in OfHolders
  BY <1>4, ShortIsProper DEF OfHolders
<1>5. CASE w \in PublishPolicy
  BY <1>5, ShortIsProper
<1> QED
  BY <1>1, <1>2, <1>3, <1>4, <1>5 DEF Handlers

-----------------------------------------------------------------------------
(* A granted lock keeps everything: it conflicts with nobody's, and a look  *)
(* is taken from behind it.                                                *)
LEMMA GrantKeeps ==
    ASSUME LockInv, NEW s \in Slots, NEW j \in Job, j.rest # <<>>, Grant(s, j),
           j.fresh \cap decided = {},
           \A k \in j.fresh : [slot |-> s, lock |-> ForUpdate("key", k)] \in held
    PROVE  LockInv'
<1> DEFINE lock   == Head(j.rest)
           looks  == IF lock.table = "key" THEN {lock.id} ELSE {}
           replay == looks \cap decided # {}
           rest   == IF replay THEN <<>> ELSE Tail(j.rest)
           fresh  == IF replay THEN j.fresh ELSE j.fresh \cup looks
           mine   == [slot |-> s, lock |-> lock]
<1>1. lock \in Lock /\ Tail(j.rest) \in Seq(Lock)
  BY HeadTailProperties DEF Job
<1>2. looks \subseteq Keys /\ \A k \in looks : lock = ForUpdate("key", k)
  BY <1>1 DEF Lock, ForUpdate
<1>3. /\ held' = held \cup {mine}
      /\ decided' = decided
      /\ job' = [job EXCEPT ![s] = [kind |-> j.kind, rest |-> rest, fresh |-> fresh]]
      /\ \A l \in held : l.slot = s \/ ~Conflict(l.lock, lock)
  BY DEF Grant
<1>4. fresh \subseteq Keys /\ fresh \cap decided = {} /\ rest \in Seq(Lock)
  BY <1>1, <1>2 DEF Job
<1> HIDE DEF lock, looks, replay, rest
<1>5. LockTypeOK'
  <2>1. [kind |-> j.kind, rest |-> rest, fresh |-> fresh] \in Job
    BY <1>4 DEF Job
  <2>2. mine \in [slot : Slots, lock : Lock]
    BY <1>1
  <2> QED
    BY <1>3, <2>1, <2>2 DEF LockInv, LockTypeOK
<1>6. Exclusive'
  <2>1. \A l, m \in Lock : Conflict(l, m) => Conflict(m, l)
    BY DEF Conflict
  <2>2. held \subseteq [slot : Slots, lock : Lock]
    BY DEF LockInv, LockTypeOK
  <2>3. Exclusive
    BY DEF LockInv
  <2> QED
    BY <1>1, <1>3, <2>1, <2>2, <2>3 DEF Exclusive
<1>7. FreshIsHeld'
  <2> SUFFICES ASSUME NEW t \in Slots, Running(t)', NEW k \in job'[t].fresh
               PROVE  [slot |-> t, lock |-> ForUpdate("key", k)] \in held'
    BY DEF FreshIsHeld
  <2>1. CASE t = s
    <3>1. k \in fresh
      BY <1>3, <2>1 DEF LockInv, LockTypeOK
    <3>2. k \in j.fresh \/ k \in looks
      BY <3>1
    <3> QED
      BY <1>2, <1>3, <2>1, <3>2
  <2>2. CASE t # s
    BY <1>3, <2>2 DEF LockInv, LockTypeOK, FreshIsHeld, Running
  <2> QED
    BY <2>1, <2>2
<1>8. LooksStayTrue'
  <2> SUFFICES ASSUME NEW t \in Slots, Running(t)'
               PROVE  job'[t].fresh \cap decided' = {}
    BY DEF LooksStayTrue
  <2>1. CASE t = s
    BY <1>3, <1>4, <2>1 DEF LockInv, LockTypeOK
  <2>2. CASE t # s
    BY <1>3, <2>2 DEF LockInv, LockTypeOK, LooksStayTrue, Running
  <2> QED
    BY <2>1, <2>2
<1> QED
  BY <1>5, <1>6, <1>7, <1>8 DEF LockInv

(* A transaction that ends takes its locks with it and leaves the others'.  *)
LEMMA EndingKeeps ==
    ASSUME LockInv, NEW s \in Slots, job' = [job EXCEPT ![s] = Over], Released(s),
           decided' \subseteq Keys,
           \A t \in Slots \ {s} : Running(t) => job[t].fresh \cap decided' = {}
    PROVE  LockInv'
<1>1. LockTypeOK'
  BY DEF LockInv, LockTypeOK, Released
<1>2. Exclusive'
  BY DEF LockInv, Exclusive, Released
<1>3. \A t \in Slots : Running(t)' => t # s /\ Running(t) /\ job'[t] = job[t]
  BY DEF LockInv, LockTypeOK, Running
<1>4. FreshIsHeld'
  BY <1>3 DEF LockInv, FreshIsHeld, Released
<1>5. LooksStayTrue'
  BY <1>3 DEF LooksStayTrue
<1> QED
  BY <1>1, <1>2, <1>4, <1>5 DEF LockInv

-----------------------------------------------------------------------------
(* The locks of the handlers keep their invariant: they exclude one another *)
(* and stand behind every look.                                            *)
THEOREM LockInvariant == LockSpec => []LockInv
<1>1. LockInit => LockInv
  BY DEF LockInit, LockInv, LockTypeOK, Exclusive, FreshIsHeld, LooksStayTrue, Running
<1>2. LockInv /\ [LockNext]_lockVars => LockInv'
  <2> SUFFICES ASSUME LockInv, [LockNext]_lockVars
               PROVE  LockInv'
    OBVIOUS
  <2>1. ASSUME NEW s \in Slots, Begin(s)
        PROVE  LockInv'
    <3>1. PICK w \in Handlers : Grant(s, [kind |-> w.kind, rest |-> w.rest, fresh |-> {}])
      BY <2>1 DEF Begin
    <3>2. Proper(w)
      BY HandlersAreProper
    <3> DEFINE j == [kind |-> w.kind, rest |-> w.rest, fresh |-> {}]
    <3>3. j \in Job /\ j.rest # <<>> /\ j.fresh = {}
      BY <3>2 DEF Proper, Job
    <3>4. Grant(s, j)
      BY <3>1
    <3> HIDE DEF j
    <3> QED
      BY <3>3, <3>4, GrantKeeps
  <2>2. ASSUME NEW s \in Slots, Take(s)
        PROVE  LockInv'
    <3>1. Running(s) /\ job[s] \in Job /\ job[s].rest # <<>> /\ Grant(s, job[s])
      BY <2>2 DEF Take, Running, LockInv, LockTypeOK
    <3>2. job[s].fresh \cap decided = {}
      BY <3>1 DEF LockInv, LooksStayTrue
    <3>3. \A k \in job[s].fresh : [slot |-> s, lock |-> ForUpdate("key", k)] \in held
      BY <3>1 DEF LockInv, FreshIsHeld
    <3> QED
      BY <3>1, <3>2, <3>3, GrantKeeps
  <2>3. ASSUME NEW s \in Slots, Commit(s)
        PROVE  LockInv'
    <3>1. /\ Running(s) /\ job[s] \in Job
          /\ decided' = decided \cup job[s].fresh
          /\ job' = [job EXCEPT ![s] = Over]
          /\ Released(s)
      BY <2>3 DEF Commit, Running, LockInv, LockTypeOK
    <3>2. ASSUME NEW t \in Slots \ {s}, Running(t), NEW k \in job[t].fresh, k \in job[s].fresh
          PROVE  FALSE
      <4>1. /\ [slot |-> s, lock |-> ForUpdate("key", k)] \in held
            /\ [slot |-> t, lock |-> ForUpdate("key", k)] \in held
        BY <3>1, <3>2 DEF LockInv, FreshIsHeld
      <4>2. ~Conflict(ForUpdate("key", k), ForUpdate("key", k))
        BY <3>2, <4>1 DEF LockInv, Exclusive
      <4> QED
        BY <4>2 DEF Conflict, ForUpdate
    <3>3. \A t \in Slots \ {s} : Running(t) => job[t].fresh \cap decided' = {}
      BY <3>1, <3>2 DEF LockInv, LooksStayTrue
    <3>4. decided' \subseteq Keys
      BY <3>1 DEF LockInv, LockTypeOK, Job
    <3> QED
      BY <3>1, <3>3, <3>4, EndingKeeps
  <2>4. ASSUME NEW s \in Slots, Victim(s)
        PROVE  LockInv'
    <3>1. job' = [job EXCEPT ![s] = Over] /\ Released(s) /\ decided' = decided
      BY <2>4 DEF Victim
    <3>2. decided' \subseteq Keys
      BY <3>1 DEF LockInv, LockTypeOK
    <3>3. \A t \in Slots \ {s} : Running(t) => job[t].fresh \cap decided' = {}
      BY <3>1 DEF LockInv, LooksStayTrue
    <3> QED
      BY <3>1, <3>2, <3>3, EndingKeeps
  <2>5. CASE UNCHANGED lockVars
    BY <2>5 DEF lockVars, LockInv, LockTypeOK, Exclusive, FreshIsHeld, LooksStayTrue, Running
  <2> QED
    BY <2>1, <2>2, <2>3, <2>4, <2>5 DEF LockNext
<1> QED
  BY <1>1, <1>2, PTL DEF LockSpec

(* Every handler's work stays a list of locks, and only handlers hold them. *)
THEOREM LocksTypeCorrect == LockSpec => []LockTypeOK
BY LockInvariant, PTL DEF LockInv

(* Repeats of one idempotency key, however many and however interleaved,    *)
(* decide it once (payment_requests.py:90).                                *)
THEOREM KeysAreDecidedOnce == LockSpec => []LooksStayTrue
BY LockInvariant, PTL DEF LockInv

-----------------------------------------------------------------------------
(* The order.  Nobody among the spenders waits for the tenant, which they    *)
(* share; every other lock has a place, and the hops are placed by depth.  *)
OnTenant(l) == l.table = "tenant"

Rank(l) ==
    CASE l.table = "key"              -> 1
      [] l.table = "paytm_order"      -> 2
      [] l.table = "payment"          -> 3
      [] l.table = "approval"         -> 4
      [] l.table = "reservation"      -> 5
      [] l.table = "delegation_spend" -> 6
      [] l.table = "delegation"       -> 7 + Len(PathTo[l.id])
      [] OTHER                        -> 0

Ascending(q) ==
    \A i, j \in DOMAIN q :
        i < j /\ ~OnTenant(q[i]) /\ ~OnTenant(q[j]) => Rank(q[i]) < Rank(q[j])

Sharing(q) == \A i \in DOMAIN q : OnTenant(q[i]) => q[i].mode = "key_share"

From(q, low) == \A i \in DOMAIN q : ~OnTenant(q[i]) => Rank(q[i]) \in Nat /\ low <= Rank(q[i])

Below(q, high) == \A i \in DOMAIN q : ~OnTenant(q[i]) => Rank(q[i]) < high

InOrder(q, low) == q \in Seq(Lock) /\ Ascending(q) /\ Sharing(q) /\ From(q, low)

LEMMA Followed ==
    ASSUME NEW s, NEW m \in Nat, InOrder(s, m), NEW n \in Nat, Below(s, n), m <= n,
           NEW t, InOrder(t, n)
    PROVE  InOrder(s \o t, m)
<1> DEFINE q == s \o t
<1>1. s \in Seq(Lock) /\ t \in Seq(Lock)
  BY DEF InOrder
<1>2. /\ q \in Seq(Lock) /\ Len(s) \in Nat /\ Len(t) \in Nat
      /\ DOMAIN q = 1 .. Len(s) + Len(t) /\ DOMAIN s = 1 .. Len(s) /\ DOMAIN t = 1 .. Len(t)
      /\ \A i \in DOMAIN q : q[i] = IF i <= Len(s) THEN s[i] ELSE t[i - Len(s)]
  BY <1>1, ConcatProperties, LenProperties
<1> HIDE DEF q
<1>3. \A i \in DOMAIN q : \/ i \in DOMAIN s /\ q[i] = s[i] /\ i <= Len(s)
                          \/ i - Len(s) \in DOMAIN t /\ q[i] = t[i - Len(s)] /\ i > Len(s)
  BY <1>2
<1>4. Sharing(q)
  BY <1>3 DEF InOrder, Sharing
<1>5. From(q, m)
  BY <1>3 DEF InOrder, From
<1>6. Ascending(q)
  <2> SUFFICES ASSUME NEW i \in DOMAIN q, NEW j \in DOMAIN q, i < j,
                      ~OnTenant(q[i]), ~OnTenant(q[j])
               PROVE  Rank(q[i]) < Rank(q[j])
    BY DEF Ascending
  <2>1. i \in Nat /\ j \in Nat
    BY <1>2
  <2>2. CASE i \in DOMAIN s /\ q[i] = s[i] /\ j \in DOMAIN s /\ q[j] = s[j]
    BY <2>2 DEF InOrder, Ascending
  <2>3. CASE i \in DOMAIN s /\ q[i] = s[i] /\ j - Len(s) \in DOMAIN t /\ q[j] = t[j - Len(s)]
    <3>1. Rank(s[i]) \in Nat /\ Rank(s[i]) < n
      BY <2>3 DEF InOrder, From, Below
    <3>2. Rank(t[j - Len(s)]) \in Nat /\ n <= Rank(t[j - Len(s)])
      BY <2>3 DEF InOrder, From
    <3> QED
      BY <2>3, <3>1, <3>2
  <2>4. CASE i - Len(s) \in DOMAIN t /\ q[i] = t[i - Len(s)]
             /\ j - Len(s) \in DOMAIN t /\ q[j] = t[j - Len(s)]
    <3>1. i - Len(s) < j - Len(s)
      BY <1>2, <2>1
    <3> QED
      BY <2>4, <3>1 DEF InOrder, Ascending
  <2> QED
    BY <1>2, <1>3, <2>1, <2>2, <2>3, <2>4
<1> QED
  BY <1>2, <1>4, <1>5, <1>6 DEF InOrder, q

(* The rows of a purchase and of the shopper's day. *)
LEMMA RowRanks ==
    /\ \A k \in Keys : LET l == ForUpdate("key", k) IN Rank(l) = 1 /\ ~OnTenant(l)
    /\ \A p \in Purchases :
         /\ LET l == ForUpdate("paytm_order", p) IN Rank(l) = 2 /\ ~OnTenant(l)
         /\ LET l == ForUpdate("payment", p) IN Rank(l) = 3 /\ ~OnTenant(l)
         /\ LET l == ForUpdate("approval", p) IN Rank(l) = 4 /\ ~OnTenant(l)
         /\ LET l == Writes("delegation_spend", p) IN Rank(l) = 6 /\ ~OnTenant(l)
    /\ \A a \in Actors : LET l == Writes("reservation", a) IN Rank(l) = 5 /\ ~OnTenant(l)
    /\ \A h \in Hops :
         /\ LET l == ForUpdate("delegation", h) IN Rank(l) = 7 + Len(PathTo[h]) /\ ~OnTenant(l)
         /\ LET l == Writes("delegation", h) IN Rank(l) = 7 + Len(PathTo[h]) /\ ~OnTenant(l)
         /\ Len(PathTo[h]) \in Nat
    /\ OnTenant(TenantKey) /\ TenantKey.mode = "key_share"
BY LockAssumption DEF Rank, OnTenant, ForUpdate, Writes, References, TenantKey

LEMMA SharedTenantLast ==
    ASSUME NEW q, NEW m \in Nat, InOrder(q, m)
    PROVE  InOrder(q \o <<TenantKey>>, m)
<1> DEFINE s == q \o <<TenantKey>>
<1>1. q \in Seq(Lock) /\ TenantKey \in Lock
  BY LocksAreLocks DEF InOrder
<1>2. /\ s \in Seq(Lock) /\ Len(q) \in Nat /\ DOMAIN q = 1 .. Len(q)
      /\ DOMAIN s = 1 .. Len(q) + 1
      /\ \A i \in DOMAIN s : s[i] = IF i <= Len(q) THEN q[i] ELSE TenantKey
  BY <1>1
<1> HIDE DEF s
<1>3. \A i \in DOMAIN s : (i \in DOMAIN q /\ s[i] = q[i]) \/ s[i] = TenantKey
  BY <1>2
<1>4. Ascending(s) /\ Sharing(s) /\ From(s, m)
  BY <1>3, RowRanks DEF InOrder, Ascending, Sharing, From
<1> QED
  BY <1>2, <1>4 DEF InOrder, s

LEMMA Lower ==
    ASSUME NEW q, NEW m \in Nat, NEW n \in Nat, m <= n, InOrder(q, n)
    PROVE  InOrder(q, m)
BY DEF InOrder, From

LEMMA NothingInOrder == \A n \in Nat : InOrder(<<>>, n)
BY DEF InOrder, Ascending, Sharing, From

(* One lock, and one lock with the tenant's shared one beside it.            *)
LEMMA OneInOrder ==
    ASSUME NEW l \in Lock, ~OnTenant(l), NEW n \in Nat, Rank(l) = n
    PROVE  /\ InOrder(<<l>>, n) /\ Below(<<l>>, n + 1)
           /\ InOrder(<<l, TenantKey>>, n) /\ Below(<<l, TenantKey>>, n + 1)
BY LocksAreLocks, RowRanks DEF InOrder, Ascending, Sharing, From, Below

LEMMA TwoInOrder ==
    ASSUME NEW l \in Lock, ~OnTenant(l), NEW i \in Nat, Rank(l) = i,
           NEW m \in Lock, ~OnTenant(m), NEW j \in Nat, Rank(m) = j, i < j
    PROVE  /\ InOrder(<<l, m>>, i) /\ Below(<<l, m>>, j + 1)
           /\ InOrder(<<l, TenantKey, m>>, i)
BY LocksAreLocks, RowRanks DEF InOrder, Ascending, Sharing, From, Below

(* A chain is locked root first: the i-th hop of it is i deep.               *)
LEMMA ChainsInOrder ==
    ASSUME NEW h \in Hops \cup {None}, NEW c \in LockedChain(h)
    PROVE  InOrder(c, 7)
<1>1. c \in Seq(Lock)
  BY ChainsAreLocks
<1>2. CASE h = None
  BY <1>2, NothingInOrder DEF LockedChain
<1>3. CASE h # None
  <2>1. h \in Hops /\ PathTo[h] \in Seq(Hops)
    BY <1>3, LockAssumption
  <2>2. c = [i \in DOMAIN PathTo[h] |-> ForUpdate("delegation", PathTo[h][i])]
    BY <1>3 DEF LockedChain
  <2>3. \A i \in DOMAIN c : i \in Nat /\ PathTo[h][i] \in Hops /\ Len(PathTo[PathTo[h][i]]) = i
    BY <2>1, <2>2, PathAssumption
  <2>4. \A i \in DOMAIN c : i \in Nat /\ ~OnTenant(c[i]) /\ Rank(c[i]) = 7 + i
    BY <2>2, <2>3, RowRanks
  <2> QED
    BY <1>1, <2>4 DEF InOrder, Ascending, Sharing, From
<1> QED
  BY <1>2, <1>3

LEMMA ClaimsInOrder ==
    ASSUME NEW a \in Actors, NEW c \in Claims(a)
    PROVE  InOrder(c, 5)
<1> DEFINE l == Writes("reservation", a)
<1>1. PICK d \in LockedChain(Holder[a]) : c = <<l>> \o d
  BY DEF Claims
<1>2. l \in Lock /\ ~OnTenant(l) /\ Rank(l) = 5
  BY LocksAreLocks, RowRanks DEF Tables, Ids
<1> HIDE DEF l
<1>3. InOrder(<<l>>, 5) /\ Below(<<l>>, 5 + 1)
  BY <1>2, OneInOrder
<1>4. InOrder(d, 7)
  BY LockAssumption, ChainsInOrder
<1>5. InOrder(d, 6)
  BY <1>4, Lower
<1> QED
  BY <1>1, <1>3, <1>5, Followed

LEMMA ReleaseInOrder ==
    ASSUME NEW p \in Purchases
    PROVE  InOrder(Release(p), 5)
<1> DEFINE h == Holder[Buyer[p]]
           l == Writes("reservation", Buyer[p])
           m == Writes("delegation_spend", p)
           n == Writes("delegation", h)
<1>1. Buyer[p] \in Actors /\ h \in Hops \cup {None}
  BY LockAssumption
<1>2. l \in Lock /\ ~OnTenant(l) /\ Rank(l) = 5
  BY <1>1, LocksAreLocks, RowRanks DEF Tables, Ids
<1>3. Release(p) = <<l>> \o (IF h = None THEN <<>> ELSE <<m, n>>)
  BY DEF Release
<1>4. h # None => InOrder(<<m, n>>, 6)
  <2> SUFFICES ASSUME h # None PROVE InOrder(<<m, n>>, 6)
    OBVIOUS
  <2>1. m \in Lock /\ ~OnTenant(m) /\ Rank(m) = 6
    BY LocksAreLocks, RowRanks DEF Tables, Ids
  <2>2. n \in Lock /\ ~OnTenant(n) /\ Rank(n) = 7 + Len(PathTo[h]) /\ Len(PathTo[h]) \in Nat
    BY <1>1, LocksAreLocks, RowRanks DEF Tables, Ids
  <2> HIDE DEF m, n
  <2>3. 7 + Len(PathTo[h]) \in Nat /\ 6 < 7 + Len(PathTo[h])
    BY <2>2
  <2> QED
    BY <2>1, <2>2, <2>3, TwoInOrder
<1> HIDE DEF l
<1>5. InOrder(<<l>>, 5) /\ Below(<<l>>, 5 + 1)
  BY <1>2, OneInOrder
<1>6. InOrder(IF h = None THEN <<>> ELSE <<m, n>>, 6)
  BY <1>4, NothingInOrder
<1> HIDE DEF h, m, n
<1> QED
  BY <1>3, <1>5, <1>6, Followed

(* What each handler asks for is in the order, if it is a spender, and the   *)
(* checkouts ask for the tenant first.                                     *)
Placed(w) ==
    /\ w.kind \in Spenders => InOrder(w.rest, 1)
    /\ w.kind \in Checkouts => Head(w.rest) = Tenant

LEMMA HeadOfJoined ==
    ASSUME NEW s \in Seq(Lock), NEW t \in Seq(Lock), Len(s) > 0
    PROVE  Head(s \o t) = Head(s)
<1>1. s \o t \in Seq(Lock) /\ Len(s \o t) > 0 /\ (s \o t)[1] = s[1]
  BY ConcatProperties
<1> QED
  BY <1>1

LEMMA ActorsArePlaced ==
    ASSUME NEW w \in OfActors
    PROVE  Placed(w)
<1>1. ASSUME NEW a \in Actors, NEW k \in Keys, w \in Create(a, k)
      PROVE  Placed(w)
  <2> DEFINE l == ForUpdate("key", k)
  <2>1. PICK c \in Claims(a) : w.kind = "create" /\ w.rest = <<l>> \o c \o <<TenantKey>>
    BY <1>1 DEF Create, Work
  <2>2. l \in Lock /\ ~OnTenant(l) /\ Rank(l) = 1
    BY LocksAreLocks, RowRanks
  <2> HIDE DEF l
  <2>3. InOrder(<<l>>, 1) /\ Below(<<l>>, 1 + 1)
    BY <2>2, OneInOrder
  <2>4. InOrder(c, 5)
    BY ClaimsInOrder
  <2>5. InOrder(c, 1 + 1)
    BY <2>4, Lower
  <2>6. InOrder(<<l>> \o c, 1)
    BY <2>3, <2>5, Followed
  <2> QED
    BY <2>1, <2>6, SharedTenantLast DEF Placed, Checkouts
<1>2. ASSUME NEW a \in Actors, w \in Basket(a)
      PROVE  Placed(w)
  <2>1. PICK c \in Claims(a) : w.kind = "basket" /\ w.rest = <<TenantKey>> \o c
    BY <1>2 DEF Basket, Work
  <2>2. InOrder(<<TenantKey>>, 1) /\ Below(<<TenantKey>>, 5)
    BY LocksAreLocks, RowRanks DEF InOrder, Ascending, Sharing, From, Below
  <2>3. InOrder(<<TenantKey>> \o c, 1)
    BY <2>2, ClaimsInOrder, Followed
  <2> QED
    BY <2>1, <2>3 DEF Placed, Checkouts
<1> QED
  BY <1>1, <1>2 DEF OfActors

LEMMA PaymentsArePlaced ==
    ASSUME NEW p \in Purchases, NEW w \in GrantApproval(p) \cup ProviderEvent(p) \cup Confirm(p)
    PROVE  Placed(w)
<1> DEFINE pay == ForUpdate("payment", p)
<1>1. pay \in Lock /\ ~OnTenant(pay) /\ Rank(pay) = 3
  BY LocksAreLocks, RowRanks DEF Tables, Ids
<1>2. CASE w \in GrantApproval(p)
  <2> DEFINE l == ForUpdate("approval", p)
  <2>1. w.kind = "approve" /\ w.rest = <<pay, TenantKey, l>>
    BY <1>2 DEF GrantApproval, Work
  <2>2. l \in Lock /\ ~OnTenant(l) /\ Rank(l) = 4
    BY LocksAreLocks, RowRanks DEF Tables, Ids
  <2> HIDE DEF pay, l
  <2>3. InOrder(<<pay, TenantKey, l>>, 3)
    <3>1. PICK i \in Nat, j \in Nat : i = 3 /\ j = 4 /\ i < j
      OBVIOUS
    <3> QED
      BY <1>1, <2>2, <3>1, TwoInOrder
  <2> QED
    BY <2>1, <2>3, Lower DEF Placed, Checkouts
<1>3. CASE w \in ProviderEvent(p)
  <2>1. /\ w.kind = "event"
        /\ w.rest = <<pay, TenantKey>> \/ w.rest = <<pay, TenantKey>> \o Release(p)
    BY <1>3 DEF ProviderEvent, Work
  <2> HIDE DEF pay
  <2>2. InOrder(<<pay, TenantKey>>, 3) /\ Below(<<pay, TenantKey>>, 3 + 1)
    BY <1>1, OneInOrder
  <2>3. InOrder(Release(p), 3 + 1)
    BY ReleaseInOrder, Lower
  <2>4. InOrder(<<pay, TenantKey>> \o Release(p), 3)
    BY <2>2, <2>3, Followed
  <2>5. InOrder(w.rest, 3)
    BY <2>1, <2>2, <2>4
  <2> QED
    BY <2>1, <2>5, Lower DEF Placed, Checkouts
<1>4. CASE w \in Confirm(p)
  <2> DEFINE l == ForUpdate("paytm_order", p)
  <2>1. /\ w.kind = "confirm"
        /\ w.rest = <<l, pay>> \o <<TenantKey>> \/ w.rest = <<l, pay>> \o Release(p) \o <<TenantKey>>
    BY <1>4 DEF Confirm, Work
  <2>2. l \in Lock /\ ~OnTenant(l) /\ Rank(l) = 2
    BY LocksAreLocks, RowRanks DEF Tables, Ids
  <2> HIDE DEF pay, l
  <2>3. InOrder(<<l, pay>>, 2) /\ Below(<<l, pay>>, 3 + 1)
    <3>1. PICK i \in Nat, j \in Nat : i = 2 /\ j = 3 /\ i < j
      OBVIOUS
    <3> QED
      BY <1>1, <2>2, <3>1, TwoInOrder
  <2>4. InOrder(Release(p), 3 + 1)
    BY ReleaseInOrder, Lower
  <2>5. InOrder(<<l, pay>> \o Release(p), 2)
    BY <2>3, <2>4, Followed
  <2>6. InOrder(w.rest, 2)
    BY <2>1, <2>3, <2>5, SharedTenantLast
  <2> QED
    BY <2>1, <2>6, Lower DEF Placed, Checkouts
<1> QED
  BY <1>2, <1>3, <1>4

LEMMA CheckoutsArePlaced ==
    ASSUME NEW p \in Purchases, NEW w \in Issue(p) \cup Consume(p) \cup Webhook(p)
    PROVE  Placed(w)
<1>1. CASE w \in Issue(p)
  <2>1. w.kind = "issue" /\ \E g \in Gate(p) : w.rest = g \/ w.rest = g \o Release(p)
    BY <1>1 DEF Issue, Work
  <2>2. PICK g \in Gate(p) : w.rest = g \/ w.rest = g \o Release(p)
    BY <2>1
  <2> DEFINE front == <<Tenant, ForUpdate("payment_request", p), ForUpdate("payment", p)>>
  <2>3. PICK c \in LockedChain(Holder[Buyer[p]]) : g = front \o c
    BY DEF Gate
  <2>4. c \in Seq(Lock) /\ front \in Seq(Lock) /\ Len(front) = 3 /\ Head(front) = Tenant
    BY LockAssumption, ChainsAreLocks, LocksAreLocks DEF Tables, Ids
  <2> HIDE DEF front
  <2>5. Head(g) = Tenant
    BY <2>3, <2>4, HeadOfJoined
  <2>6. Head(g \o Release(p)) = Tenant
    BY <2>5, GateIsLocks, ReleaseIsLocks, HeadOfJoined
  <2> QED
    BY <2>1, <2>2, <2>5, <2>6 DEF Placed, Spenders
<1>2. CASE w \in Consume(p)
  <2> DEFINE front == <<Tenant, ForUpdate("checkout_authority", p),
                        ForUpdate("payment_request", p), ForUpdate("payment", p)>>
  <2>1. PICK c \in LockedChain(Holder[Buyer[p]]) : w.kind = "consume" /\ w.rest = front \o c
    BY <1>2 DEF Consume, Work
  <2>2. c \in Seq(Lock) /\ front \in Seq(Lock) /\ Len(front) = 4 /\ Head(front) = Tenant
    BY LockAssumption, ChainsAreLocks, LocksAreLocks DEF Tables, Ids
  <2> HIDE DEF front
  <2> QED
    BY <2>1, <2>2, HeadOfJoined DEF Placed, Spenders
<1>3. CASE w \in Webhook(p)
  BY <1>3 DEF Webhook, Work, Placed, Spenders, Checkouts
<1> QED
  BY <1>1, <1>2, <1>3

LEMMA HopsArePlaced ==
    ASSUME NEW w \in OfHops \cup OfHolders \cup PublishPolicy
    PROVE  Placed(w)
<1>1. ASSUME NEW h \in Hops, w \in Revoke(h) \cup GrantFirst(h)
      PROVE  Placed(w)
  <2>1. PICK l \in {Writes("delegation", h), ForUpdate("delegation", h)} :
          w.kind \in {"revoke", "grant"} /\ w.rest = <<l, TenantKey>>
    BY <1>1 DEF Revoke, GrantFirst, Work
  <2>2. l \in Lock /\ ~OnTenant(l) /\ Rank(l) = 7 + Len(PathTo[h]) /\ Len(PathTo[h]) \in Nat
    BY LocksAreLocks, RowRanks DEF Tables, Ids
  <2>3. 7 + Len(PathTo[h]) \in Nat /\ 1 <= 7 + Len(PathTo[h])
    BY <2>2
  <2>4. InOrder(<<l, TenantKey>>, 7 + Len(PathTo[h]))
    BY <2>2, <2>3, OneInOrder
  <2>5. InOrder(<<l, TenantKey>>, 1)
    BY <2>3, <2>4, Lower
  <2> QED
    BY <2>1, <2>5 DEF Placed, Checkouts
<1>2. CASE w \in OfHolders
  <2>1. PICK a \in Actors, h \in Hops : w \in GrantAgain(a, h)
    BY <1>2 DEF OfHolders
  <2>2. w.kind = "regrant"
    BY <2>1 DEF GrantAgain, Work
  <2> QED
    BY <2>2 DEF Placed, Spenders, Checkouts
<1>3. CASE w \in PublishPolicy
  BY <1>3 DEF PublishPolicy, Work, Placed, Spenders
<1> QED
  BY <1>1, <1>2, <1>3 DEF OfHops

LEMMA HandlersArePlaced ==
    ASSUME NEW w \in Handlers
    PROVE  Placed(w)
<1>1. CASE w \in OfPurchases
  BY <1>1, PaymentsArePlaced, CheckoutsArePlaced DEF OfPurchases
<1> QED
  BY <1>1, ActorsArePlaced, HopsArePlaced DEF Handlers

-----------------------------------------------------------------------------
(* A spender asks for nothing that ranks below what it holds; a checkout     *)
(* holds its tenant; and nobody holds a lock who is not running.           *)
Precedes(l, q) ==
    IF OnTenant(l) THEN l.mode = "key_share"
    ELSE \A i \in DOMAIN q : ~OnTenant(q[i]) => Rank(l) < Rank(q[i])

Climbs(s, q) == InOrder(q, 1) /\ \A l \in held : l.slot = s => Precedes(l.lock, q)

Orderly(s) ==
    /\ job[s].kind \in Spenders => Climbs(s, job[s].rest)
    /\ job[s].kind \in Checkouts => [slot |-> s, lock |-> Tenant] \in held

OrderInv ==
    /\ LockInv
    /\ \A l \in held : Running(l.slot)
    /\ \A s \in Slots : Running(s) => Orderly(s)

LEMMA GrantClimbs ==
    ASSUME OrderInv, LockInv', NEW s \in Slots, NEW j \in Job, j.rest # <<>>, Grant(s, j),
           j.kind \in Spenders => Climbs(s, j.rest),
           j.kind \in Checkouts =>
               [slot |-> s, lock |-> Tenant] \in held \/ Head(j.rest) = Tenant
    PROVE  OrderInv'
<1> DEFINE looks  == IF Head(j.rest).table = "key" THEN {Head(j.rest).id} ELSE {}
           replay == looks \cap decided # {}
           rest   == IF replay THEN <<>> ELSE Tail(j.rest)
           fresh  == IF replay THEN j.fresh ELSE j.fresh \cup looks
<1>1. PICK lock : lock = Head(j.rest)
  OBVIOUS
<1>2. j.rest \in Seq(Lock) /\ j.kind \in Kinds /\ lock = j.rest[1] /\ 1 \in DOMAIN j.rest
  BY <1>1 DEF Job
<1>3. /\ held' = held \cup {[slot |-> s, lock |-> lock]}
      /\ job' = [job EXCEPT ![s] = [kind |-> j.kind, rest |-> rest, fresh |-> fresh]]
  BY <1>1 DEF Grant
<1>4. /\ rest \in Seq(Lock)
      /\ \A i \in DOMAIN rest : i \in Nat /\ i + 1 \in DOMAIN j.rest /\ rest[i] = j.rest[i + 1]
  BY <1>2, HeadTailProperties
<1>0. fresh \subseteq Keys
  BY <1>1, <1>2 DEF Job, Lock
<1> HIDE DEF looks, replay, rest, fresh
<1>5. PICK q : q = rest
  OBVIOUS
<1>6. /\ job'[s].kind = j.kind /\ job'[s].rest = q
      /\ \A t \in Slots : t # s => job'[t] = job[t]
  BY <1>3, <1>5 DEF OrderInv, LockInv, LockTypeOK
<1>7. Running(s)'
  <2>1. job'[s] = [kind |-> j.kind, rest |-> rest, fresh |-> fresh]
    BY <1>3 DEF OrderInv, LockInv, LockTypeOK
  <2>2. job'[s].kind # "over"
    BY <1>2, <1>6 DEF Kinds
  <2>3. job'[s] # Over
    BY <2>2 DEF Over
  <2>4. job'[s] # None
    BY <1>0, <1>2, <1>4, <2>1, JobAssumption DEF Job
  <2> QED
    BY <2>3, <2>4 DEF Running
<1>8. \A l \in held' : Running(l.slot)'
  <2>1. \A l \in held : l.slot \in Slots /\ Running(l.slot)
    BY DEF OrderInv, LockInv, LockTypeOK
  <2> QED
    BY <1>3, <1>6, <1>7, <2>1 DEF Running
<1>9. ASSUME NEW t \in Slots, t # s, Running(t)' PROVE Orderly(t)'
  <2>1. Running(t) /\ job'[t] = job[t]
    BY <1>6, <1>9 DEF Running
  <2>2. \A l \in held' : l.slot = t => l \in held
    BY <1>3, <1>9
  <2> QED
    BY <1>3, <2>1, <2>2 DEF OrderInv, Orderly, Climbs
<1>10. ASSUME j.kind \in Spenders PROVE Climbs(s, q)'
  <2>1. /\ Climbs(s, j.rest)
        /\ \A i \in DOMAIN q : i \in Nat /\ i + 1 \in DOMAIN j.rest /\ q[i] = j.rest[i + 1]
        /\ q \in Seq(Lock)
    BY <1>4, <1>5, <1>10
  <2>2. InOrder(q, 1)
    <3>1. Sharing(q) /\ From(q, 1)
      BY <2>1 DEF Climbs, InOrder, Sharing, From
    <3>2. Ascending(q)
      <4> SUFFICES ASSUME NEW i \in DOMAIN q, NEW k \in DOMAIN q, i < k,
                          ~OnTenant(q[i]), ~OnTenant(q[k])
                   PROVE  Rank(q[i]) < Rank(q[k])
        BY DEF Ascending
      <4>1. i + 1 < k + 1
        BY <2>1
      <4> QED
        BY <2>1, <4>1 DEF Climbs, InOrder, Ascending
    <3> QED
      BY <2>1, <3>1, <3>2 DEF InOrder
  <2>3. ASSUME NEW l \in held', l.slot = s PROVE Precedes(l.lock, q)
    <3>1. CASE l \in held
      BY <2>1, <2>3, <3>1 DEF Climbs, Precedes
    <3>2. CASE l.lock = lock
      <4>1. \A i \in DOMAIN q : 1 < i + 1
        BY <2>1
      <4> QED
        BY <1>2, <2>1, <3>2, <4>1 DEF Climbs, InOrder, Ascending, Sharing, Precedes
    <3> QED
      BY <1>3, <2>3, <3>1, <3>2
  <2> QED
    BY <2>2, <2>3 DEF Climbs
<1>11. j.kind \in Checkouts => [slot |-> s, lock |-> Tenant] \in held'
  BY <1>1, <1>3
<1>12. Orderly(s)'
  BY <1>6, <1>10, <1>11 DEF Orderly
<1> QED
  BY <1>8, <1>9, <1>12 DEF OrderInv

LEMMA EndingClimbs ==
    ASSUME OrderInv, LockInv', NEW s \in Slots, job' = [job EXCEPT ![s] = Over], Released(s)
    PROVE  OrderInv'
<1>1. \A t \in Slots : Running(t)' => t # s /\ Running(t) /\ job'[t] = job[t]
  BY DEF OrderInv, LockInv, LockTypeOK, Running
<1>2. \A l \in held' : l \in held /\ l.slot # s /\ l.slot \in Slots
  BY DEF OrderInv, LockInv, LockTypeOK, Released
<1>3. \A l \in held : l.slot # s => l \in held'
  BY DEF Released
<1>4. \A l \in held' : Running(l.slot)'
  BY <1>2 DEF OrderInv, LockInv, LockTypeOK, Running
<1>5. ASSUME NEW t \in Slots, Running(t)' PROVE Orderly(t)'
  <2>1. t # s /\ Orderly(t) /\ job'[t] = job[t]
    BY <1>1, <1>5 DEF OrderInv
  <2>2. job[t].kind \in Spenders => Climbs(t, job[t].rest)'
    BY <1>2, <2>1 DEF Orderly, Climbs
  <2>3. job[t].kind \in Checkouts => [slot |-> t, lock |-> Tenant] \in held'
    BY <1>3, <2>1 DEF Orderly
  <2> QED
    BY <2>1, <2>2, <2>3 DEF Orderly, Climbs
<1> QED
  BY <1>4, <1>5 DEF OrderInv

LEMMA OrderInvStep ==
    ASSUME OrderInv, LockInv', [LockNext]_lockVars
    PROVE  OrderInv'
<1>1. ASSUME NEW s \in Slots, Begin(s)
      PROVE  OrderInv'
  <2>1. PICK w \in Handlers : Grant(s, [kind |-> w.kind, rest |-> w.rest, fresh |-> {}])
    BY <1>1 DEF Begin
  <2> DEFINE j == [kind |-> w.kind, rest |-> w.rest, fresh |-> {}]
  <2>2. j \in Job /\ j.rest # <<>> /\ Grant(s, j)
    BY <2>1, HandlersAreProper DEF Proper, Job
  <2>3. \A l \in held : l.slot # s
    BY <1>1 DEF Begin, OrderInv, Running
  <2>4. j.kind \in Spenders => Climbs(s, j.rest)
    BY <2>3, HandlersArePlaced DEF Placed, Climbs
  <2>5. j.kind \in Checkouts => Head(j.rest) = Tenant
    BY HandlersArePlaced DEF Placed
  <2> HIDE DEF j
  <2> QED
    BY <2>2, <2>4, <2>5, GrantClimbs
<1>2. ASSUME NEW s \in Slots, Take(s)
      PROVE  OrderInv'
  <2>1. Running(s) /\ job[s] \in Job /\ job[s].rest # <<>> /\ Grant(s, job[s])
    BY <1>2 DEF Take, Running, OrderInv, LockInv, LockTypeOK
  <2>2. Orderly(s)
    BY <2>1 DEF OrderInv
  <2> QED
    BY <2>1, <2>2, GrantClimbs DEF Orderly
<1>3. ASSUME NEW s \in Slots, Commit(s) \/ Victim(s)
      PROVE  OrderInv'
  BY <1>3, EndingClimbs DEF Commit, Victim
<1>4. CASE UNCHANGED lockVars
  BY <1>4 DEF lockVars, OrderInv, Orderly, Climbs, Running
<1> QED
  BY <1>1, <1>2, <1>3, <1>4 DEF LockNext

(* Among spenders a wait leads from a lower rank to a higher one.            *)
LEMMA WaitsClimb ==
    ASSUME OrderInv, NEW s \in Slots, NEW t \in Slots, NEW u \in Slots,
           WaitsFor(s, t), WaitsFor(t, u),
           job[s].kind \in Spenders, job[t].kind \in Spenders, job[u].kind \in Spenders
    PROVE  /\ Rank(Head(job[s].rest)) < Rank(Head(job[t].rest))
           /\ Rank(Head(job[s].rest)) \in Nat /\ Rank(Head(job[t].rest)) \in Nat
<1>1. ASSUME NEW x \in Slots, NEW y \in Slots, WaitsFor(x, y),
             job[x].kind \in Spenders, job[y].kind \in Spenders, Running(y)
      PROVE  /\ ~OnTenant(Head(job[x].rest)) /\ Rank(Head(job[x].rest)) \in Nat
             /\ Head(job[x].rest) = job[x].rest[1] /\ 1 \in DOMAIN job[x].rest
             /\ \E l \in held : /\ l.slot = y /\ ~OnTenant(l.lock)
                                /\ Rank(l.lock) = Rank(Head(job[x].rest))
  <2>1. Running(x) /\ job[x].rest # <<>>
    BY <1>1 DEF WaitsFor
  <2>2. Climbs(x, job[x].rest) /\ Climbs(y, job[y].rest)
    BY <1>1, <2>1 DEF OrderInv, Orderly
  <2>3. job[x].rest \in Seq(Lock)
    BY <2>2 DEF Climbs, InOrder
  <2>4. PICK q : q = job[x].rest
    OBVIOUS
  <2>5. Head(q) = q[1] /\ 1 \in DOMAIN q
    BY <2>1, <2>3, <2>4
  <2>6. PICK l \in held : l.slot = y /\ Conflict(l.lock, Head(q))
    BY <1>1, <2>4 DEF WaitsFor
  <2>7. OnTenant(l.lock) => l.lock.mode = "key_share"
    BY <2>2, <2>6 DEF Climbs, Precedes
  <2>8. OnTenant(Head(q)) => Head(q).mode = "key_share"
    BY <2>2, <2>4, <2>5 DEF Climbs, InOrder, Sharing
  <2>9. l.lock.table = Head(q).table /\ l.lock.id = Head(q).id
        /\ ~OnTenant(l.lock) /\ ~OnTenant(Head(q))
    BY <2>6, <2>7, <2>8 DEF Conflict, OnTenant
  <2>10. Rank(l.lock) = Rank(Head(q))
    BY <2>9 DEF Rank
  <2>11. Rank(Head(q)) \in Nat
    BY <2>2, <2>4, <2>5, <2>9 DEF Climbs, InOrder, From
  <2> QED
    BY <2>4, <2>5, <2>6, <2>9, <2>10, <2>11
<1>2. Running(t) /\ Running(s)
  BY DEF WaitsFor
<1>3. PICK l \in held : /\ l.slot = t /\ ~OnTenant(l.lock)
                        /\ Rank(l.lock) = Rank(Head(job[s].rest))
  BY <1>1, <1>2
<1>4. Rank(Head(job[s].rest)) \in Nat
  BY <1>1, <1>2
<1>5. Running(u) => /\ ~OnTenant(Head(job[t].rest)) /\ Rank(Head(job[t].rest)) \in Nat
                    /\ Head(job[t].rest) = job[t].rest[1] /\ 1 \in DOMAIN job[t].rest
  BY <1>1
<1>6. Running(u)
  BY DEF WaitsFor, OrderInv
<1>7. Climbs(t, job[t].rest)
  BY <1>2 DEF OrderInv, Orderly
<1>8. Rank(l.lock) < Rank(Head(job[t].rest))
  BY <1>3, <1>5, <1>6, <1>7 DEF Climbs, Precedes
<1> QED
  BY <1>3, <1>4, <1>5, <1>6, <1>8

(* A set of spenders that all wait for one another would have no member that *)
(* asks for the highest rank.                                              *)
LEMMA SpendersNeverCircle ==
    ASSUME OrderInv, NEW C \in SUBSET { s \in Slots : Running(s) /\ job[s].kind \in Spenders }
    PROVE  ~Stuck(C)
<1> SUFFICES ASSUME Stuck(C) PROVE FALSE
  OBVIOUS
<1> DEFINE rank(s) == Rank(Head(job[s].rest))
           Higher(s) == { t \in C : rank(t) > rank(s) }
           B == { Higher(s) : s \in C }
<1>1. IsFiniteSet(C)
  <2>1. IsFiniteSet(Slots)
    BY LockAssumption, FS_Interval DEF Slots
  <2> QED
    BY <2>1, FS_Subset
<1>2. B # {} /\ B \in SUBSET SUBSET C
  <2>1. C # {}
    BY DEF Stuck
  <2>2. \A s \in C : Higher(s) \in SUBSET C
    OBVIOUS
  <2> HIDE DEF Higher
  <2> QED
    BY <2>1, <2>2
<1>3. PICK U \in B : \A V \in B : V \subseteq U => V = U
  <2> HIDE DEF B
  <2> QED
    BY <1>1, <1>2, LeastSet
<1>4. PICK s \in C : U = Higher(s)
  BY <1>3
<1>5. PICK t \in C : WaitsFor(s, t)
  BY DEF Stuck
<1>6. PICK u \in C : WaitsFor(t, u)
  BY DEF Stuck
<1>7. rank(s) < rank(t) /\ rank(s) \in Nat /\ rank(t) \in Nat
  BY <1>5, <1>6, WaitsClimb
<1>8. \A x \in C : rank(x) \in Nat
  <2>1. ASSUME NEW x \in C PROVE rank(x) \in Nat
    <3>1. PICK y \in C : WaitsFor(x, y)
      BY DEF Stuck
    <3>2. PICK z \in C : WaitsFor(y, z)
      BY DEF Stuck
    <3> QED
      BY <3>1, <3>2, WaitsClimb
  <2> QED
    BY <2>1
<1> HIDE DEF rank
<1>9. Higher(t) \subseteq Higher(s) /\ t \in Higher(s) /\ t \notin Higher(t)
  BY <1>7, <1>8
<1> QED
  BY <1>3, <1>4, <1>9

(* Two running checkouts would both hold the tenant.                         *)
LEMMA CheckoutsNeverCircle ==
    ASSUME OrderInv, NEW C \in SUBSET { s \in Slots : Running(s) /\ job[s].kind \in Checkouts }
    PROVE  ~Stuck(C)
<1> SUFFICES ASSUME NEW s \in C, NEW t \in C, WaitsFor(s, t) PROVE FALSE
  BY DEF Stuck
<1>1. s # t /\ [slot |-> s, lock |-> Tenant] \in held /\ [slot |-> t, lock |-> Tenant] \in held
  BY DEF WaitsFor, OrderInv, Orderly
<1>2. ~Conflict(Tenant, Tenant)
  BY <1>1 DEF OrderInv, LockInv, Exclusive
<1> QED
  BY <1>2 DEF Conflict, Tenant, ForUpdate

(* Root first, budgets after the payment and checkouts behind their tenant:  *)
(* for any number of transactions, purchases, hops and depths no circle of *)
(* waits lies within either family (chain.py:458, checkout_authorities.py). *)
THEOREM FamiliesNeverCircle == LockSpec => []OrderedLocksNeverCircle
<1>1. LockInit => OrderInv
  BY DEF LockInit, OrderInv, LockInv, LockTypeOK, Exclusive, FreshIsHeld, LooksStayTrue, Running
<1>2. OrderInv /\ LockInv' /\ [LockNext]_lockVars => OrderInv'
  BY OrderInvStep
<1>3. OrderInv => OrderedLocksNeverCircle
  BY SpendersNeverCircle, CheckoutsNeverCircle DEF OrderedLocksNeverCircle
<1> QED
  BY <1>1, <1>2, <1>3, LockInvariant, PTL DEF LockSpec
=============================================================================
