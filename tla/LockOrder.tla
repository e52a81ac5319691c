----------------------------- MODULE LockOrder -----------------------------
(***************************************************************************)
(* The row locks the handlers take, in the order they take them, and what  *)
(* the database does when they wait on one another.                        *)
(*                                                                         *)
(* A handler is one transaction.  Its work is the list of the locks it     *)
(* asks for: locked() is SELECT ... FOR UPDATE, an UPDATE locks the row it *)
(* writes, and an INSERT locks the rows its foreign keys name against a    *)
(* change of key.  Locks are held to the end of the transaction.  A        *)
(* refused claim gives its savepoint's locks back earlier, which only      *)
(* removes waits and is left out, as is everything the handlers write      *)
(* except which idempotency keys have been decided.                        *)
(***************************************************************************)
EXTENDS Naturals, Sequences, FiniteSets, TLC

CONSTANTS
    MaxTx,      \* bound: the transactions there are, begun in the order of their numbers
    Actors,
    Keys,       \* idempotency keys
    Purchases,  \* payments that exist, with their request, authority and order
    Buyer,      \* the actor of each purchase
    Hops,
    PathTo,     \* resolve_chain: the hops from the root down to each, by depth
    Holder,     \* the hop each actor spends under, or None
    None

(* FOR UPDATE, what an UPDATE takes, what a foreign key takes.              *)
Modes == {"update", "no_key_update", "key_share"}

Tables == { "tenant", "key", "reservation", "delegation", "delegation_spend", "payment_request",
            "payment", "approval", "checkout_authority", "paytm_order" }

Ids == Actors \cup Keys \cup Purchases \cup Hops \cup {None}

(* A key's lock is an advisory lock, which is exclusive.                    *)
Lock == { l \in [table : Tables, id : Ids, mode : Modes] :
            l.table = "key" => l.mode = "update" /\ l.id \in Keys }

Slots == 1 .. MaxTx

ASSUME LockAssumption ==
    /\ MaxTx \in Nat
    /\ Buyer \in [Purchases -> Actors]
    /\ PathTo \in [Hops -> Seq(Hops)]
    /\ Holder \in [Actors -> Hops \cup {None}]
    /\ None \notin Actors \cup Keys \cup Purchases \cup Hops

(* A hop is one deeper than its parent, so its place on the path of any hop *)
(* below it is the length of its own path (the trigger that compares depths *)
(* and ck_delegation_root_is_the_only_orphan).                             *)
ASSUME PathAssumption ==
    \A h \in Hops : \A i \in DOMAIN PathTo[h] : Len(PathTo[PathTo[h][i]]) = i

-----------------------------------------------------------------------------
ForUpdate(t, i) == [table |-> t, id |-> i, mode |-> "update"]
Writes(t, i)    == [table |-> t, id |-> i, mode |-> "no_key_update"]
References(t, i) == [table |-> t, id |-> i, mode |-> "key_share"]

Tenant    == ForUpdate("tenant", None)
TenantKey == References("tenant", None)

(* Mutant: the hops are locked in whatever order the rows come back. *)
LockedInAnyOrder(h) ==
    IF h = None THEN {<<>>}
    ELSE { [i \in DOMAIN PathTo[h] |-> ForUpdate("delegation", PathTo[h][o[i]])] :
             o \in Permutations(DOMAIN PathTo[h]) }

(* _locked_chain: all of them, the root first. *)
LockedChain(h) ==
    IF h = None THEN {<<>>}
    ELSE { [i \in DOMAIN PathTo[h] |-> ForUpdate("delegation", PathTo[h][i])] }

(* Both budgets given back: the day's row, the ledger row, the hop.         *)
Release(p) ==
    LET h == Holder[Buyer[p]] IN
    <<Writes("reservation", Buyer[p])>>
      \o (IF h = None THEN <<>>
          ELSE <<Writes("delegation_spend", p), Writes("delegation", h)>>)

Claims(a) == { <<Writes("reservation", a)>> \o c : c \in LockedChain(Holder[a]) }

Work(kind, locks) == [kind : {kind}, rest : locks]

(* Mutant: the key is locked in shared mode. *)
CreateSharing(a, k) ==
    Work("create", { <<References("key", k)>> \o c \o <<TenantKey>> : c \in Claims(a) })

(* create_payment_request_for_context, for an actor whose day already has a *)
(* row; the references to the tenant come with the rows it inserts.         *)
Create(a, k) ==
    Work("create", { <<ForUpdate("key", k)>> \o c \o <<TenantKey>> : c \in Claims(a) })

(* The same inside create_basket, which has inserted the basket's row; its *)
(* keys are its own, and later lines lock what the first one locked.       *)
Basket(a) == Work("basket", { <<TenantKey>> \o c : c \in Claims(a) })

GrantApproval(p) ==
    Work("approve", { <<ForUpdate("payment", p), TenantKey, ForUpdate("approval", p)>> })

(* issue_checkout_authority; a dead chain goes on to cancel the payment.    *)
Gate(p) == { <<Tenant, ForUpdate("payment_request", p), ForUpdate("payment", p)>> \o c :
               c \in LockedChain(Holder[Buyer[p]]) }

Issue(p) == Work("issue", Gate(p) \cup { g \o Release(p) : g \in Gate(p) })

(* consume_checkout_authority.  Paytm's start_payment is an issue and a     *)
(* consume in one transaction, and asks for the same rows after the tenant.*)
Consume(p) ==
    Work("consume",
         { <<Tenant, ForUpdate("checkout_authority", p), ForUpdate("payment_request", p),
             ForUpdate("payment", p)>> \o c : c \in LockedChain(Holder[Buyer[p]]) })

(* receive_provider_event, with and without a failure to clean up after.    *)
ProviderEvent(p) ==
    LET seen == <<ForUpdate("payment", p), TenantKey>> IN
    Work("event", { seen, seen \o Release(p) })

(* receive_razorpay_webhook does not lock the payment before it records the *)
(* event: the insert, or the captured amount, holds the row more weakly    *)
(* than transition() then asks for it.                                     *)
Webhook(p) ==
    Work("webhook",
         { <<Writes("payment", p), TenantKey, ForUpdate("payment", p)>>,
           <<TenantKey, References("payment", p), ForUpdate("payment", p)>> })

(* Paytm's confirm_order.                                                  *)
Confirm(p) ==
    LET asked == <<ForUpdate("paytm_order", p), ForUpdate("payment", p)>> IN
    Work("confirm", { asked \o <<TenantKey>>, asked \o Release(p) \o <<TenantKey>> })

Revoke(h) == Work("revoke", { <<Writes("delegation", h), TenantKey>> })

(* A hop for an actor who holds none: the trigger locks its parent.         *)
GrantFirst(up) == Work("grant", { <<ForUpdate("delegation", up), TenantKey>> })

(* A hop for an actor whose expired one is finalized first.                 *)
GrantAgain(a, up) ==
    Work("regrant",
         IF Holder[a] \in {None, up} THEN {}
         ELSE {<<ForUpdate("delegation", Holder[a]), TenantKey, ForUpdate("delegation", up)>>})

PublishPolicy == Work("policy", { <<Tenant>> })

OfActors    == (UNION { Create(a, k) : a \in Actors, k \in Keys })
                 \cup (UNION { Basket(a) : a \in Actors })
OfPurchases == UNION { GrantApproval(p) \cup Issue(p) \cup Consume(p) \cup ProviderEvent(p)
                         \cup Webhook(p) \cup Confirm(p) : p \in Purchases }
OfHops      == UNION { Revoke(h) \cup GrantFirst(h) : h \in Hops }
OfHolders   == UNION { GrantAgain(a, h) : a \in Actors, h \in Hops }

Handlers == OfActors \cup OfPurchases \cup OfHops \cup OfHolders \cup PublishPolicy

-----------------------------------------------------------------------------
VARIABLES
    job,      \* by transaction: None before it begins, then what is left to lock
    held,     \* the locks held, with the transaction that holds each
    decided   \* idempotency keys with a committed decision

lockVars == <<job, held, decided>>

Kinds == { "create", "basket", "approve", "issue", "consume", "event", "webhook", "confirm",
           "revoke", "grant", "regrant", "policy" }

Over == [kind |-> "over", rest |-> <<>>, fresh |-> {}]

(* fresh: the keys a running create found undecided.                        *)
Job == [kind : Kinds, rest : Seq(Lock), fresh : SUBSET Keys]

ASSUME JobAssumption == None \notin Job

Running(s) == job[s] \notin {None, Over}

Conflict(m, n) ==
    /\ m.table = n.table /\ m.id = n.id
    /\ "update" \in {m.mode, n.mode} \/ {m.mode, n.mode} = {"no_key_update"}

WaitsFor(s, t) ==
    /\ s # t
    /\ Running(s) /\ job[s].rest # <<>>
    /\ \E l \in held : l.slot = t /\ Conflict(l.lock, Head(job[s].rest))

(* Every member of C waits for another: none of them can ever go on.        *)
Stuck(C) == C # {} /\ \A s \in C : \E t \in C : WaitsFor(s, t)

Circle(C) == Stuck(C) /\ \A D \in SUBSET C : Stuck(D) => D = C

(* Mutant: the session goes back to the pool with its transaction open. *)
LeftOpen(s) == UNCHANGED held

(* Locks that end with the transaction.                                     *)
Released(s) == held' = { l \in held : l.slot # s }

-----------------------------------------------------------------------------
(* The next lock of j is granted to s.  Behind its key's lock a create      *)
(* looks for an earlier decision, and answers with that one if it is there. *)
Grant(s, j) ==
    LET lock   == Head(j.rest)
        looks  == IF lock.table = "key" THEN {lock.id} ELSE {}
        replay == looks \cap decided # {}
    IN
    /\ \A l \in held : l.slot = s \/ ~Conflict(l.lock, lock)
    /\ held' = held \cup {[slot |-> s, lock |-> lock]}
    /\ job' = [job EXCEPT ![s] = [kind  |-> j.kind,
                                 rest  |-> IF replay THEN <<>> ELSE Tail(j.rest),
                                 fresh |-> IF replay THEN j.fresh ELSE j.fresh \cup looks]]
    /\ UNCHANGED decided

(* A transaction counts from its first lock: before that it holds nothing   *)
(* up, and has read nothing it will act on.                                *)
Begin(s) ==
    /\ job[s] = None
    /\ \A t \in Slots : t < s => job[t] # None
    /\ \E w \in Handlers : Grant(s, [kind |-> w.kind, rest |-> w.rest, fresh |-> {}])

Take(s) ==
    /\ Running(s) /\ job[s].rest # <<>>
    /\ Grant(s, job[s])

Commit(s) ==
    /\ Running(s) /\ job[s].rest = <<>>
    /\ decided' = decided \cup job[s].fresh
    /\ job' = [job EXCEPT ![s] = Over]
    /\ Released(s)

(* The database breaks a circle by aborting one of its members.             *)
Victim(s) ==
    /\ \E C \in SUBSET Slots : s \in C /\ Circle(C)
    /\ job' = [job EXCEPT ![s] = Over]
    /\ Released(s)
    /\ UNCHANGED decided

-----------------------------------------------------------------------------
LockTypeOK ==
    /\ job \in [Slots -> Job \cup {None, Over}]
    /\ held \subseteq [slot : Slots, lock : Lock]
    /\ decided \subseteq Keys

LockInit ==
    /\ job = [s \in Slots |-> None]
    /\ held = {}
    /\ decided = {}

LockNext ==
    \E s \in Slots :
        \/ Begin(s)
        \/ Take(s)
        \/ Commit(s)
        \/ Victim(s)

LockSpec == LockInit /\ [][LockNext]_lockVars

(* What has begun goes on: a statement that can run runs, and the deadlock  *)
(* detector finds every circle.                                            *)
LockFairness == WF_lockVars(\E s \in Slots : Take(s) \/ Commit(s) \/ Victim(s))

FairLockSpec == LockSpec /\ LockFairness

-----------------------------------------------------------------------------
(* "Root first, so two callers sharing ancestors cannot deadlock against    *)
(* each other" (chain.py:458), and the checkouts queue for their tenant: a  *)
(* circle of waits never lies within the handlers that spend, settle or     *)
(* end authority, nor within those that lock the tenant first.  It joins   *)
(* the two, or has a grant over an expired hop or a Razorpay webhook in it.*)
Spenders  == { "create", "basket", "approve", "event", "confirm", "revoke", "grant" }
Checkouts == { "issue", "consume", "policy" }

OrderedLocksNeverCircle ==
    \A family \in {Spenders, Checkouts} :
        \A C \in SUBSET { s \in Slots : Running(s) /\ job[s].kind \in family } : ~Stuck(C)

(* A create that found its key undecided is not overtaken: until it ends,   *)
(* nobody else decides that key, so a repeated request is decided once and  *)
(* never fails on the uniqueness of its key.                               *)
LooksStayTrue == \A s \in Slots : Running(s) => job[s].fresh \cap decided = {}

(* Whatever circles form, the transactions that began end.                  *)
EveryTransactionEnds == (\E s \in Slots : Running(s)) ~> (\A s \in Slots : ~Running(s))
=============================================================================
