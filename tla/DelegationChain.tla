--------------------------- MODULE DelegationChain --------------------------
(***************************************************************************)
(* Multi-hop delegated spending authority.                                 *)
(*                                                                         *)
(* A hop carries a budget, a per-payment cap, a set of SKUs and an expiry. *)
(* A root is cut from the newest policy; a child is cut from a hop and its *)
(* budget is taken out of the parent's in the same statement.  A spend is  *)
(* charged to one hop after every hop up to the root has agreed, is        *)
(* recorded in a ledger under a unique reference, and can be given back    *)
(* once.  Nothing is ever written to a descendant: revoking a hop ends the *)
(* branch because authority is derived from the whole chain at every use.  *)
(***************************************************************************)
EXTENDS Policies

CONSTANTS
    Hops,      \* identities a hop may get (bound: hops ever granted)
    Actors,    \* who may hold a hop
    Skus,      \* what may be bought
    Refs,      \* spend references (bound: spends ever recorded)
    Amounts,   \* the amounts a spend may ask for
    Asks,      \* the bounds a grant may ask for
    MaxDepth,  \* MAX_DEPTH
    None       \* SQL NULL, and the absence of a row

Bounds == [budget : Nat, cap : Nat, skus : SUBSET Skus, expires : Nat]

Hop ==
    [parent : Hops \cup {None}, depth : Nat, policy : Nat, holder : Actors,
     budget : Nat, cap : Nat, skus : SUBSET Skus, expires : Nat,
     allocated : Nat, spent : Nat, revoked : BOOLEAN]

Spend == [hop : Hops, amount : Nat, sku : Skus, released : BOOLEAN]

ASSUME DelegationAssumption ==
    /\ MaxDepth \in Nat
    /\ Amounts \subseteq Nat
    /\ Asks \subseteq Bounds
    /\ None \notin Hops \cup Skus \cup Hop \cup Spend

VARIABLES
    hop,    \* the delegation table: a row, or None, for every identity
    spend   \* the delegation_spend ledger

delegationVars == <<hop, spend>>
chainVars == <<now, policies, hop, spend>>

-----------------------------------------------------------------------------
(* Walking a chain.  The recursive query returns the smallest set of hops   *)
(* that holds the leaf and, with a hop, its parent.                        *)
Granted == { h \in Hops : hop[h] # None }

ClosedUpward(S) == \A x \in S : hop[x].parent = None \/ hop[x].parent \in S

Chain(h) ==
    { a \in Granted :
        \A S \in SUBSET Granted : h \in S /\ ClosedUpward(S) => a \in S }

Live(h, t) == ~hop[h].revoked /\ t < hop[h].expires

ChainLive(h, t) == \A a \in Chain(h) : Live(a, t)

(* active_delegation_for: the unrevoked, unexpired hop of an actor, if any. *)
(* The chain above it is not consulted here.                               *)
HeldBy(a, t) ==
    IF \E h \in Granted : hop[h].holder = a /\ Live(h, t)
    THEN CHOOSE h \in Granted : hop[h].holder = a /\ Live(h, t)
    ELSE None

-----------------------------------------------------------------------------
(* Making room: a live hop of the new holder refuses the grant, one that    *)
(* merely ran out is finalized as revoked in the same transaction.         *)
SlotFree(a, t) ==
    \A h \in Granted : hop[h].holder = a /\ ~hop[h].revoked => hop[h].expires <= t

(* Mutant: the expired hop is left holding its slot. *)
SettledNever(a) == hop

(* Mutant: the expired hop's row is deleted to make room. *)
SettledByDeleting(a) ==
    [h \in Hops |->
        IF hop[h] # None /\ hop[h].holder = a /\ ~hop[h].revoked THEN None ELSE hop[h]]

Settled(a) ==
    [h \in Hops |->
        IF hop[h] # None /\ hop[h].holder = a
        THEN [hop[h] EXCEPT !.revoked = TRUE] ELSE hop[h]]

NewHop(p, d, v, a, ask) ==
    [parent |-> p, depth |-> d, policy |-> v, holder |-> a,
     budget |-> ask.budget, cap |-> ask.cap, skus |-> ask.skus,
     expires |-> ask.expires, allocated |-> 0, spent |-> 0, revoked |-> FALSE]

(* What every grant meets: the positive budget, the CHECK constraints on the *)
(* new row, and a free slot for the new holder.                            *)
Grantable(h, a, ask) ==
    /\ hop[h] = None
    /\ ask.budget > 0
    /\ ask.skus # {}
    /\ \E t \in Recent : t < ask.expires /\ SlotFree(a, t)

GrantRoot(h, a, ask) ==
    /\ Grantable(h, a, ask)
    /\ Newest > 0
    /\ LET p == policies[Newest]
       IN  ask.budget <= p.daily /\ ask.cap <= p.max /\ ask.expires <= p.expiry
    /\ hop' = [Settled(a) EXCEPT ![h] = NewHop(None, 0, Newest, a, ask)]
    /\ UNCHANGED <<now, policies, spend>>

(* The trigger's comparisons of a new row with its parent's, and the room    *)
(* it takes from the parent.  Mutants: the room is not asked for; the      *)
(* expiry is not compared.                                                 *)
AttenuatesPerEdge(ask, p) ==
    /\ ask.budget <= hop[p].budget
    /\ ask.cap <= hop[p].cap
    /\ ask.expires <= hop[p].expires
    /\ ask.skus \subseteq hop[p].skus

AttenuatesButOutlives(ask, p) ==
    /\ ask.budget <= hop[p].budget
    /\ ask.cap <= hop[p].cap
    /\ ask.skus \subseteq hop[p].skus
    /\ hop[p].allocated + hop[p].spent + ask.budget <= hop[p].budget

Attenuates(ask, p) ==
    /\ ask.budget <= hop[p].budget
    /\ ask.cap <= hop[p].cap
    /\ ask.expires <= hop[p].expires
    /\ ask.skus \subseteq hop[p].skus
    /\ hop[p].allocated + hop[p].spent + ask.budget <= hop[p].budget

(* A child.  The trigger reads the parent under its row lock, after the new *)
(* holder's expired hop was finalized, and takes the allocation from it.    *)
Grant(h, p, a, ask) ==
    /\ Grantable(h, a, ask)
    /\ p \in Granted
    /\ hop[p].depth + 1 <= MaxDepth
    /\ ~Settled(a)[p].revoked
    /\ Attenuates(ask, p)
    /\ hop' = [[Settled(a) EXCEPT ![p].allocated = @ + ask.budget] EXCEPT
                 ![h] = NewHop(p, hop[p].depth + 1, hop[p].policy, a, ask)]
    /\ UNCHANGED <<now, policies, spend>>

Revoke(h) ==
    /\ hop[h] # None
    /\ ~hop[h].revoked
    /\ hop' = [hop EXCEPT ![h].revoked = TRUE]
    /\ UNCHANGED <<now, policies, spend>>

-----------------------------------------------------------------------------
(* Spending and releasing, as the two writes a payment's transaction makes. *)
(* t is the clock reading spend() takes before it waits for the chain.     *)
(* Mutant: only the hop that is charged is asked.                          *)
MaySpendByLeaf(h, amount, sku, t) ==
    /\ amount > 0
    /\ Live(h, t) /\ amount <= hop[h].cap /\ sku \in hop[h].skus
    /\ hop[h].allocated + hop[h].spent + amount <= hop[h].budget

MaySpend(h, amount, sku, t) ==
    /\ amount > 0
    /\ \A a \in Chain(h) : hop[a].parent = None => InForce(hop[a].policy, t)
    /\ \A a \in Chain(h) :
          Live(a, t) /\ amount <= hop[a].cap /\ sku \in hop[a].skus
    /\ hop[h].allocated + hop[h].spent + amount <= hop[h].budget

Charge(ref, h, amount, sku) ==
    /\ spend' = [spend EXCEPT ![ref] =
                   [hop |-> h, amount |-> amount, sku |-> sku, released |-> FALSE]]
    /\ hop' = [hop EXCEPT ![h].spent = @ + amount]

Outstanding(ref) == spend[ref] # None /\ ~spend[ref].released

(* release(): a reference with nothing outstanding is refused, and the      *)
(* caller drops that refusal, so it leaves the tables as they are.  The    *)
(* CHECK on the counter refuses a release it could not have been charged.  *)
(* Mutants: the ledger row is closed and the hop is not credited; neither  *)
(* released_at nor the CHECK is asked.                                     *)
GiveBackLedgerOnly(ref) ==
    /\ spend' = IF Outstanding(ref) THEN [spend EXCEPT ![ref].released = TRUE] ELSE spend
    /\ UNCHANGED hop

GiveBackAgain(ref) ==
    IF spend[ref] # None
    THEN /\ spend' = [spend EXCEPT ![ref].released = TRUE]
         /\ hop' = [hop EXCEPT ![spend[ref].hop].spent = @ - spend[ref].amount]
    ELSE UNCHANGED <<hop, spend>>

GiveBack(ref) ==
    IF Outstanding(ref)
    THEN /\ spend[ref].amount <= hop[spend[ref].hop].spent
         /\ spend' = [spend EXCEPT ![ref].released = TRUE]
         /\ hop' = [hop EXCEPT ![spend[ref].hop].spent = @ - spend[ref].amount]
    ELSE UNCHANGED <<hop, spend>>

(* A spend of a new reference.  A reference already in the ledger is a      *)
(* retry, or is refused; either way nothing is written.                    *)
SpendOnce(ref, h, amount, sku) ==
    /\ h \in Granted
    /\ spend[ref] = None
    /\ \E t \in Recent : MaySpend(h, amount, sku, t)
    /\ Charge(ref, h, amount, sku)
    /\ UNCHANGED policyVars

Release(ref) == GiveBack(ref) /\ UNCHANGED policyVars

-----------------------------------------------------------------------------
DelegationTypeOK ==
    /\ PoliciesTypeOK
    /\ hop \in [Hops -> Hop \cup {None}]
    /\ spend \in [Refs -> Spend \cup {None}]

DelegationInit ==
    /\ PoliciesInit
    /\ hop = [h \in Hops |-> None]
    /\ spend = [r \in Refs |-> None]

(* What an operator, the clock and an approver do, whatever payments do. *)
Govern ==
    \/ Tick /\ UNCHANGED delegationVars
    \/ \E p \in Drafts : CreatePolicy(p) /\ UNCHANGED delegationVars
    \/ \E h \in Hops, a \in Actors, ask \in Asks : GrantRoot(h, a, ask)
    \/ \E h, p \in Hops, a \in Actors, ask \in Asks : Grant(h, p, a, ask)
    \/ \E h \in Hops : Revoke(h)

DelegationNext ==
    \/ Govern
    \/ \E ref \in Refs, h \in Hops, n \in Amounts, s \in Skus : SpendOnce(ref, h, n, s)
    \/ \E ref \in Refs : Release(ref)

DelegationSpec == DelegationInit /\ [][DelegationNext]_chainVars
=============================================================================
