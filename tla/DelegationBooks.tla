--------------------------- MODULE DelegationBooks --------------------------
(***************************************************************************)
(* What a delegation chain promises, stated over whole branches and over   *)
(* the ledger.  Sums live here, apart from the operational module.         *)
(***************************************************************************)
EXTENDS DelegationChain, FiniteSets, Functions

Children(h) == { c \in Granted : hop[c].parent = h }

Branch(h) == { d \in Granted : h \in Chain(d) }

OutstandingOn(H) == { r \in Refs : Outstanding(r) /\ spend[r].hop \in H }

Total(R) == SumFunction([r \in R |-> spend[r].amount])

-----------------------------------------------------------------------------
(* The two counters of a hop are the books they stand for: what is spent is *)
(* the ledger's unreleased rows, what is allocated is the children's       *)
(* budgets (chain.py spend/release, trigger delegation_attenuates).        *)
CountersAreTheBooks ==
    \A h \in Granted :
        /\ hop[h].spent = Total(OutstandingOn({h}))
        /\ hop[h].allocated = SumFunction([c \in Children(h) |-> hop[c].budget])

(* Budgets partition.  However many hops lie below it, what a whole branch  *)
(* has outstanding never exceeds the budget of the hop it hangs from; a    *)
(* per-edge comparison alone would let two children spend it twice.        *)
BranchWithinBudget ==
    \A h \in Granted : Total(OutstandingOn(Branch(h))) <= hop[h].budget

(* Attenuation reaches the root: a hop is no wider than any of its          *)
(* ancestors, and its chain has exactly depth + 1 hops, so resolve_chain   *)
(* never reports DELEGATION_CHAIN_BROKEN.                                  *)
ChainNarrows ==
    \A h \in Granted :
        /\ Cardinality(Chain(h)) = hop[h].depth + 1
        /\ hop[h].depth <= MaxDepth
        /\ \A a \in Chain(h) :
              /\ hop[h].budget <= hop[a].budget
              /\ hop[h].cap <= hop[a].cap
              /\ hop[h].skus \subseteq hop[a].skus
              /\ hop[h].expires <= hop[a].expires
              /\ hop[h].policy = hop[a].policy
              /\ hop[h].expires <= policies[hop[a].policy].expiry

(* An actor occupies one slot: never two unrevoked hops, so the hop that    *)
(* authorization looks up for an actor is the only one there is.           *)
OneHopPerActor ==
    \A h, g \in Granted :
        /\ ~hop[h].revoked /\ ~hop[g].revoked
        /\ hop[h].holder = hop[g].holder
        => h = g

(* A new ledger row is charged to a hop only while every hop above it is    *)
(* unrevoked and allows the amount and the SKU; expiry is judged by a      *)
(* clock reading at most MaxWait old.                                      *)
ChargeAgreed(r) ==
    \A a \in Chain(spend'[r].hop) :
        /\ ~hop[a].revoked
        /\ now < hop[a].expires + MaxWait
        /\ spend'[r].amount <= hop[a].cap
        /\ spend'[r].sku \in hop[a].skus

NewSpendsAgreed ==
    \A r \in Refs : spend[r] = None /\ spend'[r] # None => ChargeAgreed(r)

SpendNeedsWholeChain == [][NewSpendsAgreed]_chainVars

(* Bounds are fixed at grant, a revoked hop is never revived, and a ledger  *)
(* row is written once and given back at most once.                        *)
RowFixed(h) ==
    /\ hop'[h] # None
    /\ hop[h].revoked => hop'[h].revoked
    /\ hop'[h] = [hop[h] EXCEPT !.revoked = hop'[h].revoked,
                                !.allocated = hop'[h].allocated,
                                !.spent = hop'[h].spent]

LedgerRowFixed(r) ==
    \/ spend'[r] = spend[r]
    \/ Outstanding(r) /\ spend'[r] = [spend[r] EXCEPT !.released = TRUE]

HistoryKept ==
    /\ \A h \in Granted : RowFixed(h)
    /\ \A r \in Refs : spend[r] # None => LedgerRowFixed(r)

HistoryIsFixed == [][HistoryKept]_chainVars
=============================================================================
