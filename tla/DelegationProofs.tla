-------------------------- MODULE DelegationProofs --------------------------
(***************************************************************************)
(* What a delegation chain promises for every number of hops, every depth  *)
(* and every amount.  Chain is the least parent-closed set above a hop, so *)
(* a fact that holds across one edge reaches every ancestor by exhibiting  *)
(* a closed set: no induction over the depth is needed.                    *)
(***************************************************************************)
EXTENDS DelegationBooks, SumProofs

-----------------------------------------------------------------------------
(* The inductive invariant. *)

(* One edge of the forest: what the trigger left true of a child.          *)
NarrowerThan(h, p) ==
    /\ hop[h].budget <= hop[p].budget
    /\ hop[h].cap <= hop[p].cap
    /\ hop[h].skus \subseteq hop[p].skus
    /\ hop[h].expires <= hop[p].expires
    /\ hop[h].policy = hop[p].policy

EdgeOK(h) ==
    /\ hop[h].depth <= MaxDepth
    /\ hop[h].policy \in DOMAIN policies
    /\ hop[h].expires <= policies[hop[h].policy].expiry
    /\ hop[h].parent = None => hop[h].depth = 0
    /\ hop[h].parent # None =>
          /\ hop[h].parent \in Granted
          /\ hop[h].depth = hop[hop[h].parent].depth + 1
          /\ NarrowerThan(h, hop[h].parent)

Edges == \A h \in Granted : EdgeOK(h)

ParentsGranted == \A h \in Granted : hop[h].parent \in Granted \cup {None}

ChainsCounted ==
    \A h \in Granted :
        IsFiniteSet(Chain(h)) /\ Cardinality(Chain(h)) = hop[h].depth + 1

ChargedHopsGranted == \A r \in Refs : spend[r] # None => spend[r].hop \in Granted

ChainInv ==
    /\ DelegationTypeOK
    /\ Edges
    /\ ChainsCounted
    /\ ChargedHopsGranted
    /\ OneHopPerActor

-----------------------------------------------------------------------------
(* Chains. *)

LEMMA ChainGranted ==
    ASSUME NEW h \in Granted
    PROVE  h \in Chain(h) /\ Chain(h) \subseteq Granted
BY DEF Chain

LEMMA ChainLeast ==
    ASSUME NEW h, NEW S \in SUBSET Granted, h \in S, ClosedUpward(S)
    PROVE  Chain(h) \subseteq S
BY DEF Chain

LEMMA ChainClosed ==
    ASSUME NEW h \in Granted, ParentsGranted
    PROVE  ClosedUpward(Chain(h))
<1> SUFFICES ASSUME NEW x \in Chain(h), hop[x].parent # None
             PROVE  hop[x].parent \in Chain(h)
    BY DEF ClosedUpward
<1>1. hop[x].parent \in Granted
    BY ChainGranted DEF ParentsGranted
<1>2. ASSUME NEW S \in SUBSET Granted, h \in S, ClosedUpward(S)
      PROVE  hop[x].parent \in S
    <2>1. x \in S
        BY <1>2, ChainLeast
    <2> QED  BY <1>2, <2>1 DEF ClosedUpward
<1> QED  BY <1>1, <1>2 DEF Chain

(* A step that keeps every granted hop and its parent keeps every chain.    *)
LEMMA ChainKept ==
    ASSUME ParentsGranted,
           \A g \in Granted : hop'[g] # None /\ hop'[g].parent = hop[g].parent,
           NEW h \in Granted
    PROVE  Chain(h)' = Chain(h)
<1>1. Granted \subseteq Granted'
    BY DEF Granted
<1>2. Chain(h)' \subseteq Chain(h)
    <2>1. Chain(h) \subseteq Granted /\ h \in Chain(h) /\ ClosedUpward(Chain(h))
        BY ChainGranted, ChainClosed
    <2>2. \A x \in Chain(h) : hop'[x].parent = None \/ hop'[x].parent \in Chain(h)
        BY <2>1 DEF ClosedUpward
    <2>3. Chain(h) \in SUBSET Granted'
        BY <1>1, <2>1
    <2> DEFINE C == Chain(h)
    <2> HIDE DEF C
    <2>4. C \in SUBSET Granted' /\ h \in C
          /\ \A x \in C : hop'[x].parent = None \/ hop'[x].parent \in C
        BY <2>1, <2>2, <2>3 DEF C
    <2>5. Chain(h)' \subseteq C
        BY <2>4 DEF Chain, ClosedUpward
    <2> QED  BY <2>5 DEF C
<1>3. Chain(h) \subseteq Chain(h)'
    <2> SUFFICES ASSUME NEW a \in Chain(h),
                        NEW S \in SUBSET Granted', h \in S, ClosedUpward(S)'
                 PROVE  a \in S
        BY <1>1, ChainGranted DEF Chain
    <2>1. h \in S \cap Granted /\ S \cap Granted \in SUBSET Granted
        OBVIOUS
    <2>2. ClosedUpward(S \cap Granted)
        BY DEF ClosedUpward, ParentsGranted
    <2>3. Chain(h) \subseteq S \cap Granted
        BY <2>1, <2>2, ChainLeast
    <2> QED  BY <2>3
<1> QED  BY <1>2, <1>3

(* A new hop's chain is itself on top of its parent's. *)
LEMMA ChainOfChild ==
    ASSUME ParentsGranted,
           \A g \in Granted : hop'[g] # None /\ hop'[g].parent = hop[g].parent,
           NEW h \in Hops, h \notin Granted, hop'[h] # None,
           NEW p \in Granted, hop'[h].parent = p
    PROVE  Chain(h)' = {h} \cup Chain(p)
<1> DEFINE C == {h} \cup Chain(p)
<1>1. Granted \subseteq Granted' /\ h \in Granted'
    BY DEF Granted
<1>2. Chain(p) \subseteq Granted /\ p \in Chain(p) /\ ClosedUpward(Chain(p))
    BY ChainGranted, ChainClosed
<1>3. Chain(h)' \subseteq C
    <2>1. \A x \in C : hop'[x].parent = None \/ hop'[x].parent \in C
        BY <1>2 DEF ClosedUpward
    <2>2. C \in SUBSET Granted' /\ h \in C
        BY <1>1, <1>2
    <2> HIDE DEF C
    <2> QED  BY <2>1, <2>2 DEF Chain, ClosedUpward
<1>4. C \subseteq Chain(h)'
    <2> SUFFICES ASSUME NEW a \in C,
                        NEW S \in SUBSET Granted', h \in S, ClosedUpward(S)'
                 PROVE  a \in S
        BY <1>1, <1>2 DEF Chain
    <2>1. p \in S
        <3>1. p # None
            BY DelegationAssumption DEF Granted
        <3> QED  BY <3>1 DEF ClosedUpward
    <2>2. p \in S \cap Granted /\ S \cap Granted \in SUBSET Granted
        BY <2>1
    <2>3. ClosedUpward(S \cap Granted)
        BY DEF ClosedUpward, ParentsGranted
    <2>4. Chain(p) \subseteq S \cap Granted
        BY <2>2, <2>3, ChainLeast
    <2> QED  BY <2>4
<1> QED  BY <1>3, <1>4

LEMMA ChainOfRoot ==
    ASSUME NEW h \in Hops, hop'[h] # None, hop'[h].parent = None
    PROVE  Chain(h)' = {h}
<1>1. h \in Granted'
    BY DEF Granted
<1>2. ClosedUpward({h})' /\ {h} \in SUBSET Granted'
    BY <1>1 DEF ClosedUpward
<1>3. Chain(h)' \subseteq {h}
    BY <1>2 DEF Chain
<1>4. h \in Chain(h)'
    BY <1>1 DEF Chain
<1> QED  BY <1>3, <1>4

(* Depth falls along a chain, so a hop is not above its parent. *)
LEMMA ChainBelow ==
    ASSUME DelegationTypeOK, Edges, NEW p \in Granted
    PROVE  \A a \in Chain(p) : hop[a].depth <= hop[p].depth
<1> DEFINE S == { a \in Granted : hop[a].depth <= hop[p].depth }
<1>0. \A g \in Granted : hop[g] \in Hop
    BY DEF DelegationTypeOK, Granted
<1>1. p \in S
    BY <1>0 DEF Hop
<1>2. ClosedUpward(S)
    <2> SUFFICES ASSUME NEW x \in S, hop[x].parent # None
                 PROVE  hop[x].parent \in S
        BY DEF ClosedUpward
    <2>1. hop[x].parent \in Granted /\ hop[x].depth = hop[hop[x].parent].depth + 1
        BY DEF Edges, EdgeOK
    <2>2. hop[x].depth \in Nat /\ hop[hop[x].parent].depth \in Nat /\ hop[p].depth \in Nat
        BY <1>0, <2>1 DEF Hop
    <2> QED  BY <2>1, <2>2
<1>3. Chain(p) \subseteq S
    BY <1>1, <1>2, ChainLeast
<1> QED  BY <1>3

(* Attenuation is transitive: one closed set per hop carries every edge's   *)
(* comparison to the root.                                                 *)
LEMMA ChainNarrower ==
    ASSUME DelegationTypeOK, Edges, NEW h \in Granted
    PROVE  \A a \in Chain(h) : NarrowerThan(h, a)
<1> DEFINE S == { a \in Granted : NarrowerThan(h, a) }
<1>0. \A g \in Granted : hop[g] \in Hop
    BY DEF DelegationTypeOK, Granted
<1>1. h \in S
    BY <1>0 DEF Hop, NarrowerThan
<1>2. ClosedUpward(S)
    <2> SUFFICES ASSUME NEW x \in S, hop[x].parent # None
                 PROVE  hop[x].parent \in S
        BY DEF ClosedUpward
    <2>1. hop[x].parent \in Granted /\ NarrowerThan(x, hop[x].parent)
        BY DEF Edges, EdgeOK
    <2>2. NarrowerThan(h, x)
        OBVIOUS
    <2>3. hop[h] \in Hop /\ hop[x] \in Hop /\ hop[hop[x].parent] \in Hop
        BY <1>0, <2>1
    <2> QED  BY <2>1, <2>2, <2>3 DEF NarrowerThan, Hop
<1>3. Chain(h) \subseteq S
    BY <1>1, <1>2, ChainLeast
<1> QED  BY <1>3

LEMMA ChainInvNarrows == ChainInv => ChainNarrows
<1> SUFFICES ASSUME ChainInv, NEW h \in Granted
             PROVE  /\ Cardinality(Chain(h)) = hop[h].depth + 1
                    /\ hop[h].depth <= MaxDepth
                    /\ \A a \in Chain(h) :
                          NarrowerThan(h, a) /\ hop[h].expires <= policies[hop[a].policy].expiry
    BY DEF ChainNarrows, NarrowerThan
<1>1. Cardinality(Chain(h)) = hop[h].depth + 1 /\ hop[h].depth <= MaxDepth
    BY DEF ChainInv, ChainsCounted, Edges, EdgeOK
<1>2. \A a \in Chain(h) : NarrowerThan(h, a)
    BY ChainNarrower DEF ChainInv
<1>3. hop[h].expires <= policies[hop[h].policy].expiry
    BY DEF ChainInv, Edges, EdgeOK
<1> QED  BY <1>1, <1>2, <1>3 DEF NarrowerThan

-----------------------------------------------------------------------------
(* Steps. *)

SameTerms(x, y) ==
    /\ x.parent = y.parent
    /\ x.depth = y.depth
    /\ x.policy = y.policy
    /\ x.holder = y.holder
    /\ x.budget = y.budget
    /\ x.cap = y.cap
    /\ x.skus = y.skus
    /\ x.expires = y.expires

SameBounds(g) == hop'[g] # None /\ SameTerms(hop'[g], hop[g])

HopsKept == \A g \in Granted : SameBounds(g) /\ (hop[g].revoked => hop'[g].revoked)

PoliciesKept == \A v \in DOMAIN policies : v \in DOMAIN policies' /\ policies'[v] = policies[v]

LEMMA EdgeKept ==
    ASSUME Edges, PoliciesKept, \A g \in Granted : SameBounds(g), NEW g \in Granted
    PROVE  EdgeOK(g)' /\ g \in Granted'
<1>1. Granted \subseteq Granted'
    BY DEF Granted, SameBounds, SameTerms
<1>2. EdgeOK(g) /\ SameBounds(g)
    BY DEF Edges
<1>3. hop[g].parent # None => SameBounds(hop[g].parent)
    BY <1>2 DEF EdgeOK
<1> QED  BY <1>1, <1>2, <1>3 DEF EdgeOK, PoliciesKept, SameBounds, SameTerms, NarrowerThan

LEMMA EdgesGiveParents == Edges => ParentsGranted
BY DEF Edges, EdgeOK, ParentsGranted

(* Steps that grant nothing keep the forest. *)
LEMMA ForestKept ==
    ASSUME Edges, ChainsCounted, PoliciesKept, Granted' = Granted,
           \A g \in Granted : SameBounds(g)
    PROVE  Edges' /\ ChainsCounted'
<1>1. Edges'
    BY EdgeKept DEF Edges
<1>2. \A g \in Granted : Chain(g)' = Chain(g)
    BY ChainKept, EdgesGiveParents DEF SameBounds, SameTerms
<1>3. \A g \in Granted : hop'[g].depth = hop[g].depth
    BY DEF SameBounds, SameTerms
<1> QED  BY <1>1, <1>2, <1>3 DEF ChainsCounted

LEMMA ChargeKeeps ==
    ASSUME ChainInv, PoliciesTypeOK', PoliciesKept,
           NEW ref \in Refs, NEW h \in Granted, NEW amount \in Nat, NEW sku \in Skus,
           Charge(ref, h, amount, sku)
    PROVE  ChainInv' /\ HopsKept
<1>1. /\ hop[h] \in Hop /\ h \in Hops
      /\ hop' = [hop EXCEPT ![h] = [hop[h] EXCEPT !.spent = @ + amount]]
      /\ spend' = [spend EXCEPT ![ref] =
           [hop |-> h, amount |-> amount, sku |-> sku, released |-> FALSE]]
    BY DEF ChainInv, DelegationTypeOK, Granted, Charge
<1>2. [hop[h] EXCEPT !.spent = @ + amount] \in Hop
    BY <1>1 DEF Hop
<1>3. DelegationTypeOK'
    <2>1. [hop |-> h, amount |-> amount, sku |-> sku, released |-> FALSE] \in Spend
        BY <1>1 DEF Spend
    <2> QED  BY <1>1, <1>2, <2>1 DEF ChainInv, DelegationTypeOK
<1>4. Granted' = Granted
    BY <1>1, <1>2, DelegationAssumption DEF Granted, ChainInv, DelegationTypeOK
<1>5. \A g \in Granted : SameBounds(g) /\ hop'[g].revoked = hop[g].revoked
    BY <1>1, <1>2, DelegationAssumption DEF Granted, ChainInv, DelegationTypeOK, SameBounds, SameTerms, Hop
<1>6. Edges' /\ ChainsCounted'
    BY <1>4, <1>5, ForestKept DEF ChainInv
<1>7. ChargedHopsGranted'
    BY <1>1, <1>4 DEF ChargedHopsGranted, ChainInv, DelegationTypeOK
<1>8. OneHopPerActor'
    BY <1>4, <1>5 DEF ChainInv, OneHopPerActor, SameBounds, SameTerms
<1> QED  BY <1>3, <1>5, <1>6, <1>7, <1>8 DEF ChainInv, HopsKept

LEMMA GiveBackKeeps ==
    ASSUME ChainInv, PoliciesTypeOK', PoliciesKept, NEW ref \in Refs, GiveBack(ref)
    PROVE  ChainInv' /\ HopsKept
<1>1. CASE ~Outstanding(ref)
    <2>1. hop' = hop /\ spend' = spend
        BY <1>1 DEF GiveBack
    <2>2. Granted' = Granted /\ \A g \in Granted : SameBounds(g)
        BY <2>1 DEF Granted, SameBounds, SameTerms
    <2>3. Edges' /\ ChainsCounted'
        BY <2>2, ForestKept DEF ChainInv
    <2> QED  BY <2>1, <2>2, <2>3
             DEF ChainInv, DelegationTypeOK, ChargedHopsGranted, OneHopPerActor, HopsKept
<1>2. CASE Outstanding(ref)
    <2> DEFINE h == spend[ref].hop
               n == spend[ref].amount
    <2>1. /\ spend[ref] \in Spend /\ h \in Granted /\ h \in Hops /\ n \in Nat
          /\ hop[h] \in Hop /\ n <= hop[h].spent
          /\ hop' = [hop EXCEPT ![h] = [hop[h] EXCEPT !.spent = @ - n]]
          /\ spend' = [spend EXCEPT ![ref] = [spend[ref] EXCEPT !.released = TRUE]]
        BY <1>2 DEF ChainInv, DelegationTypeOK, ChargedHopsGranted, Granted, GiveBack,
                    Outstanding, Spend
    <2> HIDE DEF h, n
    <2>2. [hop[h] EXCEPT !.spent = @ - n] \in Hop
        BY <2>1 DEF Hop
    <2>3. [spend[ref] EXCEPT !.released = TRUE] \in Spend
        BY <2>1 DEF Spend
    <2>4. DelegationTypeOK'
        BY <2>1, <2>2, <2>3 DEF ChainInv, DelegationTypeOK
    <2>5. Granted' = Granted
        BY <2>1, <2>2, DelegationAssumption DEF Granted, ChainInv, DelegationTypeOK
    <2>6. \A g \in Granted : SameBounds(g) /\ hop'[g].revoked = hop[g].revoked
        BY <2>1, <2>2, DelegationAssumption
        DEF Granted, ChainInv, DelegationTypeOK, SameBounds, SameTerms, Hop
    <2>7. Edges' /\ ChainsCounted'
        BY <2>5, <2>6, ForestKept DEF ChainInv
    <2>8. ChargedHopsGranted'
        BY <1>2, <2>1, <2>5 DEF ChargedHopsGranted, ChainInv, DelegationTypeOK, Outstanding, Spend
    <2>9. OneHopPerActor'
        BY <2>5, <2>6 DEF ChainInv, OneHopPerActor, SameBounds, SameTerms
    <2> QED  BY <2>4, <2>6, <2>7, <2>8, <2>9 DEF ChainInv, HopsKept
<1> QED  BY <1>1, <1>2

LEMMA RevokeKeeps ==
    ASSUME ChainInv, NEW h \in Hops, Revoke(h)
    PROVE  ChainInv' /\ HopsKept
<1>1. /\ hop[h] \in Hop /\ h \in Granted
      /\ hop' = [hop EXCEPT ![h] = [hop[h] EXCEPT !.revoked = TRUE]]
      /\ policies' = policies /\ now' = now /\ spend' = spend
    BY DEF ChainInv, DelegationTypeOK, Granted, Revoke
<1>2. [hop[h] EXCEPT !.revoked = TRUE] \in Hop
    BY <1>1 DEF Hop
<1>3. DelegationTypeOK'
    BY <1>1, <1>2 DEF ChainInv, DelegationTypeOK, PoliciesTypeOK
<1>4. Granted' = Granted
    BY <1>1, <1>2, DelegationAssumption DEF Granted, ChainInv, DelegationTypeOK
<1>5. \A g \in Granted : SameBounds(g) /\ (hop[g].revoked => hop'[g].revoked)
    BY <1>1, <1>2, DelegationAssumption DEF Granted, ChainInv, DelegationTypeOK, SameBounds, SameTerms, Hop
<1>6. Edges' /\ ChainsCounted'
    BY <1>1, <1>4, <1>5, ForestKept DEF ChainInv, PoliciesKept
<1>7. ChargedHopsGranted'
    BY <1>1, <1>4 DEF ChargedHopsGranted, ChainInv
<1>8. OneHopPerActor'
    BY <1>4, <1>5 DEF ChainInv, OneHopPerActor, SameBounds, SameTerms
<1> QED  BY <1>3, <1>5, <1>6, <1>7, <1>8 DEF ChainInv, HopsKept

(* Making room changes nothing but the revoked flags of one actor's hops.   *)
LEMMA SettledRows ==
    ASSUME DelegationTypeOK, NEW a \in Actors, NEW g \in Granted
    PROVE  /\ Settled(a)[g] \in Hop
           /\ SameTerms(Settled(a)[g], hop[g])
           /\ hop[g].revoked => Settled(a)[g].revoked
           /\ hop[g].holder = a => Settled(a)[g].revoked
<1>1. hop[g] \in Hop /\ g \in Hops /\ hop[g] # None
    BY DEF DelegationTypeOK, Granted
<1>2. [hop[g] EXCEPT !.revoked = TRUE] \in Hop
    BY <1>1 DEF Hop
<1>3. Settled(a)[g] = IF hop[g].holder = a THEN [hop[g] EXCEPT !.revoked = TRUE] ELSE hop[g]
    BY <1>1 DEF Settled
<1> QED  BY <1>1, <1>2, <1>3 DEF Hop, SameTerms

(* What every grant has in common: one new row, held by an actor whose other *)
(* hops are all revoked now, on top of rows that keep their bounds.        *)
LEMMA NewRowKeeps ==
    ASSUME ChainInv, UNCHANGED <<now, policies, spend>>,
           NEW h \in Hops, h \notin Granted, hop'[h] \in Hop, ~hop'[h].revoked,
           hop' \in [Hops -> Hop \cup {None}],
           \A g \in Hops : g # h => (hop'[g] = None <=> hop[g] = None),
           \A g \in Granted : SameBounds(g),
           \A g \in Granted : hop[g].revoked => hop'[g].revoked,
           \A g \in Granted : hop[g].holder = hop'[h].holder => hop'[g].revoked,
           EdgeOK(h)',
           \/ hop'[h].parent = None
           \/ hop'[h].parent \in Granted
    PROVE  ChainInv'
<1>1. Granted' = Granted \cup {h}
    BY DelegationAssumption DEF Granted
<1>2. DelegationTypeOK'
    BY DEF ChainInv, DelegationTypeOK, PoliciesTypeOK
<1>3. Edges'
    BY <1>1, EdgeKept DEF ChainInv, PoliciesKept, Edges
<1>4. ParentsGranted /\ \A g \in Granted : hop'[g] # None /\ hop'[g].parent = hop[g].parent
    BY EdgesGiveParents DEF ChainInv, SameBounds, SameTerms
<1>5. ASSUME NEW g \in Granted
      PROVE  IsFiniteSet(Chain(g)') /\ Cardinality(Chain(g)') = hop'[g].depth + 1
    <2>1. Chain(g)' = Chain(g)
        BY <1>4, ChainKept
    <2> QED  BY <2>1 DEF ChainInv, ChainsCounted, SameBounds, SameTerms
<1>6. IsFiniteSet(Chain(h)') /\ Cardinality(Chain(h)') = hop'[h].depth + 1
    <2>0. hop'[h] # None
        BY DelegationAssumption
    <2>1. CASE hop'[h].parent = None
        <3>1. Chain(h)' = {h} /\ hop'[h].depth = 0
            BY <2>0, <2>1, ChainOfRoot DEF EdgeOK
        <3>2. IsFiniteSet({h}) /\ Cardinality({h}) = 1
            BY FS_Singleton
        <3> QED  BY <3>1, <3>2
    <2>2. CASE hop'[h].parent \in Granted
        <3> DEFINE p == hop'[h].parent
        <3>1. Chain(h)' = {h} \cup Chain(p)
            BY <2>0, <2>2, <1>4, ChainOfChild
        <3>2. IsFiniteSet(Chain(p)) /\ Cardinality(Chain(p)) = hop[p].depth + 1
            BY <2>2 DEF ChainInv, ChainsCounted
        <3>3. h \notin Chain(p)
            BY <2>2, ChainGranted
        <3>4. Cardinality({h} \cup Chain(p)) = Cardinality(Chain(p)) + 1
              /\ IsFiniteSet({h} \cup Chain(p))
            <4>1. {h} \cup Chain(p) = Chain(p) \cup {h}
                OBVIOUS
            <4> QED  BY <3>2, <3>3, <4>1, FS_AddElement
        <3>5. hop'[h].depth = hop[p].depth + 1
            <4>1. p # None
                BY <2>2, DelegationAssumption DEF Granted
            <4>2. hop'[h].depth = hop'[p].depth + 1
                BY <4>1 DEF EdgeOK
            <4> QED  BY <2>2, <4>2 DEF SameBounds, SameTerms
        <3> QED  BY <3>1, <3>2, <3>4, <3>5
    <2> QED  BY <2>1, <2>2
<1>7. ChainsCounted'
    BY <1>1, <1>5, <1>6 DEF ChainsCounted
<1>8. ChargedHopsGranted'
    BY <1>1 DEF ChainInv, ChargedHopsGranted
<1>9. OneHopPerActor'
    <2> SUFFICES ASSUME NEW g \in Granted', NEW k \in Granted',
                        ~hop'[g].revoked, ~hop'[k].revoked, hop'[g].holder = hop'[k].holder
                 PROVE  g = k
        BY DEF OneHopPerActor
    <2>1. \A x \in Granted : hop'[x].holder = hop[x].holder
        BY DEF SameBounds, SameTerms
    <2>2. CASE g \in Granted /\ k \in Granted
        BY <2>1, <2>2 DEF ChainInv, OneHopPerActor
    <2>3. CASE g = h \/ k = h
        BY <1>1, <2>1, <2>3
    <2> QED  BY <1>1, <2>2, <2>3
<1> QED  BY <1>2, <1>3, <1>7, <1>8, <1>9 DEF ChainInv

LEMMA NewHopTyped ==
    ASSUME NEW a \in Actors, NEW ask \in Bounds, NEW p \in Hops \cup {None},
           NEW d \in Nat, NEW v \in Nat
    PROVE  NewHop(p, d, v, a, ask) \in Hop
<1>1. /\ ask.budget \in Nat /\ ask.cap \in Nat /\ ask.expires \in Nat
      /\ ask.skus \in SUBSET Skus
    BY DEF Bounds
<1> QED  BY <1>1 DEF NewHop, Hop

LEMMA GrantRootKeeps ==
    ASSUME ChainInv, NEW h \in Hops, NEW a \in Actors, NEW ask \in Asks, GrantRoot(h, a, ask)
    PROVE  ChainInv' /\ HopsKept
<1> DEFINE row == NewHop(None, 0, Newest, a, ask)
<1>1. /\ hop' = [Settled(a) EXCEPT ![h] = row]
      /\ UNCHANGED <<now, policies, spend>>
      /\ h \notin Granted
    BY DEF GrantRoot, Grantable, Granted
<1>2. policies \in Seq(Policy) /\ Newest \in DOMAIN policies /\ ask \in Bounds
      /\ Newest \in Nat /\ ask.expires <= policies[Newest].expiry
    BY DelegationAssumption DEF ChainInv, DelegationTypeOK, PoliciesTypeOK, GrantRoot, Newest
<1>3. row \in Hop /\ row # None
    BY <1>2, NewHopTyped, DelegationAssumption
<1>4. Settled(a) \in [Hops -> Hop \cup {None}]
      /\ \A g \in Hops : Settled(a)[g] = None <=> hop[g] = None
    <2>1. \A g \in Hops : hop[g] # None => Settled(a)[g] \in Hop
        BY SettledRows DEF ChainInv, Granted
    <2>2. \A g \in Hops : hop[g] = None => Settled(a)[g] = None
        BY DEF Settled
    <2>3. Settled(a) = [g \in Hops |-> Settled(a)[g]]
        BY DEF Settled
    <2> QED  BY <2>1, <2>2, <2>3, DelegationAssumption
<1>5. hop' \in [Hops -> Hop \cup {None}] /\ hop'[h] = row
      /\ \A g \in Hops : g # h => hop'[g] = Settled(a)[g]
    BY <1>1, <1>3, <1>4
<1>6. \A g \in Granted : hop'[g] = Settled(a)[g] /\ g # h
    BY <1>1, <1>5 DEF Granted
<1>7. \A g \in Granted :
          /\ SameBounds(g)
          /\ hop[g].revoked => hop'[g].revoked
          /\ hop[g].holder = a => hop'[g].revoked
    BY <1>6, SettledRows, DelegationAssumption DEF ChainInv, SameBounds
<1>8. EdgeOK(h)'
    BY <1>1, <1>2, <1>5, DelegationAssumption DEF EdgeOK, NewHop
<1>9. hop'[h] \in Hop /\ ~hop'[h].revoked /\ hop'[h].holder = a /\ hop'[h].parent = None
    BY <1>3, <1>5 DEF NewHop
<1> HIDE DEF row
<1> QED  BY <1>1, <1>4, <1>5, <1>7, <1>8, <1>9, NewRowKeeps DEF HopsKept

LEMMA GrantKeeps ==
    ASSUME ChainInv, NEW h \in Hops, NEW p \in Hops, NEW a \in Actors, NEW ask \in Asks,
           Grant(h, p, a, ask)
    PROVE  ChainInv' /\ HopsKept
<1> DEFINE row == NewHop(p, hop[p].depth + 1, hop[p].policy, a, ask)
           top == [Settled(a)[p] EXCEPT !.allocated = @ + ask.budget]
<1>0. hop' = [[Settled(a) EXCEPT ![p] = top] EXCEPT ![h] = row]
    BY DEF Grant
<1>1. /\ UNCHANGED <<now, policies, spend>>
      /\ h \notin Granted /\ p \in Granted /\ h # p
    BY DEF Grant, Grantable, Granted
<1>2. hop[p] \in Hop /\ ask \in Bounds
    BY <1>1, DelegationAssumption DEF ChainInv, DelegationTypeOK, Granted
<1>3. row \in Hop /\ row # None
    <2>1. hop[p].depth + 1 \in Nat /\ hop[p].policy \in Nat
        BY <1>2 DEF Hop
    <2> QED  BY <1>2, <2>1, NewHopTyped, DelegationAssumption
<1>4. Settled(a) \in [Hops -> Hop \cup {None}]
      /\ \A g \in Hops : Settled(a)[g] = None <=> hop[g] = None
    <2>1. \A g \in Hops : hop[g] # None => Settled(a)[g] \in Hop
        BY SettledRows DEF ChainInv, Granted
    <2>2. \A g \in Hops : hop[g] = None => Settled(a)[g] = None
        BY DEF Settled
    <2>3. Settled(a) = [g \in Hops |-> Settled(a)[g]]
        BY DEF Settled
    <2> QED  BY <2>1, <2>2, <2>3, DelegationAssumption
<1>5. top \in Hop /\ top # None
      /\ SameTerms(top, Settled(a)[p]) /\ top.revoked = Settled(a)[p].revoked
    <2>1. Settled(a)[p] \in Hop
        BY <1>1, SettledRows DEF ChainInv
    <2> QED  BY <1>2, <2>1, DelegationAssumption DEF Hop, Bounds, SameTerms
<1>6. hop' \in [Hops -> Hop \cup {None}] /\ hop'[h] = row /\ hop'[p] = top
      /\ \A g \in Hops : g # h /\ g # p => hop'[g] = Settled(a)[g]
    <2> HIDE DEF row, top
    <2> QED  BY <1>0, <1>1, <1>3, <1>4, <1>5
<1>7. \A g \in Granted :
          /\ SameBounds(g)
          /\ hop[g].revoked => hop'[g].revoked
          /\ hop[g].holder = a => hop'[g].revoked
    <2> TAKE g \in Granted
    <2>1. /\ Settled(a)[g] \in Hop
          /\ hop[g] \in Hop
          /\ SameTerms(Settled(a)[g], hop[g])
          /\ hop[g].revoked => Settled(a)[g].revoked
          /\ hop[g].holder = a => Settled(a)[g].revoked
        BY SettledRows DEF ChainInv, DelegationTypeOK, Granted
    <2>2. hop'[g] = Settled(a)[g] \/ g = p
        BY <1>1, <1>6 DEF Granted
    <2> HIDE DEF top
    <2>3. CASE hop'[g] = Settled(a)[g]
        BY <2>1, <2>3, DelegationAssumption DEF SameBounds
    <2>4. CASE g = p
        <3>1. SameTerms(top, hop[g])
            BY <1>5, <2>1, <2>4 DEF SameTerms
        <3> QED  BY <1>5, <1>6, <2>1, <2>4, <3>1 DEF SameBounds
    <2> QED  BY <2>2, <2>3, <2>4
<1>8. EdgeOK(h)'
    <2> HIDE DEF row, top
    <2>1. EdgeOK(p) /\ SameBounds(p)
        <3>1. EdgeOK(p)
            BY <1>1 DEF ChainInv, Edges
        <3> QED  BY <1>1, <1>7, <3>1
    <2>2. /\ ask.budget <= hop[p].budget /\ ask.cap <= hop[p].cap
          /\ ask.expires <= hop[p].expires /\ ask.skus \subseteq hop[p].skus
          /\ hop[p].depth + 1 <= MaxDepth
        BY DEF Grant, Attenuates
    <2>3. p # None /\ p \in Granted'
        BY <1>1, <2>1, DelegationAssumption DEF Granted, SameBounds, SameTerms
    <2>4. /\ hop'[h].parent = p /\ hop'[h].depth = hop[p].depth + 1
          /\ hop'[h].policy = hop[p].policy /\ hop'[h].budget = ask.budget
          /\ hop'[h].cap = ask.cap /\ hop'[h].skus = ask.skus /\ hop'[h].expires = ask.expires
        BY <1>6 DEF NewHop, row
    <2>5. NarrowerThan(h, p)'
        BY <2>1, <2>2, <2>4 DEF NarrowerThan, SameBounds, SameTerms
    <2>6. hop'[h].expires <= policies'[hop'[h].policy].expiry
          /\ hop'[h].policy \in DOMAIN policies'
        <3>1. hop[p].policy \in DOMAIN policies /\ policies \in Seq(Policy)
              /\ hop[p].expires <= policies[hop[p].policy].expiry
            BY <2>1 DEF EdgeOK, ChainInv, DelegationTypeOK, PoliciesTypeOK
        <3>2. hop[p].expires \in Nat /\ ask.expires \in Nat
            BY <1>2 DEF Hop, Bounds
        <3>3. policies[hop[p].policy] \in Policy
            BY <3>1
        <3>4. policies[hop[p].policy].expiry \in Nat
            BY <3>3 DEF Policy
        <3> QED  BY <1>1, <2>2, <2>4, <3>1, <3>2, <3>4
    <2> QED  BY <2>1, <2>2, <2>3, <2>4, <2>5, <2>6 DEF EdgeOK, SameBounds, SameTerms
<1>9. hop'[h] \in Hop /\ ~hop'[h].revoked /\ hop'[h].holder = a /\ hop'[h].parent = p
    BY <1>3, <1>6 DEF NewHop
<1>10. \A g \in Hops : g # h => (hop'[g] = None <=> hop[g] = None)
    BY <1>1, <1>4, <1>5, <1>6 DEF Granted
<1> HIDE DEF row, top
<1> QED  BY <1>1, <1>6, <1>7, <1>8, <1>9, <1>10, NewRowKeeps DEF HopsKept

LEMMA PoliciesOnlyKeep ==
    ASSUME ChainInv, PoliciesTypeOK', PoliciesKept, UNCHANGED delegationVars
    PROVE  ChainInv' /\ HopsKept
<1>1. hop' = hop /\ spend' = spend
    BY DEF delegationVars
<1>2. Granted' = Granted /\ \A g \in Granted : SameBounds(g)
    BY <1>1 DEF Granted, SameBounds, SameTerms
<1>3. Edges' /\ ChainsCounted'
    BY <1>2, ForestKept DEF ChainInv
<1> QED  BY <1>1, <1>2, <1>3
         DEF ChainInv, DelegationTypeOK, ChargedHopsGranted, OneHopPerActor, HopsKept

LEMMA CreatePolicyKeeps ==
    ASSUME PoliciesTypeOK, NEW p \in Drafts, CreatePolicy(p)
    PROVE  PoliciesTypeOK' /\ PoliciesKept
<1>1. p \in Policy /\ policies \in Seq(Policy) /\ policies' = Append(policies, p) /\ now' = now
    BY PoliciesAssumption DEF PoliciesTypeOK, CreatePolicy
<1> QED  BY <1>1 DEF PoliciesTypeOK, PoliciesKept

LEMMA GovernKeeps ==
    ASSUME ChainInv, Govern
    PROVE  ChainInv' /\ HopsKept
<1>1. CASE Tick /\ UNCHANGED delegationVars
    <2>1. PoliciesTypeOK' /\ PoliciesKept
        BY <1>1, PoliciesAssumption
        DEF ChainInv, DelegationTypeOK, PoliciesTypeOK, PoliciesKept, Tick, Times
    <2> QED  BY <1>1, <2>1, PoliciesOnlyKeep
<1>2. ASSUME NEW p \in Drafts, CreatePolicy(p), UNCHANGED delegationVars
      PROVE  ChainInv' /\ HopsKept
    BY <1>2, CreatePolicyKeeps, PoliciesOnlyKeep DEF ChainInv, DelegationTypeOK
<1> QED  BY <1>1, <1>2, GrantRootKeeps, GrantKeeps, RevokeKeeps DEF Govern

LEMMA ChainInvInit == DelegationInit => ChainInv
<1> SUFFICES ASSUME DelegationInit PROVE ChainInv
    OBVIOUS
<1>1. Granted = {}
    BY DEF DelegationInit, Granted
<1>2. DelegationTypeOK
    BY PoliciesAssumption DEF DelegationInit, DelegationTypeOK, PoliciesInit, PoliciesTypeOK, Times
<1>3. ChargedHopsGranted
    BY DEF DelegationInit, ChargedHopsGranted
<1> QED  BY <1>1, <1>2, <1>3 DEF ChainInv, Edges, ChainsCounted, OneHopPerActor

LEMMA PoliciesUnchanged ==
    ASSUME PoliciesTypeOK, UNCHANGED policyVars
    PROVE  PoliciesTypeOK' /\ PoliciesKept
BY DEF PoliciesTypeOK, PoliciesKept, policyVars

LEMMA ChainInvStep ==
    ASSUME ChainInv, DelegationNext
    PROVE  ChainInv' /\ HopsKept
<1>1. CASE Govern
    BY <1>1, GovernKeeps
<1>2. ASSUME NEW ref \in Refs, NEW h \in Hops, NEW n \in Amounts, NEW s \in Skus,
             SpendOnce(ref, h, n, s)
      PROVE  ChainInv' /\ HopsKept
    <2>1. h \in Granted /\ n \in Nat /\ Charge(ref, h, n, s) /\ UNCHANGED policyVars
        BY <1>2, DelegationAssumption DEF SpendOnce
    <2> QED  BY <2>1, PoliciesUnchanged, ChargeKeeps DEF ChainInv, DelegationTypeOK
<1>3. ASSUME NEW ref \in Refs, Release(ref)
      PROVE  ChainInv' /\ HopsKept
    BY <1>3, PoliciesUnchanged, GiveBackKeeps DEF Release, ChainInv, DelegationTypeOK
<1> QED  BY <1>1, <1>2, <1>3 DEF DelegationNext

LEMMA ChainInvStutter ==
    ASSUME ChainInv, UNCHANGED chainVars
    PROVE  ChainInv'
<1>1. UNCHANGED delegationVars /\ UNCHANGED policyVars
    BY DEF chainVars, delegationVars, policyVars
<1> QED  BY <1>1, PoliciesUnchanged, PoliciesOnlyKeep DEF ChainInv, DelegationTypeOK

-----------------------------------------------------------------------------
(* The inductive invariant holds in every behaviour. *)
THEOREM ChainInvariant == DelegationSpec => []ChainInv
<1>1. ChainInv /\ [DelegationNext]_chainVars => ChainInv'
    BY ChainInvStep, ChainInvStutter
<1> QED  BY <1>1, ChainInvInit, PTL DEF DelegationSpec

(* Types, and with them that no counter of a hop is ever negative. *)
THEOREM DelegationTypeCorrect == DelegationSpec => []DelegationTypeOK
<1>1. ChainInv => DelegationTypeOK
    BY DEF ChainInv
<1> QED  BY <1>1, ChainInvariant, PTL

(* Attenuation reaches the root at every depth, and every chain has exactly *)
(* depth + 1 hops, so resolve_chain never finds a broken one.              *)
THEOREM AttenuationIsTransitive == DelegationSpec => []ChainNarrows
BY ChainInvNarrows, ChainInvariant, PTL

(* No sequence of grants, finalizations and revocations leaves an actor two *)
(* unrevoked hops.                                                         *)
THEOREM ActorsHoldOneHop == DelegationSpec => []OneHopPerActor
<1>1. ChainInv => OneHopPerActor
    BY DEF ChainInv
<1> QED  BY <1>1, ChainInvariant, PTL

-----------------------------------------------------------------------------
(* What a step writes to the ledger: nothing, one release, or one new row   *)
(* charged to a hop whose whole chain agreed.                              *)
NothingWritten == spend' = spend

OneReleased ==
    \E r \in Refs :
        Outstanding(r) /\ spend' = [spend EXCEPT ![r] = [spend[r] EXCEPT !.released = TRUE]]

OneCharged ==
    \E r \in Refs, row \in Spend :
        spend[r] = None /\ spend' = [spend EXCEPT ![r] = row] /\ ChargeAgreed(r)

(* Liveness judged by a reading at most MaxWait old. *)
LEMMA MaySpendAgrees ==
    ASSUME DelegationTypeOK, NEW h \in Granted, NEW n, NEW s,
           NEW t \in Recent, MaySpend(h, n, s, t)
    PROVE  \A a \in Chain(h) : /\ ~hop[a].revoked
                               /\ now < hop[a].expires + MaxWait
                               /\ n <= hop[a].cap
                               /\ s \in hop[a].skus
<1> SUFFICES ASSUME NEW a \in Chain(h)
             PROVE  /\ ~hop[a].revoked
                    /\ now < hop[a].expires + MaxWait
                    /\ n <= hop[a].cap
                    /\ s \in hop[a].skus
    OBVIOUS
<1>1. ~hop[a].revoked /\ t < hop[a].expires /\ n <= hop[a].cap /\ s \in hop[a].skus
    BY DEF MaySpend, Live
<1>2. hop[a] \in Hop
    BY ChainGranted DEF DelegationTypeOK, Granted
<1>3. now \in Nat /\ t \in Nat /\ hop[a].expires \in Nat /\ MaxWait \in Nat
      /\ now <= t + MaxWait
    BY <1>2, PoliciesAssumption DEF Hop, Recent, Times, DelegationTypeOK, PoliciesTypeOK
<1> QED  BY <1>1, <1>3

LEMMA GovernWritesNothing == Govern => NothingWritten
BY DEF Govern, delegationVars, GrantRoot, Grant, Revoke, NothingWritten

LEMMA LedgerSteps ==
    ASSUME ChainInv, DelegationNext
    PROVE  NothingWritten \/ OneReleased \/ OneCharged
<1>1. CASE Govern
    BY <1>1, GovernWritesNothing
<1>2. ASSUME NEW ref \in Refs, NEW h \in Hops, NEW n \in Amounts, NEW s \in Skus,
             SpendOnce(ref, h, n, s)
      PROVE  OneCharged
    <2> DEFINE row == [hop |-> h, amount |-> n, sku |-> s, released |-> FALSE]
    <2>1. h \in Granted /\ n \in Nat /\ spend[ref] = None
          /\ spend' = [spend EXCEPT ![ref] = row]
        BY <1>2, DelegationAssumption DEF SpendOnce, Charge
    <2>2. row \in Spend /\ row.hop = h /\ row.amount = n /\ row.sku = s
        BY <2>1 DEF Spend
    <2> HIDE DEF row
    <2>3. spend'[ref] = row
        BY <2>1 DEF ChainInv, DelegationTypeOK
    <2>4. ChargeAgreed(ref)
        BY <1>2, <2>1, <2>2, <2>3, MaySpendAgrees DEF SpendOnce, ChargeAgreed, ChainInv
    <2> QED  BY <2>1, <2>2, <2>4 DEF OneCharged
<1>3. ASSUME NEW ref \in Refs, Release(ref)
      PROVE  NothingWritten \/ OneReleased
    BY <1>3 DEF Release, GiveBack, NothingWritten, OneReleased
<1> QED  BY <1>1, <1>2, <1>3 DEF DelegationNext

LEMMA NewSpendsAgree ==
    ASSUME ChainInv, [DelegationNext]_chainVars
    PROVE  NewSpendsAgreed
<1> SUFFICES ASSUME NEW r \in Refs, spend[r] = None, spend'[r] # None
             PROVE  ChargeAgreed(r)
    BY DEF NewSpendsAgreed
<1>0. spend' # spend
    OBVIOUS
<1>1. OneReleased \/ OneCharged
    BY <1>0, LedgerSteps DEF chainVars, NothingWritten
<1>2. ~OneReleased
    BY DEF OneReleased, Outstanding, ChainInv, DelegationTypeOK
<1>3. PICK q \in Refs, row \in Spend :
        spend[q] = None /\ spend' = [spend EXCEPT ![q] = row] /\ ChargeAgreed(q)
    BY <1>1, <1>2 DEF OneCharged
<1>4. q = r
    BY <1>3 DEF ChainInv, DelegationTypeOK
<1> QED  BY <1>3, <1>4

(* No spend passes a revoked, expired or narrower hop anywhere above it,    *)
(* for every depth and every interleaving (chain.py spend).                *)
THEOREM SpendsAreAgreed == DelegationSpec => SpendNeedsWholeChain
<1>1. ChainInv /\ [DelegationNext]_chainVars => [NewSpendsAgreed]_chainVars
    BY NewSpendsAgree
<1> QED  BY <1>1, ChainInvariant, PTL DEF DelegationSpec, SpendNeedsWholeChain

LEMMA OnlyCountersMove ==
    ASSUME NEW x \in Hop, NEW y \in Hop, SameTerms(y, x)
    PROVE  y = [x EXCEPT !.revoked = y.revoked,
                         !.allocated = y.allocated,
                         !.spent = y.spent]
BY DEF SameTerms, Hop

LEMMA HistoryIsKept ==
    ASSUME ChainInv, [DelegationNext]_chainVars
    PROVE  HistoryKept \/ UNCHANGED chainVars
<1> SUFFICES ASSUME DelegationNext PROVE HistoryKept
    OBVIOUS
<1>1. ChainInv' /\ HopsKept
    BY ChainInvStep
<1>2. ASSUME NEW g \in Granted PROVE RowFixed(g)
    <2>1. SameBounds(g) /\ (hop[g].revoked => hop'[g].revoked)
        BY <1>1 DEF HopsKept
    <2>2. hop[g] \in Hop /\ hop'[g] \in Hop
        BY <1>1, <2>1 DEF ChainInv, DelegationTypeOK, Granted, SameBounds
    <2>3. hop'[g] # None /\ SameTerms(hop'[g], hop[g])
        BY <2>1 DEF SameBounds
    <2> QED  BY <2>1, <2>2, <2>3, OnlyCountersMove DEF RowFixed
<1>3. ASSUME NEW r \in Refs, spend[r] # None PROVE LedgerRowFixed(r)
    <2>1. CASE NothingWritten
        BY <2>1 DEF NothingWritten, LedgerRowFixed
    <2>2. CASE OneReleased
        <3>1. PICK q \in Refs :
                Outstanding(q) /\ spend' = [spend EXCEPT ![q] = [spend[q] EXCEPT !.released = TRUE]]
            BY <2>2 DEF OneReleased
        <3>2. spend \in [Refs -> Spend \cup {None}]
            BY DEF ChainInv, DelegationTypeOK
        <3>3. CASE q = r
            BY <3>1, <3>2, <3>3 DEF LedgerRowFixed
        <3>4. CASE q # r
            BY <3>1, <3>2, <3>4 DEF LedgerRowFixed
        <3> QED  BY <3>3, <3>4
    <2>3. CASE OneCharged
        BY <1>3, <2>3 DEF OneCharged, LedgerRowFixed, ChainInv, DelegationTypeOK
    <2> QED  BY <2>1, <2>2, <2>3, LedgerSteps
<1> QED  BY <1>2, <1>3 DEF HistoryKept

(* Bounds are fixed at grant, revocation is final, and a ledger row is      *)
(* written once and given back at most once (chain.py revoke, release; the *)
(* trigger delegation_bounds_frozen).                                      *)
THEOREM HistoryNeverChanges == DelegationSpec => HistoryIsFixed
<1>1. ChainInv /\ [DelegationNext]_chainVars => [HistoryKept]_chainVars
    BY HistoryIsKept
<1> QED  BY <1>1, ChainInvariant, PTL DEF DelegationSpec, HistoryIsFixed

-----------------------------------------------------------------------------
(* The books of a hop.  Its ledger rows and its children's budgets are       *)
(* table columns of finitely many rows; every write adds one row, gives one *)
(* back, or leaves both columns of a hop as they were.                     *)
LedgerRows == { r \in Refs : spend[r] # None }

FiniteTables == IsFiniteSet(Granted) /\ IsFiniteSet(LedgerRows)

SpentRows(h) == [r \in OutstandingOn({h}) |-> spend[r].amount]

ChildBudgets(h) == [c \in Children(h) |-> hop[c].budget]

HopBooks(h) ==
    /\ hop[h].spent = SumFunction(SpentRows(h))
    /\ hop[h].allocated = SumFunction(ChildBudgets(h))
    /\ hop[h].allocated + hop[h].spent <= hop[h].budget

BooksInv == ChainInv /\ FiniteTables /\ \A h \in Granted : HopBooks(h)

LEMMA HopTypes ==
    ASSUME DelegationTypeOK, NEW h \in Granted
    PROVE  /\ hop[h] \in Hop /\ h \in Hops
           /\ hop[h].spent \in Nat /\ hop[h].allocated \in Nat /\ hop[h].budget \in Nat
BY DEF DelegationTypeOK, Granted, Hop

LEMMA OutstandingFinite ==
    ASSUME FiniteTables, DelegationTypeOK, NEW H
    PROVE  /\ OutstandingOn(H) \subseteq Refs
           /\ IsFiniteSet(OutstandingOn(H))
           /\ \A r \in OutstandingOn(H) : spend[r] \in Spend /\ spend[r].amount \in Nat
<1>1. OutstandingOn(H) \subseteq LedgerRows
    BY DEF OutstandingOn, Outstanding, LedgerRows
<1>2. IsFiniteSet(OutstandingOn(H))
    BY <1>1, FS_Subset DEF FiniteTables
<1> QED  BY <1>2 DEF OutstandingOn, Outstanding, DelegationTypeOK, Spend

LEMMA ChildrenFinite ==
    ASSUME FiniteTables, DelegationTypeOK, NEW h
    PROVE  /\ Children(h) \subseteq Granted
           /\ IsFiniteSet(Children(h))
           /\ \A c \in Children(h) : hop[c].budget \in Nat
<1>1. Children(h) \subseteq Granted
    BY DEF Children
<1>2. IsFiniteSet(Children(h))
    BY <1>1, FS_Subset DEF FiniteTables
<1> QED  BY <1>1, <1>2, HopTypes

(* A hop whose rows, children and counters a step leaves alone.             *)
SameMoney(g) ==
    /\ hop'[g].parent = hop[g].parent
    /\ hop'[g].budget = hop[g].budget
    /\ hop'[g].allocated = hop[g].allocated
    /\ hop'[g].spent = hop[g].spent

LEMMA ChildrenUnmoved ==
    ASSUME Granted' = Granted,
           \A g \in Granted : hop'[g].parent = hop[g].parent /\ hop'[g].budget = hop[g].budget,
           NEW h
    PROVE  ChildBudgets(h)' = ChildBudgets(h)
<1>1. Children(h)' = Children(h)
    BY DEF Children
<1>2. \A c \in Children(h) : hop'[c].budget = hop[c].budget
    BY DEF Children
<1> QED  BY <1>1, <1>2 DEF ChildBudgets

LEMMA BooksUnmoved ==
    ASSUME BooksInv, ChainInv', spend' = spend, Granted' = Granted,
           \A g \in Granted : SameMoney(g)
    PROVE  BooksInv'
<1>1. FiniteTables'
    BY DEF BooksInv, FiniteTables, LedgerRows
<1>2. ASSUME NEW h \in Granted PROVE HopBooks(h)'
    <2>1. SpentRows(h)' = SpentRows(h)
        BY DEF SpentRows, OutstandingOn, Outstanding
    <2>2. ChildBudgets(h)' = ChildBudgets(h)
        BY ChildrenUnmoved DEF SameMoney
    <2> QED  BY <2>1, <2>2 DEF BooksInv, HopBooks, SameMoney
<1> QED  BY <1>1, <1>2 DEF BooksInv

LEMMA ChargeBooks ==
    ASSUME BooksInv, ChainInv',
           NEW ref \in Refs, NEW h \in Granted, NEW amount \in Nat, NEW sku \in Skus,
           spend[ref] = None, Charge(ref, h, amount, sku),
           hop[h].allocated + hop[h].spent + amount <= hop[h].budget
    PROVE  BooksInv'
<1>0. DelegationTypeOK /\ FiniteTables
    BY DEF BooksInv, ChainInv
<1>1. /\ hop[h] \in Hop /\ h \in Hops
      /\ hop' = [hop EXCEPT ![h] = [hop[h] EXCEPT !.spent = @ + amount]]
      /\ spend' = [spend EXCEPT ![ref] =
           [hop |-> h, amount |-> amount, sku |-> sku, released |-> FALSE]]
    BY <1>0, HopTypes DEF Charge
<1>2. [hop[h] EXCEPT !.spent = @ + amount] \in Hop
    BY <1>1 DEF Hop
<1>3. Granted' = Granted
    BY <1>0, <1>1, <1>2, DelegationAssumption DEF Granted, DelegationTypeOK
<1>4. /\ \A g \in Granted : hop'[g].parent = hop[g].parent /\ hop'[g].budget = hop[g].budget
      /\ \A g \in Granted : hop'[g].allocated = hop[g].allocated
      /\ hop'[h].spent = hop[h].spent + amount
      /\ \A g \in Granted \ {h} : hop'[g].spent = hop[g].spent
    BY <1>0, <1>1 DEF DelegationTypeOK, Granted, Hop
<1>5. /\ spend'[ref] # None /\ spend'[ref].hop = h /\ spend'[ref].amount = amount
      /\ ~spend'[ref].released
      /\ \A r \in Refs \ {ref} : spend'[r] = spend[r]
    <2>1. [hop |-> h, amount |-> amount, sku |-> sku, released |-> FALSE] \in Spend
        BY <1>1 DEF Spend
    <2> QED  BY <1>0, <1>1, <2>1, DelegationAssumption DEF DelegationTypeOK
<1>6. LedgerRows' = LedgerRows \cup {ref}
    BY <1>5 DEF LedgerRows
<1>7. FiniteTables'
    BY <1>0, <1>3, <1>6, FS_AddElement DEF FiniteTables
<1>8. \A g : ChildBudgets(g)' = ChildBudgets(g)
    BY <1>3, <1>4, ChildrenUnmoved
<1>9. HopBooks(h)'
    <2>1. (OutstandingOn({h}))' = OutstandingOn({h}) \cup {ref} /\ ref \notin OutstandingOn({h})
        BY <1>5 DEF OutstandingOn, Outstanding
    <2>2. \A r \in OutstandingOn({h}) : spend'[r].amount = spend[r].amount
        BY <1>5, <2>1 DEF OutstandingOn
    <2> DEFINE f == SpentRows(h)
               g == [r \in OutstandingOn({h}) \cup {ref} |-> spend'[r].amount]
               S == OutstandingOn({h})
    <2>3. SpentRows(h)' = g
        BY <2>1 DEF SpentRows
    <2>4. /\ IsFiniteSet(S) /\ ref \notin S /\ DOMAIN f = S /\ DOMAIN g = S \cup {ref}
          /\ \A y \in S : f[y] \in Int /\ g[y] = f[y]
          /\ g[ref] = amount
        <3>1. \A y \in S : f[y] = spend[y].amount /\ g[y] = spend'[y].amount
            BY DEF SpentRows
        <3>2. \A y \in S : spend[y].amount \in Nat /\ spend'[y].amount = spend[y].amount
            BY <1>0, <2>2, OutstandingFinite
        <3>3. IsFiniteSet(S)
            BY <1>0, OutstandingFinite
        <3>4. DOMAIN f = S /\ DOMAIN g = S \cup {ref} /\ g[ref] = amount /\ ref \notin S
            BY <1>5, <2>1 DEF SpentRows
        <3> HIDE DEF f, g, S
        <3>5. \A y \in S : f[y] \in Int /\ g[y] = f[y]
            BY <3>1, <3>2
        <3> QED  BY <3>3, <3>4, <3>5
    <2> HIDE DEF f, g, S
    <2>5. SumFunction(g) = SumFunction(f) + g[ref]
        BY <2>4, RowAdded
    <2>6. hop[h].spent = SumFunction(f)
        BY DEF BooksInv, HopBooks, f
    <2>7. hop'[h].spent = SumFunction(SpentRows(h)')
        BY <1>4, <2>3, <2>4, <2>5, <2>6
    <2>8. hop'[h].allocated = SumFunction(ChildBudgets(h)')
        BY <1>4, <1>8 DEF BooksInv, HopBooks
    <2>9. hop'[h].allocated + hop'[h].spent <= hop'[h].budget
        BY <1>0, <1>4, HopTypes
    <2> QED  BY <2>7, <2>8, <2>9 DEF HopBooks
<1>10. ASSUME NEW g \in Granted, g # h PROVE HopBooks(g)'
    <2>1. (OutstandingOn({g}))' = OutstandingOn({g}) /\ ref \notin OutstandingOn({g})
        BY <1>5, <1>10 DEF OutstandingOn, Outstanding
    <2>2. \A r \in OutstandingOn({g}) : spend'[r].amount = spend[r].amount
        BY <1>5, <2>1 DEF OutstandingOn
    <2>3. SpentRows(g)' = SpentRows(g)
        BY <2>1, <2>2 DEF SpentRows
    <2> QED  BY <1>4, <1>8, <1>10, <2>3 DEF BooksInv, HopBooks
<1> QED  BY <1>3, <1>7, <1>9, <1>10 DEF BooksInv

LEMMA GiveBackBooks ==
    ASSUME BooksInv, ChainInv', NEW ref \in Refs, GiveBack(ref)
    PROVE  BooksInv'
<1>0. DelegationTypeOK /\ FiniteTables
    BY DEF BooksInv, ChainInv
<1>a. CASE ~Outstanding(ref)
    <2>1. hop' = hop /\ spend' = spend
        BY <1>a DEF GiveBack
    <2> QED  BY <2>1, BooksUnmoved DEF Granted, SameMoney
<1>b. CASE Outstanding(ref)
    <2>0. PICK h, n : h = spend[ref].hop /\ n = spend[ref].amount
        OBVIOUS
    <2>1. /\ spend[ref] \in Spend /\ h \in Granted /\ h \in Hops /\ n \in Nat
          /\ hop[h] \in Hop /\ n <= hop[h].spent
          /\ hop' = [hop EXCEPT ![h] = [hop[h] EXCEPT !.spent = @ - n]]
          /\ spend' = [spend EXCEPT ![ref] = [spend[ref] EXCEPT !.released = TRUE]]
        BY <1>0, <1>b, <2>0 DEF BooksInv, ChainInv, DelegationTypeOK, ChargedHopsGranted,
                    Granted, GiveBack, Outstanding, Spend
    <2>2. h = spend[ref].hop /\ n = spend[ref].amount /\ ~spend[ref].released
        BY <1>b, <2>0 DEF Outstanding
    <2>3. [hop[h] EXCEPT !.spent = @ - n] \in Hop
        BY <2>1 DEF Hop
    <2>4. Granted' = Granted
        BY <1>0, <2>1, <2>3, DelegationAssumption DEF Granted, DelegationTypeOK
    <2>5. /\ \A g \in Granted : hop'[g].parent = hop[g].parent /\ hop'[g].budget = hop[g].budget
          /\ \A g \in Granted : hop'[g].allocated = hop[g].allocated
          /\ hop'[h].spent = hop[h].spent - n
          /\ \A g \in Granted \ {h} : hop'[g].spent = hop[g].spent
        BY <1>0, <2>1 DEF DelegationTypeOK, Granted, Hop
    <2>6. /\ spend'[ref] # None /\ spend'[ref].released
          /\ spend'[ref].hop = h /\ spend'[ref].amount = n
          /\ \A r \in Refs \ {ref} : spend'[r] = spend[r]
        <3>1. [spend[ref] EXCEPT !.released = TRUE] \in Spend
            BY <2>1 DEF Spend
        <3> QED  BY <1>0, <2>1, <2>2, <3>1, DelegationAssumption DEF DelegationTypeOK, Spend
    <2>7. FiniteTables'
        <3>1. LedgerRows' = LedgerRows
            BY <1>b, <2>6 DEF LedgerRows, Outstanding
        <3> QED  BY <1>0, <2>4, <3>1 DEF FiniteTables
    <2>8. \A g : ChildBudgets(g)' = ChildBudgets(g)
        BY <2>4, <2>5, ChildrenUnmoved
    <2>9. HopBooks(h)'
        <3>1. (OutstandingOn({h}))' = OutstandingOn({h}) \ {ref} /\ ref \in OutstandingOn({h})
            BY <1>b, <2>2, <2>6 DEF OutstandingOn, Outstanding
        <3>2. \A r \in OutstandingOn({h}) \ {ref} : spend'[r].amount = spend[r].amount
            BY <2>6 DEF OutstandingOn
        <3> DEFINE f == SpentRows(h)
                   g == [r \in OutstandingOn({h}) \ {ref} |-> spend'[r].amount]
                   S == OutstandingOn({h})
        <3>3. SpentRows(h)' = g
            BY <3>1 DEF SpentRows
        <3>4. /\ IsFiniteSet(S) /\ ref \in S /\ DOMAIN f = S /\ DOMAIN g = S \ {ref}
              /\ \A y \in S : f[y] \in Int
              /\ \A y \in S \ {ref} : g[y] = f[y]
              /\ f[ref] = n
            <4>1. \A y \in S : f[y] = spend[y].amount
                BY DEF SpentRows
            <4>2. \A y \in S \ {ref} : g[y] = spend'[y].amount
                OBVIOUS
            <4>3. \A y \in S : spend[y].amount \in Nat
                BY <1>0, OutstandingFinite
            <4>4. IsFiniteSet(S)
                BY <1>0, OutstandingFinite
            <4>5. DOMAIN f = S /\ DOMAIN g = S \ {ref} /\ ref \in S
                BY <3>1 DEF SpentRows
            <4> HIDE DEF f, g, S
            <4>6. \A y \in S \ {ref} : g[y] = f[y]
                BY <3>2, <4>1, <4>2 DEF S
            <4> QED  BY <2>2, <4>1, <4>3, <4>4, <4>5, <4>6
        <3> HIDE DEF f, g, S
        <3>5. SumFunction(g) = SumFunction(f) - f[ref]
            BY <3>4, RowRemoved
        <3>6. hop[h].spent = SumFunction(f)
            BY <2>1 DEF BooksInv, HopBooks, f
        <3>7. hop'[h].spent = SumFunction(SpentRows(h)')
            BY <2>5, <3>3, <3>4, <3>5, <3>6
        <3>8. hop'[h].allocated = SumFunction(ChildBudgets(h)')
            BY <2>1, <2>5, <2>8 DEF BooksInv, HopBooks
        <3>9. hop'[h].allocated + hop'[h].spent <= hop'[h].budget
            <4>1. hop[h].allocated + hop[h].spent <= hop[h].budget
                BY <2>1 DEF BooksInv, HopBooks
            <4> QED  BY <1>0, <2>1, <2>5, <4>1, HopTypes
        <3> QED  BY <3>7, <3>8, <3>9 DEF HopBooks
    <2>10. ASSUME NEW g \in Granted, g # h PROVE HopBooks(g)'
        <3>1. (OutstandingOn({g}))' = OutstandingOn({g}) /\ ref \notin OutstandingOn({g})
            BY <2>2, <2>6, <2>10 DEF OutstandingOn, Outstanding
        <3>2. \A r \in OutstandingOn({g}) : spend'[r].amount = spend[r].amount
            BY <2>6, <3>1 DEF OutstandingOn
        <3>3. SpentRows(g)' = SpentRows(g)
            BY <3>1, <3>2 DEF SpentRows
        <3> QED  BY <2>5, <2>8, <2>10, <3>3 DEF BooksInv, HopBooks
    <2> QED  BY <2>1, <2>4, <2>7, <2>9, <2>10 DEF BooksInv
<1> QED  BY <1>a, <1>b

(* A new row has no rows of its own yet, and is one more child of the hop it *)
(* hangs from, which allocated its budget, or of nobody.                   *)
RoomTaken(h) ==
    \/ /\ hop'[h].parent = None
       /\ \A g \in Granted : hop'[g].allocated = hop[g].allocated
    \/ \E p \in Granted :
         /\ hop'[h].parent = p
         /\ hop'[p].allocated = hop[p].allocated + hop'[h].budget
         /\ hop[p].allocated + hop[p].spent + hop'[h].budget <= hop[p].budget
         /\ \A g \in Granted \ {p} : hop'[g].allocated = hop[g].allocated

LEMMA NewRowBooks ==
    ASSUME BooksInv, ChainInv', spend' = spend,
           NEW h \in Hops, h \notin Granted, hop'[h] \in Hop,
           Granted' = Granted \cup {h},
           hop'[h].spent = 0, hop'[h].allocated = 0,
           \A g \in Granted : /\ hop'[g].parent = hop[g].parent
                              /\ hop'[g].budget = hop[g].budget
                              /\ hop'[g].spent = hop[g].spent,
           RoomTaken(h)
    PROVE  BooksInv'
<1>0. DelegationTypeOK /\ FiniteTables /\ ChargedHopsGranted /\ ParentsGranted
    BY EdgesGiveParents DEF BooksInv, ChainInv
<1>1. FiniteTables'
    BY <1>0, FS_AddElement DEF FiniteTables, LedgerRows
<1>2. \A g : SpentRows(g)' = SpentRows(g)
    BY DEF SpentRows, OutstandingOn, Outstanding
<1>3. h # None /\ \A g \in Granted : hop[g].parent # h
    BY <1>0, DelegationAssumption DEF ParentsGranted
<1>4. HopBooks(h)'
    <2>1. hop'[h].parent # h
        BY <1>3, DelegationAssumption DEF RoomTaken
    <2>2. Children(h)' = {}
        BY <1>3, <2>1 DEF Children
    <2>3. OutstandingOn({h}) = {}
        BY <1>0 DEF OutstandingOn, Outstanding, ChargedHopsGranted
    <2>4. SumFunction(SpentRows(h)') = 0 /\ SumFunction(ChildBudgets(h)') = 0
        <3>1. SumFunction([r \in {} |-> spend[r].amount]) = 0
            BY SumEmpty DEF SumFunction
        <3>2. SumFunction([c \in {} |-> hop'[c].budget]) = 0
            BY SumEmpty DEF SumFunction
        <3>3. SpentRows(h) = [r \in {} |-> spend[r].amount]
            BY <2>3 DEF SpentRows
        <3>4. ChildBudgets(h)' = [c \in {} |-> hop'[c].budget]
            BY <2>2 DEF ChildBudgets
        <3> QED  BY <1>2, <3>1, <3>2, <3>3, <3>4
    <2>5. hop'[h].budget \in Nat
        BY DEF Hop
    <2> QED  BY <2>4, <2>5 DEF HopBooks
<1>5. ASSUME NEW g \in Granted, hop'[h].parent # g, hop'[g].allocated = hop[g].allocated
      PROVE  HopBooks(g)'
    <2>1. Children(g)' = Children(g)
        BY <1>5 DEF Children
    <2>2. \A c \in Children(g) : hop'[c].budget = hop[c].budget
        BY DEF Children
    <2>3. ChildBudgets(g)' = ChildBudgets(g)
        BY <2>1, <2>2 DEF ChildBudgets
    <2> QED  BY <1>2, <1>5, <2>3 DEF BooksInv, HopBooks
<1>6. ASSUME NEW p \in Granted, hop'[h].parent = p,
             hop'[p].allocated = hop[p].allocated + hop'[h].budget,
             hop[p].allocated + hop[p].spent + hop'[h].budget <= hop[p].budget
      PROVE  HopBooks(p)'
    <2> DEFINE f == ChildBudgets(p)
               g == [c \in Children(p) \cup {h} |-> hop'[c].budget]
               S == Children(p)
    <2>1. Children(p)' = Children(p) \cup {h} /\ h \notin Children(p)
        BY <1>6 DEF Children
    <2>2. ChildBudgets(p)' = g
        BY <2>1 DEF ChildBudgets
    <2>3. \A c \in S : f[c] = hop[c].budget /\ g[c] = hop'[c].budget
        BY DEF ChildBudgets
    <2>4. \A c \in S : hop[c].budget \in Nat /\ hop'[c].budget = hop[c].budget
        BY <1>0, ChildrenFinite
    <2>5. IsFiniteSet(S)
        BY <1>0, ChildrenFinite
    <2>6. DOMAIN f = S /\ DOMAIN g = S \cup {h} /\ g[h] = hop'[h].budget /\ h \notin S
        BY <2>1 DEF ChildBudgets
    <2>7. g[h] \in Nat
        BY <2>6 DEF Hop
    <2> HIDE DEF g, S
    <2>8. SumFunction(g) = SumFunction(f) + g[h]
        <3> HIDE DEF f
        <3>1. \A c \in S : f[c] \in Int /\ g[c] = f[c]
            BY <2>3, <2>4
        <3> QED  BY <2>5, <2>6, <2>7, <3>1, RowAdded
    <2>9. hop[p].allocated = SumFunction(f) /\ hop[p].spent = SumFunction(SpentRows(p))
        BY DEF BooksInv, HopBooks
    <2>10. hop'[p].allocated = SumFunction(ChildBudgets(p)')
        BY <1>6, <2>2, <2>6, <2>8, <2>9
    <2>11. hop'[p].spent = SumFunction(SpentRows(p)')
        BY <1>2, <2>9
    <2>12. hop'[p].allocated + hop'[p].spent <= hop'[p].budget
        <3>1. hop'[h].budget \in Nat
            BY DEF Hop
        <3> QED  BY <1>0, <1>6, <3>1, HopTypes
    <2> QED  BY <2>10, <2>11, <2>12 DEF HopBooks
<1>7. \A g \in Granted : HopBooks(g)'
    <2>1. CASE hop'[h].parent = None /\ \A g \in Granted : hop'[g].allocated = hop[g].allocated
        <3>1. \A g \in Granted : g # None
            BY DelegationAssumption DEF Granted
        <3> QED  BY <1>5, <2>1, <3>1
    <2>2. CASE hop'[h].parent # None \/ \E g \in Granted : hop'[g].allocated # hop[g].allocated
        BY <1>5, <1>6, <2>2 DEF RoomTaken
    <2> QED  BY <2>1, <2>2
<1> QED  BY <1>1, <1>4, <1>7 DEF BooksInv

(* Making room for a new holder leaves the money of every hop alone.        *)
LEMMA SettledMoney ==
    ASSUME DelegationTypeOK, NEW a \in Actors, NEW g \in Granted
    PROVE  /\ Settled(a)[g] \in Hop
           /\ Settled(a)[g].parent = hop[g].parent
           /\ Settled(a)[g].budget = hop[g].budget
           /\ Settled(a)[g].allocated = hop[g].allocated
           /\ Settled(a)[g].spent = hop[g].spent
<1>1. hop[g] \in Hop /\ g \in Hops /\ hop[g] # None
    BY DEF DelegationTypeOK, Granted
<1>2. [hop[g] EXCEPT !.revoked = TRUE] \in Hop
    BY <1>1 DEF Hop
<1>3. Settled(a)[g] = IF hop[g].holder = a THEN [hop[g] EXCEPT !.revoked = TRUE] ELSE hop[g]
    BY <1>1 DEF Settled
<1> QED  BY <1>1, <1>2, <1>3 DEF Hop

LEMMA SettledGranted ==
    ASSUME DelegationTypeOK, NEW a \in Actors
    PROVE  /\ Settled(a) \in [Hops -> Hop \cup {None}]
           /\ \A g \in Hops : Settled(a)[g] # None <=> g \in Granted
<1>1. \A g \in Granted : Settled(a)[g] \in Hop
    BY SettledMoney
<1>2. \A g \in Hops : g \notin Granted => Settled(a)[g] = None
    BY DEF Settled, Granted
<1>3. Settled(a) = [g \in Hops |-> Settled(a)[g]]
    BY DEF Settled
<1> QED  BY <1>1, <1>2, <1>3, DelegationAssumption

LEMMA GrantRootBooks ==
    ASSUME BooksInv, NEW h \in Hops, NEW a \in Actors, NEW ask \in Asks, GrantRoot(h, a, ask)
    PROVE  BooksInv'
<1> DEFINE row == NewHop(None, 0, Newest, a, ask)
<1>0. DelegationTypeOK /\ ChainInv'
    BY GrantRootKeeps DEF BooksInv, ChainInv
<1>1. hop' = [Settled(a) EXCEPT ![h] = row] /\ spend' = spend /\ h \notin Granted
    BY DEF GrantRoot, Grantable, Granted
<1>2. /\ row.parent = None /\ row.spent = 0 /\ row.allocated = 0
      /\ row.budget = ask.budget
    BY DEF NewHop
<1>3. row \in Hop /\ row # None
    <2>1. ask \in Bounds /\ Newest \in Nat
        BY <1>0, DelegationAssumption DEF DelegationTypeOK, PoliciesTypeOK, Newest
    <2> QED  BY <2>1, NewHopTyped, DelegationAssumption
<1> HIDE DEF row
<1>4. hop'[h] = row /\ \A g \in Hops \ {h} : hop'[g] = Settled(a)[g]
    BY <1>0, <1>1, SettledGranted
<1>5. Granted' = Granted \cup {h}
    BY <1>0, <1>3, <1>4, SettledGranted DEF Granted
<1>6. \A g \in Granted : /\ hop'[g].parent = hop[g].parent
                         /\ hop'[g].budget = hop[g].budget
                         /\ hop'[g].spent = hop[g].spent
                         /\ hop'[g].allocated = hop[g].allocated
    <2> TAKE g \in Granted
    <2>1. hop'[g] = Settled(a)[g]
        BY <1>1, <1>4 DEF Granted
    <2> QED  BY <1>0, <2>1, SettledMoney
<1>7. RoomTaken(h)
    BY <1>2, <1>4, <1>6 DEF RoomTaken
<1> QED  BY <1>0, <1>1, <1>2, <1>3, <1>4, <1>5, <1>6, <1>7, NewRowBooks

LEMMA GrantBooks ==
    ASSUME BooksInv, NEW h \in Hops, NEW p \in Hops, NEW a \in Actors, NEW ask \in Asks,
           Grant(h, p, a, ask)
    PROVE  BooksInv'
<1> DEFINE row == NewHop(p, hop[p].depth + 1, hop[p].policy, a, ask)
           top == [Settled(a)[p] EXCEPT !.allocated = @ + ask.budget]
<1>0. DelegationTypeOK /\ ChainInv'
    BY GrantKeeps DEF BooksInv, ChainInv
<1>1. /\ hop' = [[Settled(a) EXCEPT ![p] = top] EXCEPT ![h] = row]
      /\ spend' = spend /\ h \notin Granted /\ p \in Granted /\ h # p
    BY DEF Grant, Grantable, Granted
<1>2. /\ row.parent = p /\ row.spent = 0 /\ row.allocated = 0
      /\ row.budget = ask.budget
    BY DEF NewHop
<1>3. row \in Hop /\ row # None
    <2>1. ask \in Bounds /\ hop[p] \in Hop
        BY <1>0, <1>1, HopTypes, DelegationAssumption
    <2>2. hop[p].depth + 1 \in Nat /\ hop[p].policy \in Nat
        BY <2>1 DEF Hop
    <2> QED  BY <2>1, <2>2, NewHopTyped, DelegationAssumption
<1>4. /\ top \in Hop /\ top # None
      /\ top.parent = hop[p].parent /\ top.budget = hop[p].budget /\ top.spent = hop[p].spent
      /\ top.allocated = hop[p].allocated + ask.budget
    <2>1. /\ Settled(a)[p] \in Hop
          /\ Settled(a)[p].parent = hop[p].parent /\ Settled(a)[p].budget = hop[p].budget
          /\ Settled(a)[p].spent = hop[p].spent /\ Settled(a)[p].allocated = hop[p].allocated
        BY <1>0, <1>1, SettledMoney
    <2>2. ask.budget \in Nat
        BY DelegationAssumption DEF Bounds
    <2>3. top \in Hop
        BY <2>1, <2>2 DEF Hop
    <2> QED  BY <2>1, <2>2, <2>3, DelegationAssumption DEF Hop
<1> HIDE DEF row, top
<1>5. /\ hop'[h] = row /\ hop'[p] = top
      /\ \A g \in Hops \ {h, p} : hop'[g] = Settled(a)[g]
    BY <1>0, <1>1, SettledGranted
<1>6. Granted' = Granted \cup {h}
    BY <1>0, <1>1, <1>3, <1>4, <1>5, SettledGranted DEF Granted
<1>7. ASSUME NEW g \in Granted
      PROVE  /\ hop'[g].parent = hop[g].parent
             /\ hop'[g].budget = hop[g].budget
             /\ hop'[g].spent = hop[g].spent
             /\ g # p => hop'[g].allocated = hop[g].allocated
    <2>1. CASE g = p
        BY <1>4, <1>5, <2>1
    <2>2. CASE g # p
        <3>1. hop'[g] = Settled(a)[g]
            BY <1>1, <1>5, <2>2 DEF Granted
        <3> QED  BY <1>0, <3>1, SettledMoney
    <2> QED  BY <2>1, <2>2
<1>8. RoomTaken(h)
    <2>1. hop[p].allocated + hop[p].spent + ask.budget <= hop[p].budget
        BY DEF Grant, Attenuates
    <2>2. hop'[h].parent = p /\ hop'[h].budget = ask.budget
        BY <1>2, <1>5
    <2>3. hop'[p].allocated = hop[p].allocated + hop'[h].budget
        BY <1>4, <1>5, <2>2
    <2>4. \A g \in Granted \ {p} : hop'[g].allocated = hop[g].allocated
        BY <1>7
    <2>5. hop[p].allocated + hop[p].spent + hop'[h].budget <= hop[p].budget
        BY <2>1, <2>2
    <2> QED  BY <1>1, <2>2, <2>3, <2>4, <2>5 DEF RoomTaken
<1> QED  BY <1>0, <1>1, <1>2, <1>3, <1>5, <1>6, <1>7, <1>8, NewRowBooks

LEMMA RevokeBooks ==
    ASSUME BooksInv, NEW h \in Hops, Revoke(h)
    PROVE  BooksInv'
<1>0. DelegationTypeOK /\ ChainInv'
    BY RevokeKeeps DEF BooksInv, ChainInv
<1>1. /\ hop[h] \in Hop /\ h \in Granted /\ spend' = spend
      /\ hop' = [hop EXCEPT ![h] = [hop[h] EXCEPT !.revoked = TRUE]]
    BY <1>0 DEF DelegationTypeOK, Granted, Revoke
<1>2. [hop[h] EXCEPT !.revoked = TRUE] \in Hop
    BY <1>1 DEF Hop
<1>3. Granted' = Granted
    BY <1>0, <1>1, <1>2, DelegationAssumption DEF Granted, DelegationTypeOK
<1>4. \A g \in Granted : SameMoney(g)
    BY <1>0, <1>1, <1>2 DEF Granted, DelegationTypeOK, SameMoney, Hop
<1> QED  BY <1>0, <1>1, <1>3, <1>4, BooksUnmoved

LEMMA BooksInvStep ==
    ASSUME BooksInv, DelegationNext
    PROVE  BooksInv'
<1>0. ChainInv'
    BY ChainInvStep DEF BooksInv
<1>1. CASE UNCHANGED delegationVars
    BY <1>0, <1>1, BooksUnmoved DEF delegationVars, Granted, SameMoney
<1>2. ASSUME NEW ref \in Refs, NEW h \in Hops, NEW n \in Amounts, NEW s \in Skus,
             SpendOnce(ref, h, n, s)
      PROVE  BooksInv'
    <2>1. /\ h \in Granted /\ n \in Nat /\ Charge(ref, h, n, s) /\ spend[ref] = None
          /\ hop[h].allocated + hop[h].spent + n <= hop[h].budget
        BY <1>2, DelegationAssumption DEF SpendOnce, MaySpend
    <2> QED  BY <1>0, <2>1, ChargeBooks
<1>3. ASSUME NEW ref \in Refs, Release(ref)
      PROVE  BooksInv'
    BY <1>0, <1>3, GiveBackBooks DEF Release
<1> QED  BY <1>1, <1>2, <1>3, GrantRootBooks, GrantBooks, RevokeBooks DEF DelegationNext, Govern

LEMMA BooksInvInit == DelegationInit => BooksInv
<1> SUFFICES ASSUME DelegationInit PROVE BooksInv
    OBVIOUS
<1>1. Granted = {} /\ LedgerRows = {}
    BY DEF DelegationInit, Granted, LedgerRows
<1> QED  BY <1>1, ChainInvInit, FS_EmptySet DEF BooksInv, FiniteTables

LEMMA BooksInvStutter ==
    ASSUME BooksInv, UNCHANGED chainVars
    PROVE  BooksInv'
<1>1. hop' = hop /\ spend' = spend /\ ChainInv'
    BY ChainInvStutter DEF chainVars, BooksInv
<1> QED  BY <1>1, BooksUnmoved DEF Granted, SameMoney

LEMMA BooksInvariant == DelegationSpec => []BooksInv
<1>1. BooksInv /\ [DelegationNext]_chainVars => BooksInv'
    BY BooksInvStep, BooksInvStutter
<1> QED  BY <1>1, BooksInvInit, PTL DEF DelegationSpec

(* The two counters of a hop are the books they stand for, after every       *)
(* sequence of grants, spends, releases, finalizations and revocations     *)
(* (chain.py spend and release, trigger delegation_attenuates).            *)
THEOREM CountersAreExact == DelegationSpec => []CountersAreTheBooks
<1>1. BooksInv => CountersAreTheBooks
    BY DEF BooksInv, HopBooks, CountersAreTheBooks, Total, SpentRows, ChildBudgets
<1> QED  BY <1>1, BooksInvariant, PTL

-----------------------------------------------------------------------------
(* Branches.  A hop of a branch other than its top hangs below one of the   *)
(* top's children, and the branch below a child is smaller.                *)
LEMMA BranchSplits ==
    ASSUME ChainInv, NEW h \in Granted, NEW d \in Branch(h), d # h
    PROVE  \E c \in Children(h) : d \in Branch(c)
<1>0. ParentsGranted /\ d \in Granted /\ h \in Chain(d) /\ Chain(d) \subseteq Granted
      /\ d \in Chain(d) /\ ClosedUpward(Chain(d))
    BY EdgesGiveParents, ChainGranted, ChainClosed DEF ChainInv, Branch
<1> SUFFICES ASSUME \A c \in Chain(d) : hop[c].parent # h
             PROVE  FALSE
    BY <1>0 DEF Children, Branch
<1> DEFINE S == Chain(d) \ {h}
<1>1. S \in SUBSET Granted /\ d \in S
    BY <1>0
<1>2. ClosedUpward(S)
    BY <1>0 DEF ClosedUpward
<1>3. Chain(d) \subseteq S
    BY <1>1, <1>2, ChainLeast
<1> QED  BY <1>0, <1>3

LEMMA BranchShrinks ==
    ASSUME ChainInv, NEW h \in Granted, NEW c \in Children(h)
    PROVE  Branch(c) \subseteq Branch(h) /\ h \notin Branch(c) /\ h \in Branch(h)
<1>0. /\ ParentsGranted /\ c \in Granted /\ hop[c].parent = h /\ h # None
      /\ hop[c].depth = hop[h].depth + 1 /\ hop[c].depth \in Nat /\ hop[h].depth \in Nat
    <2>1. c \in Granted /\ hop[c].parent = h /\ h # None
        BY DelegationAssumption DEF Children, Granted
    <2>2. ParentsGranted /\ hop[c].depth = hop[h].depth + 1
        BY <2>1, EdgesGiveParents DEF ChainInv, Edges, EdgeOK
    <2>3. hop[c].depth \in Nat /\ hop[h].depth \in Nat
        BY <2>1 DEF ChainInv, DelegationTypeOK, Granted, Hop
    <2> QED  BY <2>1, <2>2, <2>3
<1>1. ASSUME NEW d \in Branch(c) PROVE d \in Branch(h)
    <2>1. d \in Granted /\ c \in Chain(d) /\ ClosedUpward(Chain(d))
        BY <1>0, ChainClosed DEF Branch
    <2>2. h \in Chain(d)
        BY <1>0, <2>1 DEF ClosedUpward
    <2> QED  BY <2>1, <2>2 DEF Branch
<1>2. h \notin Branch(c)
    <2> SUFFICES ASSUME c \in Chain(h)
                 PROVE  FALSE
        BY DEF Branch
    <2>1. hop[c].depth <= hop[h].depth
        BY ChainBelow DEF ChainInv
    <2> QED  BY <1>0, <2>1
<1>3. h \in Branch(h)
    BY ChainGranted DEF Branch
<1> QED  BY <1>1, <1>2, <1>3

(* The rows below a hop are its own and those below its children, whose      *)
(* branches hold no more than their budgets, which the hop allocated.      *)
LEMMA BranchBound ==
    ASSUME BooksInv, NEW h \in Granted,
           \A c \in Children(h) : Total(OutstandingOn(Branch(c))) <= hop[c].budget
    PROVE  Total(OutstandingOn(Branch(h))) <= hop[h].budget
<1> DEFINE amount == [r \in Refs |-> spend[r].amount]
           Sm(R) == SumFunctionOnSet(amount, R)
           own == OutstandingOn({h})
           G == [c \in Children(h) |-> OutstandingOn(Branch(c))]
           below == UNION { G[c] : c \in Children(h) }
           each == [c \in Children(h) |-> Sm(G[c])]
           all == OutstandingOn(Branch(h))
<1>0. ChainInv /\ DelegationTypeOK /\ FiniteTables
    BY DEF BooksInv, ChainInv
<1>1. ASSUME NEW H
      PROVE  /\ OutstandingOn(H) \in SUBSET LedgerRows /\ IsFiniteSet(OutstandingOn(H))
             /\ Total(OutstandingOn(H)) = Sm(OutstandingOn(H))
    <2> DEFINE R == OutstandingOn(H)
               f == [r \in R |-> spend[r].amount]
    <2>1. R \in SUBSET LedgerRows /\ R \subseteq Refs /\ IsFiniteSet(R)
        BY <1>0, OutstandingFinite DEF OutstandingOn, Outstanding, LedgerRows
    <2>2. \A r \in R : f[r] = amount[r]
        BY <2>1
    <2>3. Total(R) = SumFunctionOnSet(f, R)
        BY DEF Total, SumFunction
    <2> HIDE DEF f, amount, R
    <2>4. SumFunctionOnSet(f, R) = SumFunctionOnSet(amount, R)
        BY <2>1, <2>2, SumSame
    <2> QED  BY <2>1, <2>3, <2>4 DEF R
<1>2. IsFiniteSet(LedgerRows) /\ \A r \in LedgerRows : amount[r] \in Nat
    BY <1>0 DEF FiniteTables, LedgerRows, DelegationTypeOK, Spend
<1>3. IsFiniteSet(Children(h)) /\ \A c \in Children(h) : hop[c].budget \in Nat
    BY <1>0, ChildrenFinite
<1>4. G \in [Children(h) -> SUBSET LedgerRows]
    BY <1>1
<1>5. all \subseteq own \cup below
    <2> SUFFICES ASSUME NEW r \in all, r \notin own
                 PROVE  r \in below
        OBVIOUS
    <2>1. spend[r].hop \in Branch(h) /\ spend[r].hop # h
        BY DEF OutstandingOn
    <2>2. PICK c \in Children(h) : spend[r].hop \in Branch(c)
        BY <1>0, <2>1, BranchSplits
    <2>3. r \in G[c]
        BY <2>2 DEF OutstandingOn
    <2> QED  BY <2>3
<1>6. own \in SUBSET LedgerRows /\ below \in SUBSET LedgerRows
    BY <1>1
<1>7. IsFiniteSet(own) /\ IsFiniteSet(below) /\ IsFiniteSet(own \cup below)
    <2> HIDE DEF own, below
    <2>1. own \cup below \in SUBSET LedgerRows
        BY <1>6
    <2> QED  BY <1>2, <1>6, <2>1, FS_Subset
<1>8. \A c \in Children(h) : each[c] \in Nat /\ each[c] <= hop[c].budget
    <2> TAKE c \in Children(h)
    <2>1. each[c] = Sm(OutstandingOn(Branch(c)))
        OBVIOUS
    <2>2. Sm(OutstandingOn(Branch(c))) = Total(OutstandingOn(Branch(c)))
        BY <1>1
    <2>3. Sm(OutstandingOn(Branch(c))) \in Nat
        <3> DEFINE R == OutstandingOn(Branch(c))
        <3>1. IsFiniteSet(R) /\ R \in SUBSET LedgerRows
            BY <1>1
        <3>2. \A r \in R : amount[r] \in Nat
            BY <1>2, <3>1
        <3> HIDE DEF amount, R
        <3>3. SumFunctionOnSet(amount, R) \in Nat
            BY <3>1, <3>2, SumNat
        <3> QED  BY <3>3 DEF R
    <2> QED  BY <2>1, <2>2, <2>3
<1>9. Sm(all) <= Sm(own \cup below)
    <2>1. all \in SUBSET (own \cup below) /\ \A r \in own \cup below : amount[r] \in Nat
        BY <1>2, <1>5, <1>6
    <2> HIDE DEF all, own, below, amount
    <2> QED  BY <1>7, <2>1, SumSubset
<1>10. Sm(own \cup below) <= Sm(own) + Sm(below)
    <2>1. \A r \in own \cup below : amount[r] \in Nat
        BY <1>2, <1>6
    <2> HIDE DEF own, below, amount
    <2> QED  BY <1>7, <2>1, SumCoverTwo
<1>11. Sm(below) <= SumFunctionOnSet(each, Children(h))
    <2> DEFINE C == Children(h)
    <2>1. SumFunctionOnSet(amount, UNION { G[c] : c \in C })
             <= SumFunctionOnSet([c \in C |-> SumFunctionOnSet(amount, G[c])], C)
        <3> HIDE DEF amount, G, C
        <3>1. IsFiniteSet(C) /\ G \in [C -> SUBSET LedgerRows]
            BY <1>3, <1>4 DEF C
        <3> QED  BY <1>2, <3>1, SumCover
    <2> QED  BY <2>1
<1>12. SumFunctionOnSet(each, Children(h)) <= SumFunctionOnSet(ChildBudgets(h), Children(h))
    <2> DEFINE C == Children(h)
               b == ChildBudgets(h)
    <2>1. \A c \in C : each[c] \in Nat /\ b[c] \in Nat /\ each[c] <= b[c]
        BY <1>3, <1>8 DEF ChildBudgets
    <2>2. IsFiniteSet(C)
        BY <1>3
    <2> HIDE DEF each, b, C
    <2>3. SumFunctionOnSet(each, C) <= SumFunctionOnSet(b, C)
        BY <2>1, <2>2, SumMonotone
    <2> QED  BY <2>3 DEF b, C
<1>13. SumFunctionOnSet(ChildBudgets(h), Children(h)) = hop[h].allocated
    BY DEF BooksInv, HopBooks, ChildBudgets, SumFunction
<1>14. Sm(own) = hop[h].spent
    <2>1. Sm(own) = Total(own)
        BY <1>1
    <2> QED  BY <2>1 DEF BooksInv, HopBooks, SpentRows, Total
<1>15. hop[h].allocated + hop[h].spent <= hop[h].budget
    BY DEF BooksInv, HopBooks
<1>16. Total(all) = Sm(all)
    BY <1>1
<1>17. Sm(all) \in Nat /\ Sm(own \cup below) \in Nat /\ Sm(below) \in Nat
    <2>1. all \in SUBSET LedgerRows /\ own \cup below \in SUBSET LedgerRows
        BY <1>1, <1>6
    <2>2. \A R \in SUBSET LedgerRows : Sm(R) \in Nat
        <3> TAKE R \in SUBSET LedgerRows
        <3>1. IsFiniteSet(R) /\ \A r \in R : amount[r] \in Nat
            BY <1>2, FS_Subset
        <3> HIDE DEF amount
        <3> QED  BY <3>1, SumNat
    <2> HIDE DEF Sm, all, own, below
    <2> QED  BY <1>6, <2>1, <2>2
<1>18. SumFunctionOnSet(each, Children(h)) \in Nat
    <2> DEFINE C == Children(h)
    <2>1. IsFiniteSet(C) /\ \A c \in C : each[c] \in Nat
        BY <1>3, <1>8
    <2> HIDE DEF each, C
    <2>2. SumFunctionOnSet(each, C) \in Nat
        BY <2>1, SumNat
    <2> QED  BY <2>2 DEF C
<1>19. hop[h].spent \in Nat /\ hop[h].allocated \in Nat /\ hop[h].budget \in Nat
    BY <1>0, HopTypes
<1> HIDE DEF Sm, all, own, below, each, G, amount
<1>20. Total(all) <= hop[h].budget
    BY <1>9, <1>10, <1>11, <1>12, <1>13, <1>14, <1>15, <1>16, <1>17, <1>18, <1>19
<1> QED  BY <1>20 DEF all

LEMMA BranchesWithin == BooksInv => BranchWithinBudget
<1> SUFFICES ASSUME BooksInv
             PROVE  BranchWithinBudget
    OBVIOUS
<1> DEFINE Over(h) == ~(Total(OutstandingOn(Branch(h))) <= hop[h].budget)
           B == { Branch(h) : h \in { g \in Granted : Over(g) } }
<1> SUFFICES ASSUME B # {}
             PROVE  FALSE
    BY DEF BranchWithinBudget
<1>0. ChainInv /\ IsFiniteSet(Granted) /\ B \in SUBSET SUBSET Granted
    BY DEF BooksInv, FiniteTables, Branch
<1>1. PICK U \in B : \A V \in B : V \subseteq U => V = U
    <2> HIDE DEF B
    <2> QED  BY <1>0, LeastSet
<1>2. PICK h \in Granted : Over(h) /\ U = Branch(h)
    OBVIOUS
<1>3. ASSUME NEW c \in Children(h)
      PROVE  ~Over(c)
    <2>1. c \in Granted /\ Branch(c) \subseteq U /\ Branch(c) # U
        BY <1>0, <1>2, BranchShrinks DEF Children
    <2>2. Branch(c) \notin B
        BY <1>1, <2>1
    <2> HIDE DEF Over
    <2> QED  BY <2>1, <2>2
<1>4. ~Over(h)
    BY <1>3, BranchBound
<1> QED  BY <1>2, <1>4

(* Budgets partition: however deep and however wide a branch grows, what is *)
(* outstanding on all of it is within the budget of the hop at its top.    *)
THEOREM BranchesStayWithinBudget == DelegationSpec => []BranchWithinBudget
BY BranchesWithin, BooksInvariant, PTL
=============================================================================
