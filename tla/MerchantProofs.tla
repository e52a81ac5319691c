---------------------------- MODULE MerchantProofs ----------------------------
(***************************************************************************)
(* What the owner may rely on at the merchant desk, whatever the model     *)
(* replies, whichever transactions overlap and however the panel's polls   *)
(* are cut off or break off: a basket is whole or not there, the cards add *)
(* up to the figure the limit is enforced against, and the panel tells the *)
(* story of a transaction in order, broken only by what cannot be read.    *)
(***************************************************************************)
EXTENDS MerchantDesk, SumProofs, SequenceTheorems

-----------------------------------------------------------------------------
(* The planner. *)

LEMMA GreatestMember ==
    ASSUME NEW S, IsFiniteSet(S), S # {}, \A x \in S : x \in Nat
    PROVE  \E m \in S : \A x \in S : x <= m
  <1> DEFINE B == { V \in SUBSET S : V # {} /\ ~ \E m \in V : \A x \in V : x <= m }
  <1> SUFFICES ASSUME B # {}
               PROVE  FALSE
    OBVIOUS
  <1>0. B \in SUBSET SUBSET S
    OBVIOUS
  <1>1. PICK V \in B : \A W \in B : W \subseteq V => W = V
    <2> HIDE DEF B
    <2> QED
      BY <1>0, LeastSet
  <1>2. PICK v \in V : TRUE
    OBVIOUS
  <1> DEFINE W == V \ {v}
  <1>3. W \notin B
    BY <1>1, <1>2
  <1>4. CASE W = {}
    <2>1. \A x \in V : x = v
      BY <1>4
    <2> QED
      BY <1>2, <2>1
  <1>5. CASE W # {}
    <2>1. PICK m \in W : \A x \in W : x <= m
      BY <1>3, <1>5
    <2>2. \A x \in V : x = v \/ x \in W
      OBVIOUS
    <2>3. v \in Nat /\ m \in Nat
      OBVIOUS
    <2>4. CASE v <= m
      <3>1. \A x \in V : x <= m
        BY <2>1, <2>2, <2>4
      <3> QED
        BY <3>1
    <2>5. CASE ~(v <= m)
      <3>1. \A x \in V : x <= v
        <4> TAKE x \in V
        <4>1. x \in Nat /\ (x = v \/ x <= m)
          BY <2>1, <2>2
        <4> QED
          BY <2>3, <2>5, <4>1
      <3> QED
        BY <1>2, <3>1
    <2> QED
      BY <2>4, <2>5
  <1> QED
    BY <1>4, <1>5

Enumerates(at, K) ==
    /\ at \in [1 .. Cardinality(K) -> K]
    /\ \A i, j \in 1 .. Cardinality(K) : i < j => at[i] < at[j]

LEMMA Enumeration ==
    ASSUME NEW S, IsFiniteSet(S), \A x \in S : x \in Nat
    PROVE  \E at : Enumerates(at, S)
  <1> DEFINE B == { V \in SUBSET S : \A at : ~Enumerates(at, V) }
  <1> SUFFICES ASSUME B # {}
               PROVE  FALSE
    OBVIOUS
  <1>0. B \in SUBSET SUBSET S
    OBVIOUS
  <1>1. PICK V \in B : \A W \in B : W \subseteq V => W = V
    <2> HIDE DEF B
    <2> QED
      BY <1>0, LeastSet
  <1>2. V \in SUBSET S /\ IsFiniteSet(V) /\ \A at : ~Enumerates(at, V)
    BY FS_Subset
  <1>3. V # {}
    <2> SUFFICES ASSUME V = {}
                 PROVE  FALSE
      OBVIOUS
    <2>1. Cardinality(V) = 0
      BY FS_EmptySet
    <2>2. Enumerates([i \in 1 .. 0 |-> 0], V)
      BY <2>1 DEF Enumerates
    <2> QED
      BY <1>2, <2>2
  <1>4. PICK m \in V : \A x \in V : x <= m
    BY <1>2, <1>3, GreatestMember
  <1> DEFINE W == V \ {m}
             n == Cardinality(W)
  <1>5. W \notin B /\ W \in SUBSET S
    BY <1>1, <1>4
  <1>6. PICK f : Enumerates(f, W)
    BY <1>5
  <1>7. IsFiniteSet(W) /\ n \in Nat /\ Cardinality(V) = n + 1
    <2>1. IsFiniteSet(W) /\ n = Cardinality(V) - 1
      BY <1>2, <1>4, FS_RemoveElement
    <2>2. n \in Nat /\ Cardinality(V) \in Nat
      BY <1>2, <2>1, FS_CardinalityType
    <2> QED
      BY <2>1, <2>2
  <1> DEFINE g == [i \in 1 .. n + 1 |-> IF i = n + 1 THEN m ELSE f[i]]
  <1>8. f \in [1 .. n -> W] /\ \A i, j \in 1 .. n : i < j => f[i] < f[j]
    BY <1>6 DEF Enumerates
  <1> HIDE DEF n, B
  <1>9. \A i \in 1 .. n + 1 : g[i] \in V /\ (i = n + 1 => g[i] = m)
                              /\ (i # n + 1 => i \in 1 .. n /\ g[i] = f[i] /\ f[i] \in W)
    BY <1>7, <1>8
  <1>10. g \in [1 .. n + 1 -> V]
    BY <1>9
  <1>11. ASSUME NEW i \in 1 .. n + 1, NEW j \in 1 .. n + 1, i < j
         PROVE  g[i] < g[j]
    <2>1. i \in 1 .. n /\ g[i] = f[i] /\ f[i] \in W
      BY <1>7, <1>9, <1>11
    <2>2. CASE j = n + 1
      <3>1. g[j] = m /\ f[i] <= m /\ f[i] # m /\ f[i] \in Nat /\ m \in Nat
        BY <1>2, <1>4, <1>9, <2>1, <2>2
      <3> HIDE DEF g
      <3> QED
        BY <2>1, <3>1
    <2>3. CASE j # n + 1
      BY <1>8, <1>9, <1>11, <2>1, <2>3
    <2> QED
      BY <2>2, <2>3
  <1>12. Enumerates(g, V)
    BY <1>7, <1>10, <1>11 DEF Enumerates
  <1> QED
    BY <1>2, <1>12

(* The chosen positions are the ones asked for. *)
LEMMA InOrderEnumerates ==
    ASSUME NEW K, IsFiniteSet(K), K \subseteq Nat
    PROVE  Enumerates(InOrder(K), K)
  <1>1. Cardinality(K) \in Nat
    BY FS_CardinalityType
  <1>2. PICK at : Enumerates(at, K)
    BY Enumeration
  <1>3. /\ at \in [1 .. Cardinality(K) -> K]
        /\ \A i, j \in DOMAIN at : i < j => at[i] < at[j]
    BY <1>2 DEF Enumerates
  <1>4. /\ InOrder(K) \in [1 .. Cardinality(K) -> K]
        /\ \A i, j \in DOMAIN InOrder(K) : i < j => InOrder(K)[i] < InOrder(K)[j]
    BY <1>3 DEF InOrder
  <1> QED
    BY <1>4 DEF Enumerates

LEMMA SequenceOf ==
    ASSUME NEW n \in Nat, NEW S, NEW f \in [1 .. n -> S]
    PROVE  f \in Seq(S) /\ Len(f) = n
  OBVIOUS

(* What is kept of a sequence: as many members as positions were asked for. *)
LEMMA KeptMembers ==
    ASSUME NEW s, NEW n \in Nat, DOMAIN s = 1 .. n, NEW K \in SUBSET DOMAIN s
    PROVE  /\ Cardinality(K) \in Nat /\ IsFiniteSet(K)
           /\ DOMAIN Kept(s, K) = 1 .. Cardinality(K)
           /\ \A i \in 1 .. Cardinality(K) : \E k \in K : Kept(s, K)[i] = s[k]
  <1>1. IsFiniteSet(K) /\ Cardinality(K) \in Nat
    <2>1. IsFiniteSet(1 .. n) /\ K \in SUBSET (1 .. n)
      BY FS_Interval
    <2>2. IsFiniteSet(K)
      BY <2>1, FS_Subset
    <2> QED
      BY <2>2, FS_CardinalityType
  <1>2. InOrder(K) \in [1 .. Cardinality(K) -> K]
    BY <1>1, InOrderEnumerates DEF Enumerates
  <1> QED
    BY <1>1, <1>2 DEF Kept

(* What the planner can propose: a sku that was mentioned somewhere.       *)
Mentioned ==
    {Injected.sku} \cup UNION { { s[i].sku : i \in DOMAIN s } : s \in Goals \cup Answers }

(* What can be discarded from a proposal.                                  *)
Discards ==
    {<<>>, Injected.discarded} \cup UNION { { a[i].extra : i \in DOMAIN a } : a \in Answers }

Proposals == [sku : Mentioned, quantity : Nat, discarded : Discards]

LEMMA PositionsSaid ==
    /\ <<>> \in Discards /\ Injected.discarded \in Discards
    /\ \A a \in Answers : \A i \in DOMAIN a : a[i].extra \in Discards
    /\ \A d \in Discards : "position" \in DOMAIN d => d["position"] \in Int
  <1> DEFINE extras == UNION { { a[i].extra : i \in DOMAIN a } : a \in Answers }
  <1>1. \A x : x \in extras <=> \E a \in Answers : \E i \in DOMAIN a : x = a[i].extra
    OBVIOUS
  <1>2. \A a \in Answers : \A i \in DOMAIN a :
          "position" \in DOMAIN a[i].extra => a[i].extra["position"] \in Int
    BY PlannerAssumption
  <1>3. DOMAIN <<>> = {}
    OBVIOUS
  <1>4. "position" \notin DOMAIN Injected.discarded
    BY DeskAssumption
  <1>5. Discards = {<<>>, Injected.discarded} \cup extras
    BY DEF Discards
  <1> HIDE DEF extras
  <1>6. \A x : x \in Discards <=> x = <<>> \/ x = Injected.discarded \/ x \in extras
    BY <1>5
  <1> QED
    BY <1>1, <1>2, <1>3, <1>4, <1>6

LEMMA SkusMentioned ==
    /\ Injected.sku \in Mentioned
    /\ \A s \in Goals \cup Answers : \A i \in DOMAIN s : s[i].sku \in Mentioned
  <1>1. ASSUME NEW s \in Goals \cup Answers, NEW i \in DOMAIN s
        PROVE  s[i].sku \in Mentioned
    <2> DEFINE said == { s[j].sku : j \in DOMAIN s }
    <2>1. s[i].sku \in said
      OBVIOUS
    <2>2. said \in { { t[j].sku : j \in DOMAIN t } : t \in Goals \cup Answers }
      OBVIOUS
    <2> HIDE DEF said
    <2> QED
      BY <2>1, <2>2 DEF Mentioned
  <1>2. Injected.sku \in Mentioned
    BY DEF Mentioned
  <1> QED
    BY <1>1, <1>2

LEMMA OfflineIsPlan ==
    ASSUME NEW goal \in Goals
    PROVE  /\ OfflineLines(goal) \in Seq(Proposals)
           /\ Len(goal) \in Nat /\ DOMAIN OfflineLines(goal) = 1 .. Len(goal)
           /\ DOMAIN goal = 1 .. Len(goal)
  <1>1. /\ Len(goal) \in Nat /\ DOMAIN goal = 1 .. Len(goal)
        /\ \A i \in 1 .. Len(goal) : goal[i].quantity \in Nat /\ goal[i].sku \in Mentioned
    BY PlannerAssumption, SkusMentioned
  <1>2. OfflineLines(goal) \in [1 .. Len(goal) -> Proposals]
    BY <1>1, PositionsSaid DEF OfflineLines, Proposal, Proposals
  <1> QED
    BY <1>1, <1>2, SequenceOf

LEMMA CompromisedIsPlan ==
    ASSUME NEW goal \in Goals
    PROVE  CompromisedLines(goal) \in Seq(Proposals)
  <1> DEFINE s == OfflineLines(goal)
             K == { i \in DOMAIN goal : goal[i].sku # Injected.sku }
             last == Proposal(Injected.sku, Injected.quantity, Injected.discarded)
  <1>1. /\ s \in Seq(Proposals) /\ Len(goal) \in Nat /\ DOMAIN s = 1 .. Len(goal)
        /\ DOMAIN goal = 1 .. Len(goal)
    BY OfflineIsPlan
  <1>2. K \in SUBSET DOMAIN s
    BY <1>1
  <1>3. CompromisedLines(goal) = Append(Kept(s, K), last)
    BY DEF CompromisedLines
  <1>4. last \in Proposals
    BY DeskAssumption, SkusMentioned, PositionsSaid DEF Proposal, Proposals
  <1>5. \A k \in DOMAIN s : s[k] \in Proposals
    BY <1>1
  <1> HIDE DEF s, K, last
  <1>6. /\ Cardinality(K) \in Nat /\ DOMAIN Kept(s, K) = 1 .. Cardinality(K)
        /\ \A i \in 1 .. Cardinality(K) : \E k \in K : Kept(s, K)[i] = s[k]
    BY <1>1, <1>2, KeptMembers
  <1>7. Kept(s, K) \in [1 .. Cardinality(K) -> Proposals]
    <2>1. \A i \in 1 .. Cardinality(K) : Kept(s, K)[i] \in Proposals
      BY <1>2, <1>5, <1>6
    <2>2. Kept(s, K) = [i \in 1 .. Cardinality(K) |-> Kept(s, K)[i]]
      BY DEF Kept
    <2> QED
      BY <2>1, <2>2
  <1>8. Kept(s, K) \in Seq(Proposals)
    BY <1>6, <1>7, SequenceOf
  <1> QED
    BY <1>3, <1>4, <1>8

(* However long an answer, no more of it is kept than the limit.           *)
LEMMA ModelIsPlan ==
    ASSUME NEW answer \in Answers
    PROVE  /\ LinesFromModel(answer) \in Seq(Proposals)
           /\ Len(LinesFromModel(answer)) <= MaxLines
  <1> DEFINE K == { i \in DOMAIN answer : i <= MaxLines /\ answer[i].sku # None }
             n == Cardinality(K)
             kept == Kept(answer, K)
             lines == [i \in DOMAIN kept |-> Normalised(kept[i])]
  <1>1. /\ Len(answer) \in Nat /\ DOMAIN answer = 1 .. Len(answer)
        /\ \A i \in DOMAIN answer : /\ answer[i].quantity \in Int /\ answer[i].extra \in Discards
                                    /\ answer[i].sku \in Mentioned
    BY PlannerAssumption, SkusMentioned, PositionsSaid
  <1>2. K \in SUBSET DOMAIN answer /\ K \in SUBSET (1 .. MaxLines)
    BY <1>1, DeskAssumption
  <1>3. n <= MaxLines
    <2>1. IsFiniteSet(1 .. MaxLines) /\ Cardinality(1 .. MaxLines) = MaxLines
      BY FS_Interval, DeskAssumption
    <2> HIDE DEF K
    <2> QED
      BY <1>2, <2>1, FS_Subset
  <1>4. /\ n \in Nat /\ DOMAIN kept = 1 .. n
        /\ \A i \in 1 .. n : \E k \in K : kept[i] = answer[k]
    <2> HIDE DEF K
    <2> QED
      BY <1>1, <1>2, KeptMembers
  <1>5. \A k \in K : Normalised(answer[k]) \in Proposals
    BY <1>1, <1>2 DEF Normalised, Proposal, Proposals
  <1>6. LinesFromModel(answer) = lines
    BY DEF LinesFromModel
  <1> HIDE DEF n, kept
  <1>7. lines \in [1 .. n -> Proposals]
    <2>1. \A i \in 1 .. n : Normalised(kept[i]) \in Proposals
      BY <1>4, <1>5, Zenon
    <2>2. lines = [i \in 1 .. n |-> Normalised(kept[i])]
      BY <1>4
    <2> QED
      BY <2>1, <2>2
  <1> HIDE DEF lines
  <1>8. lines \in Seq(Proposals) /\ Len(lines) = n
    BY <1>4, <1>7, SequenceOf
  <1> QED
    BY <1>3, <1>6, <1>8

LEMMA PlansTyped ==
    ASSUME NEW asked \in Modes, NEW goal \in Goals, NEW p \in Plans(asked, goal)
    PROVE  /\ p.used \in Modes /\ p.lines \in Seq(Proposals)
           /\ p.used = "LIVE" => Len(p.lines) <= MaxLines
  <1> DEFINE offline == [used |-> "OFFLINE", lines |-> OfflineLines(goal)]
  <1>1. /\ offline.used = "OFFLINE" /\ offline.lines = OfflineLines(goal)
        /\ OfflineLines(goal) \in Seq(Proposals)
    BY OfflineIsPlan
  <1>2. CASE asked = "OFFLINE"
    <2>1. p = offline
      BY <1>2 DEF Plans
    <2> QED
      BY <1>1, <2>1 DEF Modes
  <1>3. CASE asked = "COMPROMISED"
    <2>1. p = [used |-> "COMPROMISED", lines |-> CompromisedLines(goal)]
      BY <1>3 DEF Plans
    <2> QED
      BY <2>1, CompromisedIsPlan DEF Modes
  <1>4. CASE asked = "LIVE"
    <2>1. \/ p = offline
          \/ \E a \in Answers : p = [used |-> "LIVE", lines |-> LinesFromModel(a)]
      BY <1>4 DEF Plans
    <2>2. ASSUME NEW a \in Answers, p = [used |-> "LIVE", lines |-> LinesFromModel(a)]
          PROVE  p.used = "LIVE" /\ p.lines \in Seq(Proposals) /\ Len(p.lines) <= MaxLines
      BY <2>2, ModelIsPlan
    <2> QED
      BY <1>1, <2>1, <2>2 DEF Modes
  <1> QED
    BY <1>2, <1>3, <1>4 DEF Modes

-----------------------------------------------------------------------------
(* The inductive invariant. *)

LineAmount(l) == Price[l.sku] * l.quantity

BasketJobs == [kind : {"basket"}, store : 0 .. MaxTx, asked : Modes, used : Modes \cup {None},
               plan : Seq(Proposals),
               verdicts : Seq({None, "DENIED", "APPROVAL_REQUIRED", "AUTHORIZED"}), claimed : Nat]

LineJobs  == [kind : {"approve", "pay", "confirm"}, store : 0 .. MaxTx, purchase : LineIds]
ResetJobs == [kind : {"reset"}, store : 0 .. MaxTx]

(* The lines of a basket in the making that have claimed of the day.       *)
Claims(j) == { i \in 1 .. Len(j.verdicts) : j.verdicts[i] \notin {None, "DENIED"} }

Drafted(j) ==
    /\ Len(j.verdicts) <= Len(j.plan)
    /\ \A i \in 1 .. Len(j.verdicts) : j.verdicts[i] # None => ~Refused(j.plan[i])
    /\ j.claimed = SumFunction([i \in Claims(j) |-> LineAmount(j.plan[i])])
    /\ j.used = None => j.plan = <<>>
    /\ j.used = "LIVE" => Len(j.plan) <= MaxLines

Making(t) == Running(t) /\ job[t].kind = "basket"

SceneSound ==
    /\ mode \in Modes /\ clock \in 0 .. MaxTx
    /\ stores \subseteq 0 .. MaxTx /\ 0 \in stores

JobsSound ==
    /\ job \in [Slots -> {None, Over} \cup BasketJobs \cup LineJobs \cup ResetJobs]
    /\ \A t \in Slots :
        /\ Running(t) => t <= clock
        /\ Making(t) => Drafted(job[t])
        /\ Running(t) /\ job[t].kind \in {"approve", "pay", "confirm"} =>
              job[t].purchase \in DOMAIN payment

(* Nothing of a transaction is there before it commits.                    *)
Unwritten(t) ==
    /\ t \notin DOMAIN basket
    /\ \A l \in DOMAIN line \cup DOMAIN payment : l[1] # t
    /\ \A r \in trail : r.at # t

Isolated == \A t \in Slots : Running(t) \/ clock < t => Unwritten(t)

TrailSound ==
    /\ IsFiniteSet(trail)
    /\ \A r \in trail : r \in AuditRow /\ r.at \in Slots
    /\ \A r, s \in trail : r.at = s.at => r.store = s.store

TablesSound ==
    /\ DOMAIN basket \subseteq Slots
    /\ \A b \in DOMAIN basket :
        /\ basket[b] \in Basket
        /\ basket[b].used = "LIVE" => basket[b].lines <= MaxLines
    /\ DOMAIN line \subseteq LineIds
    /\ \A l \in DOMAIN line : line[l] \in Line
    /\ DOMAIN payment \subseteq LineIds /\ IsFiniteSet(DOMAIN payment)
    /\ \A p \in DOMAIN payment :
        /\ payment[p] \in Payment
        /\ p[1] \in DOMAIN basket /\ payment[p].store = basket[p[1]].store
        /\ payment[p].store \in 0 .. MaxTx

Held(s) == { p \in DOMAIN payment : /\ payment[p].store = s
                                     /\ payment[p].state \notin {"DENIED", "FAILED"} }

MoneySound ==
    /\ reserved \in [0 .. MaxTx -> Nat]
    /\ \A s \in 0 .. MaxTx :
        /\ reserved[s] = SumFunction([p \in Held(s) |-> payment[p].amount])
        /\ reserved[s] <= MaxDaily
    /\ \A t \in Slots : Making(t) => reserved[job[t].store] + job[t].claimed <= MaxDaily
    /\ \A t, u \in Slots :
        t # u /\ Making(t) /\ Making(u) /\ job[t].store = job[u].store =>
            job[t].claimed = 0 \/ job[u].claimed = 0

(* Between what was shown of a moment and what was not, a row was lost; or  *)
(* what was not shown is beyond the limit, and stays there.                *)
Broken(r, s) == \E lost \in panel.seen : ~lost.readable /\ Before(r, lost) /\ ~Before(s, lost)

Beyond(s) == Cardinality(UpTo(Due(s.store), s)) > PollLimit

PanelSound ==
    /\ panel \in [since : Nat, seen : SUBSET AuditRow, turns : Seq(SUBSET AuditRow)]
    /\ \A r \in panel.seen : r \in trail /\ r.at > panel.since
    /\ \A i \in DOMAIN panel.turns : panel.turns[i] \subseteq panel.seen
    /\ \A i \in DOMAIN panel.turns : \A r \in panel.turns[i], s \in trail :
        s.at = r.at => s \in panel.seen \/ Broken(r, s) \/ Beyond(s)
    /\ ToldOnceInOrder

DeskInv ==
    /\ SceneSound /\ JobsSound /\ Isolated /\ TrailSound
    /\ TablesSound /\ BasketIsWhole /\ MoneySound /\ PanelSound

-----------------------------------------------------------------------------
(* Jobs begin, move and end. *)

LEMMA NewestIsStore ==
    ASSUME SceneSound
    PROVE  Newest \in stores /\ Newest \in 0 .. MaxTx
  <1>1. IsFiniteSet(stores) /\ stores # {} /\ \A s \in stores : s \in Nat
    <2>1. MaxTx \in Nat
      BY DeskAssumption
    <2>2. IsFiniteSet(0 .. MaxTx)
      BY <2>1, FS_Interval
    <2>3. stores \in SUBSET (0 .. MaxTx)
      BY DEF SceneSound
    <2>4. IsFiniteSet(stores)
      BY <2>2, <2>3, FS_Subset
    <2> QED
      BY <2>1, <2>3, <2>4 DEF SceneSound
  <1>2. \E m \in stores : \A r \in stores : r <= m
    BY <1>1, GreatestMember
  <1> QED
    BY <1>2 DEF Newest, SceneSound

LEMMA OverIsOver == \A j : j \in BasketJobs \cup LineJobs \cup ResetJobs => j # Over
  BY DEF BasketJobs, LineJobs, ResetJobs, Over

LEMMA RunningJob ==
    ASSUME JobsSound, NEW t \in Slots, Running(t)
    PROVE  /\ job[t] \in BasketJobs \cup LineJobs \cup ResetJobs
           /\ job[t].store \in 0 .. MaxTx
           /\ job[t].kind \in {"approve", "pay", "confirm"} => job[t].purchase \in DOMAIN payment
  <1>1. job[t] \in BasketJobs \cup LineJobs \cup ResetJobs
    BY DEF JobsSound, Running
  <1>2. job[t].store \in 0 .. MaxTx
    BY <1>1 DEF BasketJobs, LineJobs, ResetJobs
  <1> QED
    BY <1>1, <1>2 DEF JobsSound

LEMMA MakingJob ==
    ASSUME JobsSound, NEW t \in Slots, Making(t)
    PROVE  job[t] \in BasketJobs /\ Drafted(job[t])
  <1>1. job[t] \in BasketJobs \cup LineJobs \cup ResetJobs /\ job[t].kind = "basket"
    BY RunningJob DEF Making
  <1>2. job[t] \in BasketJobs
    BY <1>1 DEF LineJobs, ResetJobs
  <1> QED
    BY <1>2 DEF JobsSound

(* A job of its own is all a step need change.                             *)
LEMMA OneJob ==
    ASSUME JobsSound, NEW t \in Slots, NEW j, job' = [job EXCEPT ![t] = j]
    PROVE  /\ job'[t] = j
           /\ \A u \in Slots : u # t =>
                /\ job'[u] = job[u]
                /\ Running(u)' <=> Running(u)
                /\ Making(u)' <=> Making(u)
  BY DEF JobsSound, Running, Making

LEMMA JobMoves ==
    ASSUME JobsSound, NEW t \in Slots, NEW j,
           j \in {Over} \cup BasketJobs \cup LineJobs \cup ResetJobs,
           job' = [job EXCEPT ![t] = j], clock' >= clock, clock \in Nat, clock' \in Nat,
           DOMAIN payment \subseteq DOMAIN payment',
           j # Over => t <= clock',
           j \in BasketJobs => Drafted(j),
           j \in LineJobs => j.purchase \in DOMAIN payment'
    PROVE  JobsSound'
  <1>1. /\ job'[t] = j
        /\ \A u \in Slots : u # t =>
                /\ job'[u] = job[u]
                /\ Running(u)' <=> Running(u)
                /\ Making(u)' <=> Making(u)
    BY OneJob
  <1>2. job' \in [Slots -> {None, Over} \cup BasketJobs \cup LineJobs \cup ResetJobs]
    BY DEF JobsSound
  <1>3. ASSUME NEW u \in Slots
        PROVE  /\ Running(u)' => u <= clock'
               /\ Making(u)' => Drafted(job'[u])
               /\ Running(u)' /\ job'[u].kind \in {"approve", "pay", "confirm"} =>
                     job'[u].purchase \in DOMAIN payment'
    <2>1. CASE u = t
      <3>1. Running(u)' => j # Over
        BY <1>1, <2>1 DEF Running
      <3>2. j # Over /\ j.kind = "basket" => j \in BasketJobs
        BY DEF BasketJobs, LineJobs, ResetJobs
      <3>3. j # Over /\ j.kind \in {"approve", "pay", "confirm"} => j \in LineJobs
        BY DEF BasketJobs, LineJobs, ResetJobs
      <3> QED
        BY <1>1, <2>1, <3>1, <3>2, <3>3 DEF Making
    <2>2. CASE u # t
      <3>1. Running(u) => u <= clock'
        BY DEF JobsSound, Slots
      <3> QED
        BY <1>1, <2>2, <3>1 DEF JobsSound
    <2> QED
      BY <2>1, <2>2
  <1>4. \A u \in Slots : Drafted(job'[u]) <=> Drafted(job[u])'
    BY DEF Drafted, Claims, Refused, LineAmount
  <1> QED
    BY <1>2, <1>3, <1>4 DEF JobsSound

LEMMA JobEnds ==
    ASSUME JobsSound, NEW t \in Slots, job' = [job EXCEPT ![t] = Over],
           UNCHANGED clock, clock \in Nat, DOMAIN payment \subseteq DOMAIN payment'
    PROVE  /\ JobsSound' /\ ~Running(t)' /\ ~Making(t)'
           /\ \A u \in Slots : u # t =>
                /\ job'[u] = job[u]
                /\ Running(u)' <=> Running(u)
                /\ Making(u)' <=> Making(u)
  <1>1. /\ job'[t] = Over
        /\ \A u \in Slots : u # t =>
                /\ job'[u] = job[u]
                /\ Running(u)' <=> Running(u)
                /\ Making(u)' <=> Making(u)
    BY OneJob
  <1>2. JobsSound'
    <2>1. clock' >= clock /\ clock' \in Nat
      OBVIOUS
    <2>2. Over \notin BasketJobs /\ Over \notin LineJobs
      BY OverIsOver
    <2>3. \A j : j = Over => j \in {Over} \cup BasketJobs \cup LineJobs \cup ResetJobs
      OBVIOUS
    <2> QED
      BY <2>1, <2>2, <2>3, JobMoves
  <1> QED
    BY <1>1, <1>2 DEF Running, Making

-----------------------------------------------------------------------------
(* Steps that commit nothing. *)

LEMMA NothingCommitted ==
    ASSUME DeskInv, UNCHANGED <<trail, basket, line, payment, reserved>>,
           \A t \in Slots : Running(t)' \/ clock' < t => Running(t) \/ clock < t,
           \A t \in Slots : Making(t)' =>
                \/ job'[t].claimed = 0 /\ job'[t].store \in 0 .. MaxTx
                \/ /\ Making(t)
                   /\ job'[t].store = job[t].store /\ job'[t].claimed = job[t].claimed
    PROVE  Isolated' /\ TrailSound' /\ TablesSound' /\ BasketIsWhole' /\ MoneySound'
  <1>1. Isolated'
    <2>1. \A t : Unwritten(t)' <=> Unwritten(t)
      BY DEF Unwritten
    <2> QED
      BY <2>1 DEF DeskInv, Isolated
  <1>2. TrailSound'
    BY DEF DeskInv, TrailSound
  <1>3. TablesSound'
    BY DEF DeskInv, TablesSound
  <1>4. BasketIsWhole'
    BY DEF DeskInv, BasketIsWhole
  <1>5. MoneySound'
    <2>0. MaxDaily \in Nat
      BY DeskAssumption
    <2>1. reserved' \in [0 .. MaxTx -> Nat]
      BY DEF DeskInv, MoneySound
    <2>2. \A s \in 0 .. MaxTx :
            /\ reserved'[s] = SumFunction([p \in Held(s)' |-> payment'[p].amount])
            /\ reserved'[s] <= MaxDaily
      BY DEF DeskInv, MoneySound, Held
    <2>3. ASSUME NEW t \in Slots, Making(t)'
          PROVE  reserved'[job'[t].store] + job'[t].claimed <= MaxDaily
      <3>1. CASE job'[t].claimed = 0 /\ job'[t].store \in 0 .. MaxTx
        <4> DEFINE n == reserved'[job'[t].store]
        <4>1. n \in Nat /\ n <= MaxDaily
          BY <2>1, <2>2, <3>1
        <4> HIDE DEF n
        <4>2. n + 0 <= MaxDaily
          BY <4>1
        <4> QED
          BY <3>1, <4>2 DEF n
      <3>2. CASE /\ Making(t)
                 /\ job'[t].store = job[t].store /\ job'[t].claimed = job[t].claimed
        BY <3>2 DEF DeskInv, MoneySound
      <3> QED
        BY <2>3, <3>1, <3>2
    <2>4. ASSUME NEW t \in Slots, NEW u \in Slots, t # u, Making(t)', Making(u)',
                 job'[t].store = job'[u].store
          PROVE  job'[t].claimed = 0 \/ job'[u].claimed = 0
      BY <2>4 DEF DeskInv, MoneySound
    <2> QED
      BY <2>1, <2>2, <2>3, <2>4 DEF MoneySound
  <1> QED
    BY <1>1, <1>2, <1>3, <1>4, <1>5

LEMMA PanelRests ==
    ASSUME PanelSound, UNCHANGED <<trail, panel>>
    PROVE  PanelSound'
  <1>1. \A s : Beyond(s)' = Beyond(s)
    BY DEF Beyond, UpTo, Due
  <1> QED
    BY <1>1 DEF PanelSound, Broken, ToldOnceInOrder

LEMMA PanelConnects ==
    ASSUME SceneSound, Reconnect
    PROVE  PanelSound'
  <1>1. panel' = [since |-> clock, seen |-> {}, turns |-> <<>>] /\ clock \in Nat
    BY DeskAssumption DEF Reconnect, Connected, SceneSound
  <1>2. /\ panel' \in [since : Nat, seen : SUBSET AuditRow, turns : Seq(SUBSET AuditRow)]
        /\ panel'.seen = {} /\ panel'.turns = <<>> /\ DOMAIN panel'.turns = {}
    BY <1>1
  <1> QED
    BY <1>2 DEF PanelSound, ToldOnceInOrder

(* A turn shows some of the new rows and marks them; what it leaves of a    *)
(* moment it has shown lies behind the row that broke it off.              *)
Told(new, told, marked) ==
    /\ told \in SUBSET marked /\ marked \in SUBSET new
    /\ \A r \in told, s \in new :
        s \in marked \/ \E lost \in marked : ~lost.readable /\ Before(r, lost) /\ ~Before(s, lost)

LEMMA TurnTells ==
    ASSUME NEW new, Turn(new)
    PROVE  \E told, marked : Told(new, told, marked) /\ Shows(told, marked)
  <1>1. CASE Shows(new, new)
    <2>1. Told(new, new, new)
      BY DEF Told
    <2> QED
      BY <1>1, <2>1
  <1>2. ASSUME NEW stop \in Breaks(new), Shows(Until(new, stop), Until(new, stop) \cup {stop})
        PROVE  \E told, marked : Told(new, told, marked) /\ Shows(told, marked)
    <2>1. stop \in new /\ ~stop.readable
      BY DEF Breaks
    <2>2. \A r : r \in Until(new, stop) <=> r \in new /\ Before(r, stop)
      BY DEF Until
    <2>3. Told(new, Until(new, stop), Until(new, stop) \cup {stop})
      BY <2>1, <2>2 DEF Told
    <2> QED
      BY <1>2, <2>3
  <1> QED
    BY <1>1, <1>2 DEF Turn

(* What a poll shows of a moment shown before lies behind a lost row, for   *)
(* what was not seen of it is either there or beyond the limit.            *)
LEMMA PollSound ==
    ASSUME SceneSound, TrailSound, PanelSound, Poll(Newest)
    PROVE  PanelSound'
  <1>1. PICK new : new = Batch(Newest) \ panel.seen /\ Turn(new)
    BY DEF Poll
  <1>2. PICK told, marked : Told(new, told, marked) /\ Shows(told, marked)
    BY <1>1, TurnTells
  <1> DEFINE loud == { r \in told : r.kind \notin Quiet }
  <1>3. /\ panel' = [panel EXCEPT !.seen  = @ \cup marked,
                                !.turns = IF loud = {} THEN @ ELSE Append(@, loud)]
        /\ UNCHANGED <<clock, trail>>
    BY <1>2 DEF Shows
  <1>4. panel \in [since : Nat, seen : SUBSET AuditRow, turns : Seq(SUBSET AuditRow)]
    BY DEF PanelSound
  <1>5. \A r \in new : /\ r \in trail /\ r \in AuditRow /\ r.store = Newest /\ r.at > panel.since
                       /\ r \notin panel.seen /\ ~Beyond(r)
    <2> TAKE r \in new
    <2>1. r \in Due(Newest) /\ Cardinality(UpTo(Due(Newest), r)) <= PollLimit /\ r \notin panel.seen
      BY <1>1 DEF Batch, First
    <2>2. r \in trail /\ r \in AuditRow /\ r.store = Newest /\ r.at > panel.since
      BY <2>1 DEF Due, TrailSound
    <2>3. Cardinality(UpTo(Due(Newest), r)) \in Nat /\ PollLimit \in Nat
      <3>1. UpTo(Due(Newest), r) \in SUBSET trail /\ IsFiniteSet(trail)
        BY DEF UpTo, Due, TrailSound
      <3> QED
        BY <3>1, FS_Subset, FS_CardinalityType, PanelAssumption
    <2> QED
      BY <2>1, <2>2, <2>3 DEF Beyond
  <1>6. /\ marked \subseteq new /\ loud \subseteq told /\ told \subseteq marked
        /\ loud \in SUBSET AuditRow /\ marked \in SUBSET AuditRow
    BY <1>2, <1>5 DEF Told
  <1>7. \A s \in trail : s \in new \/ s \in panel.seen \/ Beyond(s)
                           \/ s.store # Newest \/ ~(s.at > panel.since)
    <2> TAKE s \in trail
    <2>1. SUFFICES ASSUME s \notin panel.seen, ~Beyond(s), s.store = Newest, s.at > panel.since
                   PROVE  s \in new
      OBVIOUS
    <2>2. s \in Due(Newest)
      BY <2>1 DEF Due
    <2>3. Cardinality(UpTo(Due(Newest), s)) \in Nat /\ PollLimit \in Nat
      <3>1. UpTo(Due(Newest), s) \in SUBSET trail /\ IsFiniteSet(trail)
        BY DEF UpTo, Due, TrailSound
      <3> QED
        BY <3>1, FS_Subset, FS_CardinalityType, PanelAssumption
    <2>4. Cardinality(UpTo(Due(Newest), s)) <= PollLimit
      BY <2>1, <2>3 DEF Beyond
    <2> QED
      BY <1>1, <2>1, <2>2, <2>4 DEF Batch, First
  <1> HIDE DEF loud
  <1>8. /\ panel'.since = panel.since /\ panel'.seen = panel.seen \cup marked
        /\ panel'.turns = IF loud = {} THEN panel.turns ELSE Append(panel.turns, loud)
        /\ panel' \in [since : Nat, seen : SUBSET AuditRow, turns : Seq(SUBSET AuditRow)]
    <2>1. /\ panel'.since = panel.since /\ panel'.seen = panel.seen \cup marked
          /\ panel'.turns = IF loud = {} THEN panel.turns ELSE Append(panel.turns, loud)
          /\ panel' = [since |-> panel'.since, seen |-> panel'.seen, turns |-> panel'.turns]
      BY <1>3, <1>4
    <2>2. panel'.since \in Nat /\ panel'.seen \in SUBSET AuditRow
      BY <1>4, <1>6, <2>1
    <2>3. panel'.turns \in Seq(SUBSET AuditRow)
      <3>1. panel.turns \in Seq(SUBSET AuditRow)
        BY <1>4
      <3> QED
        BY <1>6, <2>1, <3>1
    <2> QED
      BY <2>1, <2>2, <2>3
  <1>9. \A s : Beyond(s)' = Beyond(s)
    BY <1>3, <1>8 DEF Beyond, UpTo, Due
  <1>10. \A r, s : Broken(r, s) => Broken(r, s)'
    BY <1>8 DEF Broken
  (* The turns so far, and perhaps one more. *)
  <1>11. /\ Len(panel.turns) \in Nat
         /\ \A i \in DOMAIN panel.turns : i \in 1 .. Len(panel.turns) /\ panel'.turns[i] = panel.turns[i]
         /\ \A i \in DOMAIN panel'.turns :
              i \in DOMAIN panel.turns \/ (i = Len(panel.turns) + 1 /\ panel'.turns[i] = loud)
    <2>1. PICK turns \in Seq(SUBSET AuditRow) : turns = panel.turns
      BY <1>4
    <2>2. Len(turns) \in Nat /\ DOMAIN turns = 1 .. Len(turns)
      BY <2>1
    <2>3. CASE loud = {}
      <3>1. panel'.turns = turns
        BY <1>8, <2>1, <2>3
      <3> QED
        BY <2>1, <2>2, <3>1
    <2>4. CASE loud # {}
      <3>1. panel'.turns = Append(turns, loud)
        BY <1>8, <2>1, <2>4
      <3>2. /\ DOMAIN panel'.turns = 1 .. Len(turns) + 1
            /\ panel'.turns[Len(turns) + 1] = loud
            /\ \A i \in 1 .. Len(turns) : panel'.turns[i] = turns[i]
        BY <1>6, <2>1, <3>1
      <3> QED
        BY <2>1, <2>2, <3>2
    <2> QED
      BY <2>3, <2>4
  <1>12. \A r \in panel'.seen : r \in trail' /\ r.at > panel'.since
    BY <1>3, <1>5, <1>6, <1>8 DEF PanelSound
  <1>13. \A i \in DOMAIN panel'.turns : panel'.turns[i] \subseteq panel'.seen
    <2>1. \A i \in DOMAIN panel.turns : panel.turns[i] \subseteq panel.seen
      BY DEF PanelSound
    <2> QED
      BY <1>6, <1>8, <1>11, <2>1
  (* What the next turns may still show of a moment this one tells of. *)
  <1>14. ASSUME NEW r \in loud, NEW s \in trail, s.at = r.at
         PROVE  s \in panel'.seen \/ Broken(r, s)' \/ Beyond(s)
    <2>1. r \in told /\ r \in new /\ r \in trail /\ r.store = Newest /\ r.at > panel.since
      BY <1>5, <1>6
    <2>2. s.store = Newest /\ s.at > panel.since
      BY <1>14, <2>1 DEF TrailSound
    <2>3. CASE s \in new
      <3>1. s \in marked \/ \E lost \in marked : ~lost.readable /\ Before(r, lost) /\ ~Before(s, lost)
        BY <1>2, <2>1, <2>3 DEF Told
      <3> QED
        BY <1>8, <3>1 DEF Broken
    <2> QED
      BY <1>7, <1>8, <2>2, <2>3
  <1>15. ASSUME NEW i \in DOMAIN panel'.turns, NEW r \in panel'.turns[i], NEW s \in trail', s.at = r.at
         PROVE  s \in panel'.seen \/ Broken(r, s)' \/ Beyond(s)'
    <2>1. CASE i \in DOMAIN panel.turns
      <3>1. s \in panel.seen \/ Broken(r, s) \/ Beyond(s)
        BY <1>3, <1>11, <1>15, <2>1 DEF PanelSound
      <3> QED
        BY <1>8, <1>9, <1>10, <3>1
    <2>2. CASE panel'.turns[i] = loud
      BY <1>3, <1>9, <1>14, <1>15, <2>2
    <2> QED
      BY <1>11, <2>1, <2>2
  (* What this turn tells of a moment told before. *)
  <1>16. ASSUME NEW i \in DOMAIN panel.turns, NEW r \in panel.turns[i], NEW s \in loud
         PROVE  r # s /\ (r.at = s.at => Broken(r, s))
    <2>1. s \in new /\ s \in trail /\ s \notin panel.seen /\ ~Beyond(s)
      BY <1>5, <1>6
    <2>2. r \in panel.seen
      BY DEF PanelSound
    <2>3. r.at = s.at => s \in panel.seen \/ Broken(r, s) \/ Beyond(s)
      BY <2>1 DEF PanelSound
    <2> QED
      BY <2>1, <2>2, <2>3
  <1>17. ToldOnceInOrder'
    <2>1. ASSUME NEW i \in DOMAIN panel'.turns, NEW j \in DOMAIN panel'.turns, i < j,
                 NEW r \in panel'.turns[i], NEW s \in panel'.turns[j]
          PROVE  r # s /\ (r.at = s.at => Broken(r, s)')
      <3>1. i \in DOMAIN panel.turns
        <4>1. j \in 1 .. Len(panel.turns) \/ j = Len(panel.turns) + 1
          BY <1>11
        <4>2. i # Len(panel.turns) + 1
          BY <1>11, <2>1, <4>1
        <4> QED
          BY <1>11, <4>2
      <3>2. r \in panel.turns[i]
        BY <1>11, <2>1, <3>1
      <3>3. CASE j \in DOMAIN panel.turns
        <4>1. s \in panel.turns[j]
          BY <1>11, <2>1, <3>3
        <4>2. r # s /\ (r.at = s.at => Broken(r, s))
          BY <2>1, <3>1, <3>2, <3>3, <4>1 DEF PanelSound, ToldOnceInOrder, Broken
        <4> QED
          BY <1>10, <4>2
      <3>4. CASE panel'.turns[j] = loud
        BY <1>10, <1>16, <2>1, <3>1, <3>2, <3>4
      <3> QED
        BY <1>11, <3>3, <3>4
    <2> QED
      BY <2>1 DEF ToldOnceInOrder, Broken
  <1> QED
    BY <1>8, <1>12, <1>13, <1>15, <1>17 DEF PanelSound

-----------------------------------------------------------------------------
(* What a commit writes down. *)

LEMMA KindsFinite == IsFiniteSet(EventKinds)
  <1>1. \A S, x : IsFiniteSet(S) => IsFiniteSet(S \cup {x})
    BY FS_AddElement
  <1> DEFINE planned == ((({} \cup {"planner_fell_back"}) \cup {"planner_line_proposed"})
                           \cup {"planner_fields_discarded"}) \cup {"line_stopped"}
             decided == ((planned \cup {"catalog_purchase_rejected"})
                           \cup {"payment_transition"}) \cup {"checkout_authority_issued"}
             ordered == ((decided \cup {"checkout_authority_consumed"})
                           \cup {"paytm_order_created"}) \cup {"paytm_status_pending"}
             ended   == ((ordered \cup {"paytm_status_confirmed"})
                           \cup {"paytm_payment_failed"}) \cup {"store_reset"}
  <1>2. IsFiniteSet({})
    BY FS_EmptySet
  <1>3. IsFiniteSet(planned)
    BY <1>1, <1>2
  <1>4. IsFiniteSet(decided)
    <2> HIDE DEF planned
    <2> QED
      BY <1>1, <1>3
  <1>5. IsFiniteSet(ordered)
    <2> HIDE DEF decided
    <2> QED
      BY <1>1, <1>4
  <1>6. IsFiniteSet(ended)
    <2> HIDE DEF ordered
    <2> QED
      BY <1>1, <1>5
  <1>7. EventKinds = ended
    BY DEF EventKinds
  <1> QED
    BY <1>6, <1>7, Zenon

RowsOf(t) == { r \in AuditRow : r.at = t /\ r.store = job[t].store }

(* What a transaction writes of some kinds: rows of its own, finitely many. *)
LEMMA RowsAreRows ==
    ASSUME JobsSound, NEW t \in Slots, Running(t), NEW kinds \in SUBSET EventKinds,
           NEW i \in Nat, NEW position \in Int
    PROVE  Rows(t, kinds, i, position) \in SUBSET RowsOf(t) /\ IsFiniteSet(Rows(t, kinds, i, position))
  <1>1. job[t].store \in Nat /\ t \in Nat
    BY RunningJob, DeskAssumption DEF Slots
  <1>2. Rows(t, kinds, i, position) \in SUBSET RowsOf(t)
    <2>1. \A k \in kinds : Row(t, k, i, position, TRUE) \in AuditRow
      BY <1>1 DEF Row, AuditRow
    <2>2. \A k \in kinds : /\ Row(t, k, i, position, TRUE).at = t
                           /\ Row(t, k, i, position, TRUE).store = job[t].store
      BY DEF Row
    <2> QED
      BY <2>1, <2>2 DEF Rows, RowsOf
  <1>3. IsFiniteSet(Rows(t, kinds, i, position))
    <2> DEFINE f == [k \in kinds |-> Row(t, k, i, position, TRUE)]
    <2>1. IsFiniteSet(kinds)
      BY KindsFinite, FS_Subset
    <2>2. Rows(t, kinds, i, position) = { f[k] : k \in kinds }
      BY DEF Rows
    <2>3. f \in Surjection(kinds, { f[k] : k \in kinds })
      BY DEF Surjection
    <2> HIDE DEF f
    <2> QED
      BY <2>1, <2>2, <2>3, FS_Surjection
  <1> QED
    BY <1>2, <1>3

LEMMA TrailGrows ==
    ASSUME DeskInv, NEW t \in Slots, Running(t),
           NEW new \in SUBSET RowsOf(t), IsFiniteSet(new), trail' = trail \cup new, UNCHANGED panel
    PROVE  TrailSound' /\ PanelSound'
  <1>1. \A r \in trail : r.at # t
    BY DEF DeskInv, Isolated, Unwritten
  <1>2. \A r \in new : r \in AuditRow /\ r.at = t /\ r.store = job[t].store
    BY DEF RowsOf
  <1>3. IsFiniteSet(trail')
    BY FS_Union DEF DeskInv, TrailSound
  <1>4. TrailSound'
    BY <1>1, <1>2, <1>3 DEF DeskInv, TrailSound
  <1>5. \A s : Beyond(s) => Beyond(s)'
    <2> TAKE s
    <2> DEFINE now  == UpTo(Due(s.store), s)
               then == UpTo(Due(s.store), s)'
    <2>1. now \in SUBSET then /\ then \in SUBSET trail'
      BY DEF UpTo, Due
    <2>2. IsFiniteSet(then) /\ IsFiniteSet(now)
      BY <1>3, <2>1, FS_Subset
    <2>3. /\ Cardinality(now) <= Cardinality(then)
          /\ Cardinality(now) \in Nat /\ Cardinality(then) \in Nat /\ PollLimit \in Nat
      BY <2>1, <2>2, FS_Subset, FS_CardinalityType, PanelAssumption
    <2>4. /\ Beyond(s) <=> Cardinality(now) > PollLimit
          /\ Beyond(s)' <=> Cardinality(then) > PollLimit
      BY DEF Beyond
    <2> HIDE DEF now, then
    <2> QED
      BY <2>3, <2>4
  <1>6. PanelSound'
    <2>1. PanelSound
      BY DEF DeskInv
    <2>2. \A r \in panel.seen : r \in trail /\ r \in trail' /\ r.at > panel.since
      BY <2>1 DEF PanelSound
    <2>3. ASSUME NEW i \in DOMAIN panel.turns, NEW r \in panel.turns[i], NEW s \in trail', s.at = r.at
          PROVE  s \in panel.seen \/ Broken(r, s) \/ Beyond(s)'
      <3>1. r \in trail
        BY <2>1, <2>2 DEF PanelSound
      <3>2. s \in trail
        BY <1>1, <1>2, <2>3, <3>1
      <3>3. s \in panel.seen \/ Broken(r, s) \/ Beyond(s)
        BY <2>1, <2>3, <3>2 DEF PanelSound
      <3> QED
        BY <1>5, <3>3
    <2>4. \A r, s : Broken(r, s)' = Broken(r, s)
      BY DEF Broken
    <2> QED
      BY <2>1, <2>2, <2>3, <2>4 DEF PanelSound, ToldOnceInOrder
  <1> QED
    BY <1>4, <1>6

(* Isolation once a transaction wrote no more than its own.                *)
LEMMA StillIsolated ==
    ASSUME DeskInv, NEW t \in Slots, Running(t), ~Running(t)', UNCHANGED clock,
           \A u \in Slots : u # t => (Running(u)' <=> Running(u)),
           DOMAIN basket' \subseteq DOMAIN basket \cup {t},
           \A l \in DOMAIN line' \cup DOMAIN payment' :
                l \in DOMAIN line \cup DOMAIN payment \/ l[1] = t,
           \A r \in trail' : r \in trail \/ r.at = t
    PROVE  Isolated'
  <1>1. t <= clock /\ clock \in Nat /\ MaxTx \in Nat
    BY DeskAssumption DEF DeskInv, JobsSound, SceneSound
  <1>2. ASSUME NEW u \in Slots, Running(u)' \/ clock' < u
        PROVE  Unwritten(u)'
    <2>1. u # t
      BY <1>1, <1>2 DEF Slots
    <2>2. Unwritten(u)
      BY <1>2, <2>1 DEF DeskInv, Isolated
    <2> QED
      BY <2>1, <2>2 DEF Unwritten
  <1> QED
    BY <1>2 DEF Isolated

LEMMA StoryStays ==
    ASSUME DeskInv, UNCHANGED <<basket, line>>, DOMAIN payment' = DOMAIN payment,
           trail \subseteq trail',
           \A r \in trail' : r \in trail \/ r.kind # "planner_fell_back"
    PROVE  BasketIsWhole'
  <1>1. \A b : (\E r \in trail' : r.at = b /\ r.kind = "planner_fell_back")
               <=> \E r \in trail : r.at = b /\ r.kind = "planner_fell_back"
    OBVIOUS
  <1> QED
    BY <1>1 DEF DeskInv, BasketIsWhole

-----------------------------------------------------------------------------
(* A line is approved, paid or confirmed. *)

LEMMA HeldFinite ==
    ASSUME TablesSound, NEW s
    PROVE  /\ IsFiniteSet(Held(s)) /\ Held(s) \subseteq DOMAIN payment
           /\ \A p \in Held(s) : payment[p].amount \in Nat
  <1>1. Held(s) \in SUBSET DOMAIN payment /\ IsFiniteSet(DOMAIN payment)
    BY DEF Held, TablesSound
  <1>2. IsFiniteSet(Held(s))
    BY <1>1, FS_Subset
  <1>3. \A p \in DOMAIN payment : payment[p].amount \in Nat
    BY DEF TablesSound, Payment
  <1> QED
    BY <1>1, <1>2, <1>3

HeldAmounts(s) == [p \in Held(s) |-> payment[p].amount]

(* The limits bear a reservation that shrinks.                             *)
LEMMA MoneyKept ==
    ASSUME DeskInv, NEW t \in Slots,
           \A u \in Slots : Making(u)' => Making(u) /\ job'[u] = job[u],
           reserved' \in [0 .. MaxTx -> Nat],
           \A s \in 0 .. MaxTx : /\ reserved'[s] = SumFunction(HeldAmounts(s)')
                                 /\ reserved'[s] <= reserved[s]
    PROVE  MoneySound'
  <1>0. MaxDaily \in Nat
    BY DeskAssumption
  <1>1. \A s \in 0 .. MaxTx : /\ reserved[s] \in Nat /\ reserved'[s] \in Nat
                              /\ reserved'[s] <= reserved[s] /\ reserved[s] <= MaxDaily
    BY DEF DeskInv, MoneySound
  <1>2. \A s \in 0 .. MaxTx : reserved'[s] <= MaxDaily
    BY <1>0, <1>1
  <1>3. ASSUME NEW u \in Slots, Making(u)'
        PROVE  reserved'[job'[u].store] + job'[u].claimed <= MaxDaily
    <2>1. Making(u) /\ job'[u] = job[u]
      BY <1>3
    <2>2. job[u] \in BasketJobs
      BY <2>1, MakingJob DEF DeskInv
    <2>3. job[u].store \in 0 .. MaxTx /\ job[u].claimed \in Nat
      BY <2>2 DEF BasketJobs
    <2>4. reserved[job[u].store] + job[u].claimed <= MaxDaily
      BY <2>1 DEF DeskInv, MoneySound
    <2> DEFINE n == reserved[job[u].store]
               m == reserved'[job[u].store]
               c == job[u].claimed
    <2>5. n \in Nat /\ m \in Nat /\ c \in Nat /\ m <= n /\ n + c <= MaxDaily
      BY <1>1, <2>3, <2>4
    <2>6. m + c <= MaxDaily
      <3> HIDE DEF n, m, c
      <3> QED
        BY <1>0, <2>5
    <2> QED
      BY <2>1, <2>6
  <1>4. ASSUME NEW u \in Slots, NEW v \in Slots, u # v, Making(u)', Making(v)',
               job'[u].store = job'[v].store
        PROVE  job'[u].claimed = 0 \/ job'[v].claimed = 0
    BY <1>4 DEF DeskInv, MoneySound
  <1> QED
    BY <1>1, <1>2, <1>3, <1>4 DEF MoneySound, HeldAmounts

LEMMA MovesSound ==
    ASSUME DeskInv, NEW t \in Slots, NEW kind \in {"approve", "pay", "confirm"},
           NEW from \in States \ {"DENIED", "FAILED"}, NEW to \in States \ {"DENIED"},
           NEW kinds \in SUBSET (EventKinds \ {"planner_fell_back"}),
           Moves(t, kind, from, to, kinds),
           reserved' = IF to = "FAILED"
                       THEN [reserved EXCEPT ![payment[job[t].purchase].store] =
                                                @ - payment[job[t].purchase].amount]
                       ELSE reserved
    PROVE  DeskInv'
  <1>0. PICK p : p = job[t].purchase
    OBVIOUS
  <1>a. PICK store : store = payment[p].store
    OBVIOUS
  <1>b. PICK amount : amount = payment[p].amount
    OBVIOUS
  <1>1. Running(t) /\ p \in DOMAIN payment
    BY <1>0, RunningJob DEF Moves, DeskInv
  <1>2. /\ payment[p] \in Payment /\ payment[p].state = from
        /\ store \in Nat /\ amount \in Nat
    BY <1>0, <1>1, <1>a, <1>b DEF DeskInv, TablesSound, Payment, Moves
  <1>3. /\ UNCHANGED <<clock, panel, mode, stores, basket, line>>
        /\ payment' = [payment EXCEPT ![p].state = to]
        /\ trail' = trail \cup Rows(t, kinds, 0, 0) /\ job' = [job EXCEPT ![t] = Over]
    BY <1>0 DEF Moves
  <1>4. /\ DOMAIN payment' = DOMAIN payment
        /\ payment'[p] = [payment[p] EXCEPT !.state = to]
        /\ \A q \in DOMAIN payment : q # p => payment'[q] = payment[q]
    BY <1>1, <1>3
  <1>5. /\ payment'[p] \in Payment /\ payment'[p].state = to
        /\ payment'[p].store = store /\ payment'[p].amount = amount
    BY <1>2, <1>4, <1>a, <1>b DEF Payment
  <1>6. clock \in Nat
    BY DeskAssumption DEF DeskInv, SceneSound
  <1>7. /\ JobsSound' /\ ~Running(t)' /\ ~Making(t)'
        /\ \A u \in Slots : u # t => /\ job'[u] = job[u]
                                     /\ Running(u)' <=> Running(u)
                                     /\ Making(u)' <=> Making(u)
    BY <1>3, <1>4, <1>6, JobEnds DEF DeskInv
  <1>8. SceneSound'
    BY <1>3 DEF DeskInv, SceneSound
  <1>9. Rows(t, kinds, 0, 0) \in SUBSET RowsOf(t) /\ IsFiniteSet(Rows(t, kinds, 0, 0))
    BY <1>1, RowsAreRows DEF DeskInv
  <1>10. TrailSound' /\ PanelSound'
    BY <1>1, <1>3, <1>9, TrailGrows
  <1>11. \A r \in trail' : r \in trail \/ (r.at = t /\ r.kind # "planner_fell_back")
    BY <1>3 DEF Rows, Row
  <1>12. Isolated'
    BY <1>1, <1>3, <1>4, <1>7, <1>11, StillIsolated
  <1>13. BasketIsWhole'
    BY <1>3, <1>4, <1>11, StoryStays
  <1>14. TablesSound'
    BY <1>3, <1>4, <1>5 DEF DeskInv, TablesSound
  <1>15. MoneySound'
    <2>1. reserved \in [0 .. MaxTx -> Nat] /\ \A s \in 0 .. MaxTx :
              reserved[s] = SumFunction(HeldAmounts(s)) /\ reserved[s] \in Nat
      BY DEF DeskInv, MoneySound, HeldAmounts
    <2>2. ASSUME NEW s, s # store \/ to # "FAILED"
          PROVE  HeldAmounts(s)' = HeldAmounts(s)
      <3>1. Held(s)' = Held(s)
        BY <1>a, <1>1, <1>2, <1>4, <1>5, <2>2 DEF Held
      <3>2. \A q \in Held(s) : payment'[q].amount = payment[q].amount
        BY <1>b, <1>4, <1>5 DEF Held
      <3> QED
        BY <3>1, <3>2 DEF HeldAmounts
    <2>3. CASE to # "FAILED"
      <3>1. reserved' = reserved
        BY <2>3
      <3> QED
        BY <1>7, <2>1, <2>2, <2>3, <3>1, MoneyKept
    <2>4. CASE to = "FAILED"
      <3>1. reserved' = [reserved EXCEPT ![store] = @ - amount]
        BY <2>4, <1>0, <1>a, <1>b
      <3>2. store \in 0 .. MaxTx
        BY <1>1, <1>a DEF DeskInv, TablesSound
      <3>3. Held(store)' = Held(store) \ {p} /\ p \in Held(store)
        BY <1>a, <1>1, <1>2, <1>4, <1>5, <2>4 DEF Held
      <3>4. /\ SumFunction(HeldAmounts(store)') = SumFunction(HeldAmounts(store)) - amount
            /\ SumFunction(HeldAmounts(store)') \in Nat
        <4> DEFINE f == HeldAmounts(store)
                   S == Held(store)
                   T == S \ {p}
                   g == [q \in T |-> payment[q].amount]
        <4>1. IsFiniteSet(S) /\ \A q \in S : f[q] \in Int
          BY HeldFinite DEF DeskInv, HeldAmounts
        <4>2. DOMAIN f = S /\ DOMAIN g = T /\ \A q \in T : g[q] = f[q]
          BY DEF HeldAmounts
        <4>3. f[p] = amount
          BY <3>3, <1>b DEF HeldAmounts
        <4>4. HeldAmounts(store)' = g
          <5>1. \A q \in T : payment'[q].amount = payment[q].amount
            BY <1>4 DEF Held
          <5> QED
            BY <1>4, <1>5, <3>3, <5>1 DEF HeldAmounts
        <4>5. SumFunction(g) = SumFunction(f) - f[p]
          <5>1. p \in S
            BY <3>3
          <5> HIDE DEF f, g, S
          <5> QED
            BY <4>1, <4>2, <5>1, RowRemoved
        <4>6. SumFunction(g) \in Nat
          <5>1. IsFiniteSet(T) /\ DOMAIN g = T /\ \A q \in T : g[q] \in Nat
            <6>1. \A q \in T : g[q] \in Nat
              BY HeldFinite DEF DeskInv
            <6>2. T \in SUBSET S
              OBVIOUS
            <6> HIDE DEF S, T
            <6>3. IsFiniteSet(T)
              BY <4>1, <6>2, FS_Subset
            <6> QED
              BY <4>2, <6>1, <6>3
          <5> HIDE DEF g, T
          <5> QED
            BY <5>1, ColumnNat
        <4> QED
          BY <4>3, <4>4, <4>5, <4>6
      <3>5. \A s \in 0 .. MaxTx : s # store => reserved'[s] = reserved[s]
        BY <2>1, <3>1
      <3>6. reserved'[store] = reserved[store] - amount /\ reserved[store] \in Nat
        BY <2>1, <3>1, <3>2
      <3>7. reserved'[store] = SumFunction(HeldAmounts(store)')
        BY <2>1, <3>2, <3>4, <3>6
      <3>8. \A s \in 0 .. MaxTx : /\ reserved'[s] = SumFunction(HeldAmounts(s)')
                                  /\ reserved'[s] <= reserved[s] /\ reserved'[s] \in Nat
        <4> TAKE s \in 0 .. MaxTx
        <4>1. CASE s = store
          <5> DEFINE n == reserved[store]
                     m == reserved'[store]
          <5>1. m = n - amount /\ n \in Nat /\ m \in Nat /\ amount \in Nat
            BY <1>2, <3>4, <3>6, <3>7
          <5>2. m <= n
            <6> HIDE DEF n, m
            <6> QED
              BY <5>1
          <5> QED
            BY <3>7, <4>1, <5>1, <5>2
        <4>2. CASE s # store
          BY <2>1, <2>2, <3>5, <4>2
        <4> QED
          BY <4>1, <4>2
      <3>9. reserved' \in [0 .. MaxTx -> Nat]
        <4>1. DOMAIN reserved' = 0 .. MaxTx
          BY <2>1, <3>1
        <4>2. reserved' = [s \in 0 .. MaxTx |-> reserved'[s]]
          BY <2>1, <3>1
        <4> QED
          BY <3>8, <4>2
      <3> QED
        BY <1>7, <3>8, <3>9, MoneyKept
    <2> QED
      BY <2>3, <2>4
  <1> QED
    BY <1>7, <1>8, <1>10, <1>12, <1>13, <1>14, <1>15 DEF DeskInv

-----------------------------------------------------------------------------
(* A reset seeds a store. *)

LEMMA ResetSound ==
    ASSUME DeskInv, NEW t \in Slots, CommitReset(t)
    PROVE  DeskInv'
  <1>1. /\ Running(t) /\ UNCHANGED <<clock, panel, mode, basket, line, payment, reserved>>
        /\ stores' = stores \cup {t} /\ trail' = trail \cup Rows(t, {"store_reset"}, 0, 0)
        /\ job' = [job EXCEPT ![t] = Over]
    BY DEF CommitReset
  <1>2. clock \in Nat /\ MaxTx \in Nat
    BY DeskAssumption DEF DeskInv, SceneSound
  <1>3. /\ JobsSound' /\ ~Running(t)' /\ ~Making(t)'
        /\ \A u \in Slots : u # t => /\ job'[u] = job[u]
                                     /\ Running(u)' <=> Running(u)
                                     /\ Making(u)' <=> Making(u)
    BY <1>1, <1>2, JobEnds DEF DeskInv
  <1>4. SceneSound'
    BY <1>1, <1>2 DEF DeskInv, SceneSound, Slots
  <1>5. TrailSound' /\ PanelSound'
    <2>1. /\ Rows(t, {"store_reset"}, 0, 0) \in SUBSET RowsOf(t)
          /\ IsFiniteSet(Rows(t, {"store_reset"}, 0, 0))
      <3>1. {"store_reset"} \in SUBSET EventKinds
        BY DEF EventKinds
      <3> QED
        BY <1>1, <3>1, RowsAreRows DEF DeskInv
    <2> QED
      BY <1>1, <2>1, TrailGrows
  <1>6. \A r \in trail' : r \in trail \/ (r.at = t /\ r.kind # "planner_fell_back")
    BY <1>1 DEF Rows, Row
  <1>7. Isolated'
    BY <1>1, <1>3, <1>6, StillIsolated
  <1>8. BasketIsWhole'
    BY <1>1, <1>6, StoryStays
  <1>9. TablesSound'
    BY <1>1 DEF DeskInv, TablesSound
  <1>10. MoneySound'
    <2>1. \A s : HeldAmounts(s)' = HeldAmounts(s)
      BY <1>1 DEF HeldAmounts, Held
    <2>2. reserved \in [0 .. MaxTx -> Nat] /\ \A s \in 0 .. MaxTx :
              reserved[s] = SumFunction(HeldAmounts(s)) /\ reserved[s] \in Nat
      BY DEF DeskInv, MoneySound, HeldAmounts
    <2> QED
      BY <1>1, <1>3, <2>1, <2>2, MoneyKept
  <1> QED
    BY <1>3, <1>4, <1>5, <1>7, <1>8, <1>9, <1>10 DEF DeskInv

-----------------------------------------------------------------------------
(* A basket is decided line by line and committed as a whole. *)

LEMMA LineAmountNat ==
    ASSUME NEW l \in Proposals, ~Refused(l)
    PROVE  LineAmount(l) \in Nat
  <1>1. Price[l.sku] \in Nat /\ l.quantity \in Nat
    BY DeskAssumption DEF Refused, Proposals
  <1>2. \A a, b \in Nat : a * b \in Nat
    OBVIOUS
  <1> QED
    BY <1>1, <1>2 DEF LineAmount

LEMMA DraftFacts ==
    ASSUME NEW j \in BasketJobs, Drafted(j)
    PROVE  /\ Len(j.verdicts) \in Nat /\ Len(j.plan) \in Nat /\ Len(j.verdicts) <= Len(j.plan)
           /\ DOMAIN j.plan = 1 .. Len(j.plan) /\ DOMAIN j.verdicts = 1 .. Len(j.verdicts)
           /\ \A i \in 1 .. Len(j.plan) : j.plan[i] \in Proposals
           /\ \A i \in 1 .. Len(j.verdicts) :
                /\ j.verdicts[i] \in {None, "DENIED", "APPROVAL_REQUIRED", "AUTHORIZED"}
                /\ j.verdicts[i] # None => LineAmount(j.plan[i]) \in Nat
           /\ IsFiniteSet(Claims(j)) /\ j.claimed \in Nat /\ j.store \in 0 .. MaxTx
  <1>1. /\ j.plan \in Seq(Proposals) /\ j.claimed \in Nat /\ j.store \in 0 .. MaxTx
        /\ j.verdicts \in Seq({None, "DENIED", "APPROVAL_REQUIRED", "AUTHORIZED"})
    BY DEF BasketJobs
  <1>2. /\ Len(j.verdicts) \in Nat /\ Len(j.plan) \in Nat /\ Len(j.verdicts) <= Len(j.plan)
        /\ DOMAIN j.plan = 1 .. Len(j.plan) /\ DOMAIN j.verdicts = 1 .. Len(j.verdicts)
        /\ \A i \in 1 .. Len(j.plan) : j.plan[i] \in Proposals
        /\ \A i \in 1 .. Len(j.verdicts) :
                j.verdicts[i] \in {None, "DENIED", "APPROVAL_REQUIRED", "AUTHORIZED"}
    BY <1>1 DEF Drafted
  <1>3. \A i \in 1 .. Len(j.verdicts) : j.verdicts[i] # None => LineAmount(j.plan[i]) \in Nat
    <2> TAKE i \in 1 .. Len(j.verdicts)
    <2>1. i \in 1 .. Len(j.plan)
      BY <1>2
    <2>2. j.verdicts[i] # None => ~Refused(j.plan[i])
      BY DEF Drafted
    <2> QED
      BY <1>2, <2>1, <2>2, LineAmountNat
  <1>4. IsFiniteSet(Claims(j))
    <2> DEFINE at == 1 .. Len(j.verdicts)
    <2>1. Claims(j) \in SUBSET at
      BY DEF Claims
    <2>2. IsFiniteSet(at)
      BY <1>2, FS_Interval
    <2> HIDE DEF at
    <2> QED
      BY <2>1, <2>2, FS_Subset
  <1> QED
    BY <1>1, <1>2, <1>3, <1>4

Bought(j) == { i \in DOMAIN j.plan : j.verdicts[i] # None }

Stripped(j, i) == DOMAIN j.plan[i].discarded # {}

(* What a committed basket adds to the three tables.                       *)
Adds(t, j) ==
    /\ DOMAIN basket' = DOMAIN basket \cup {t}
    /\ \A b \in DOMAIN basket : basket'[b] = basket[b]
    /\ basket'[t] = [store |-> j.store, asked |-> j.asked, used |-> j.used, lines |-> Len(j.plan)]
    /\ DOMAIN line' = DOMAIN line \cup ({t} \X (1 .. Len(j.plan)))
    /\ \A l \in DOMAIN line : line'[l] = line[l]
    /\ \A i \in 1 .. Len(j.plan) : line'[<<t, i>>] =
          [store |-> j.store, bought |-> i \in Bought(j), discarded |-> Stripped(j, i)]
    /\ DOMAIN payment' = DOMAIN payment \cup ({t} \X Bought(j))
    /\ \A p \in DOMAIN payment : payment'[p] = payment[p]
    /\ \A i \in Bought(j) : payment'[<<t, i>>] =
          [store |-> j.store, amount |-> LineAmount(j.plan[i]), state |-> j.verdicts[i]]

LEMMA CommitAdds ==
    ASSUME DeskInv, NEW t \in Slots, CommitBasket(t), NEW j, j = job[t]
    PROVE  /\ Making(t) /\ j \in BasketJobs /\ Drafted(j)
           /\ j.used \in Modes /\ Len(j.verdicts) = Len(j.plan)
           /\ Adds(t, j)
  <1>1. /\ Making(t) /\ j \in BasketJobs /\ Drafted(j)
        /\ j.used \in Modes /\ Len(j.verdicts) = Len(j.plan)
    <2>1. Making(t) /\ j.used # None /\ Len(j.verdicts) = Len(j.plan)
      BY DEF CommitBasket, Making
    <2>2. j \in BasketJobs /\ Drafted(j)
      BY <2>1, MakingJob DEF DeskInv
    <2> QED
      BY <2>1, <2>2 DEF BasketJobs
  <1>2. Unwritten(t)
    BY <1>1 DEF DeskInv, Isolated, Making
  <1>3. DOMAIN j.plan = 1 .. Len(j.plan)
    BY <1>1, DraftFacts
  <1> DEFINE bs == [b \in {t} |-> [store |-> j.store, asked |-> j.asked, used |-> j.used,
                                   lines |-> Len(j.plan)]]
             ls == [l \in {t} \X DOMAIN j.plan |->
                      [store |-> j.store, bought |-> l[2] \in Bought(j),
                       discarded |-> Stripped(j, l[2])]]
             ps == [p \in {t} \X Bought(j) |->
                      [store |-> j.store, amount |-> LineAmount(j.plan[p[2]]),
                       state |-> j.verdicts[p[2]]]]
  <1>4. basket' = With(basket, bs)
    BY DEF CommitBasket
  <1>5. line' = With(line, ls)
    BY DEF CommitBasket, Bought, Stripped
  <1>6. payment' = With(payment, ps)
    BY DEF CommitBasket, Bought, Amount, LineAmount
  <1>7. DOMAIN bs = {t} /\ DOMAIN ls = {t} \X (1 .. Len(j.plan)) /\ DOMAIN ps = {t} \X Bought(j)
    BY <1>3
  <1>8. /\ DOMAIN basket \cap DOMAIN bs = {} /\ DOMAIN line \cap DOMAIN ls = {}
        /\ DOMAIN payment \cap DOMAIN ps = {}
    BY <1>2, <1>7 DEF Unwritten
  <1>9. /\ bs[t] = [store |-> j.store, asked |-> j.asked, used |-> j.used, lines |-> Len(j.plan)]
        /\ \A i \in 1 .. Len(j.plan) : ls[<<t, i>>] =
              [store |-> j.store, bought |-> i \in Bought(j), discarded |-> Stripped(j, i)]
        /\ \A i \in Bought(j) : ps[<<t, i>>] =
              [store |-> j.store, amount |-> LineAmount(j.plan[i]), state |-> j.verdicts[i]]
    BY <1>3
  <1> HIDE DEF bs, ls, ps
  <1>10. /\ DOMAIN basket' = DOMAIN basket \cup {t}
         /\ \A b \in DOMAIN basket : basket'[b] = basket[b]
         /\ basket'[t] = bs[t]
    BY <1>4, <1>7, <1>8 DEF With
  <1>11. /\ DOMAIN line' = DOMAIN line \cup ({t} \X (1 .. Len(j.plan)))
         /\ \A l \in DOMAIN line : line'[l] = line[l]
         /\ \A i \in 1 .. Len(j.plan) : line'[<<t, i>>] = ls[<<t, i>>]
    BY <1>5, <1>7, <1>8 DEF With
  <1>12. /\ DOMAIN payment' = DOMAIN payment \cup ({t} \X Bought(j))
         /\ \A p \in DOMAIN payment : payment'[p] = payment[p]
         /\ \A i \in Bought(j) : payment'[<<t, i>>] = ps[<<t, i>>]
    BY <1>6, <1>7, <1>8 DEF With
  <1> QED
    BY <1>1, <1>9, <1>10, <1>11, <1>12 DEF Adds

LEMMA AddedTables ==
    ASSUME DeskInv, NEW t \in Slots, Making(t), NEW j \in BasketJobs, Drafted(j), j.used \in Modes,
           Len(j.verdicts) = Len(j.plan), Adds(t, j)
    PROVE  TablesSound'
  <1> DEFINE n == Len(j.plan)
  <1>1. /\ n \in Nat /\ DOMAIN j.plan = 1 .. n
        /\ \A i \in 1 .. n : Stripped(j, i) \in BOOLEAN
        /\ \A i \in 1 .. n : j.verdicts[i] # None =>
              /\ LineAmount(j.plan[i]) \in Nat
              /\ j.verdicts[i] \in States
        /\ j.store \in 0 .. MaxTx /\ j.store \in Nat /\ j.asked \in Modes
        /\ j.used = "LIVE" => n <= MaxLines
    <2>1. \A i \in 1 .. n : Stripped(j, i) \in BOOLEAN
      BY DEF Stripped
    <2>2. \A i \in 1 .. n : j.verdicts[i] # None =>
            LineAmount(j.plan[i]) \in Nat /\ j.verdicts[i] \in States
      BY DraftFacts DEF States
    <2>3. n \in Nat /\ DOMAIN j.plan = 1 .. n /\ j.store \in 0 .. MaxTx
      BY DraftFacts
    <2>4. j.store \in Nat
      BY <2>3, DeskAssumption
    <2>5. j.asked \in Modes
      BY DEF BasketJobs
    <2>6. j.used = "LIVE" => n <= MaxLines
      BY DEF Drafted
    <2> QED
      BY <2>1, <2>2, <2>3, <2>4, <2>5, <2>6
  <1> HIDE DEF n
  <1>2. Bought(j) \subseteq 1 .. n /\ \A i \in Bought(j) : j.verdicts[i] # None
    BY <1>1 DEF Bought
  <1>3. TablesSound
    BY DEF DeskInv
  <1>4. /\ DOMAIN basket' \subseteq Slots
        /\ \A b \in DOMAIN basket' :
             /\ basket'[b] \in Basket
             /\ basket'[b].used = "LIVE" => basket'[b].lines <= MaxLines
    <2>1. DOMAIN basket' = DOMAIN basket \cup {t} /\ \A b \in DOMAIN basket : basket'[b] = basket[b]
      BY DEF Adds
    <2>2. basket'[t] = [store |-> j.store, asked |-> j.asked, used |-> j.used, lines |-> n]
      BY DEF Adds, n
    <2>3. basket'[t] \in Basket /\ (basket'[t].used = "LIVE" => basket'[t].lines <= MaxLines)
      BY <1>1, <2>2 DEF Basket
    <2> QED
      BY <1>3, <2>1, <2>3 DEF TablesSound
  <1>5. DOMAIN line' \subseteq LineIds /\ \A l \in DOMAIN line' : line'[l] \in Line
    <2>1. DOMAIN line' = DOMAIN line \cup ({t} \X (1 .. n)) /\ \A l \in DOMAIN line : line'[l] = line[l]
      BY DEF Adds, n
    <2>2. \A i \in 1 .. n : line'[<<t, i>>] =
            [store |-> j.store, bought |-> i \in Bought(j), discarded |-> Stripped(j, i)]
      BY DEF Adds, n
    <2>3. \A i \in 1 .. n : line'[<<t, i>>] \in Line
      <3> TAKE i \in 1 .. n
      <3>1. j.store \in Nat /\ Stripped(j, i) \in BOOLEAN
        BY <1>1
      <3>2. CASE i \in Bought(j)
        <4>1. line'[<<t, i>>] = [store |-> j.store, bought |-> TRUE, discarded |-> Stripped(j, i)]
          BY <2>2, <3>2, Zenon
        <4> QED
          BY <3>1, <4>1 DEF Line
      <3>3. CASE i \notin Bought(j)
        <4>1. line'[<<t, i>>] = [store |-> j.store, bought |-> FALSE, discarded |-> Stripped(j, i)]
          <5>1. (i \in Bought(j)) = FALSE
            BY <3>3
          <5>2. line'[<<t, i>>] = [store |-> j.store, bought |-> (i \in Bought(j)),
                                  discarded |-> Stripped(j, i)]
            BY <2>2, Zenon
          <5> QED
            BY <5>1, <5>2
        <4> QED
          BY <3>1, <4>1 DEF Line
      <3> QED
        BY <3>2, <3>3
    <2>4. {t} \X (1 .. n) \subseteq LineIds
      BY <1>1 DEF LineIds
    <2>5. \A l \in {t} \X (1 .. n) : \E i \in 1 .. n : l = <<t, i>>
      OBVIOUS
    <2> QED
      BY <1>3, <2>1, <2>3, <2>4, <2>5 DEF TablesSound
  <1>6. /\ DOMAIN payment' \subseteq LineIds /\ IsFiniteSet(DOMAIN payment')
        /\ \A p \in DOMAIN payment' :
             /\ payment'[p] \in Payment
             /\ p[1] \in DOMAIN basket' /\ payment'[p].store = basket'[p[1]].store
             /\ payment'[p].store \in 0 .. MaxTx
    <2>1. /\ DOMAIN payment' = DOMAIN payment \cup ({t} \X Bought(j))
          /\ \A p \in DOMAIN payment : payment'[p] = payment[p]
          /\ DOMAIN basket' = DOMAIN basket \cup {t} /\ \A b \in DOMAIN basket : basket'[b] = basket[b]
      BY DEF Adds
    <2>2. \A i \in Bought(j) : payment'[<<t, i>>] =
            [store |-> j.store, amount |-> LineAmount(j.plan[i]), state |-> j.verdicts[i]]
      BY DEF Adds
    <2>3. \A i \in Bought(j) : payment'[<<t, i>>] \in Payment /\ payment'[<<t, i>>].store = j.store
      <3> TAKE i \in Bought(j)
      <3>1. LineAmount(j.plan[i]) \in Nat /\ j.verdicts[i] \in States /\ j.store \in Nat
        BY <1>1, <1>2
      <3>2. payment'[<<t, i>>] =
              [store |-> j.store, amount |-> LineAmount(j.plan[i]), state |-> j.verdicts[i]]
        BY <2>2, Zenon
      <3> QED
        BY <3>1, <3>2 DEF Payment
    <2>4. basket'[t].store = j.store
      BY DEF Adds
    <2>5. {t} \X Bought(j) \subseteq LineIds
      BY <1>1, <1>2 DEF LineIds
    <2>6. \A p \in {t} \X Bought(j) : \E i \in Bought(j) : p = <<t, i>>
      OBVIOUS
    <2>7. IsFiniteSet(DOMAIN payment')
      <3>1. IsFiniteSet(1 .. n)
        <4>1. n \in Int /\ 1 \in Int
          BY <1>1
        <4> QED
          BY <4>1, FS_Interval
      <3>2. IsFiniteSet(Bought(j)) /\ IsFiniteSet({t})
        BY <1>2, <3>1, FS_Subset, FS_Singleton
      <3>3. IsFiniteSet({t} \X Bought(j))
        BY <3>2, FS_Product
      <3>4. IsFiniteSet(DOMAIN payment)
        BY <1>3 DEF TablesSound
      <3>5. IsFiniteSet(DOMAIN payment \cup ({t} \X Bought(j)))
        BY <3>3, <3>4, FS_Union
      <3> QED
        BY <2>1, <3>5
    <2>8. \A p \in {t} \X Bought(j) :
             /\ payment'[p] \in Payment
             /\ p[1] \in DOMAIN basket' /\ payment'[p].store = basket'[p[1]].store
             /\ payment'[p].store \in 0 .. MaxTx
      BY <1>1, <2>1, <2>3, <2>4, <2>6
    <2> QED
      BY <1>3, <2>1, <2>5, <2>7, <2>8 DEF TablesSound
  <1> QED
    BY <1>4, <1>5, <1>6 DEF TablesSound

LEMMA LineRowsAreRows ==
    ASSUME JobsSound, NEW t \in Slots, Running(t), NEW i \in Nat,
           job[t].plan[i].discarded \in Discards
    PROVE  /\ LineRows(t, i) \in SUBSET RowsOf(t) /\ IsFiniteSet(LineRows(t, i))
           /\ \A r \in LineRows(t, i) : r.kind # "planner_fell_back"
  <1> DEFINE said    == job[t].plan[i].discarded
             asides  == (IF DOMAIN said = {} THEN {} ELSE {"planner_fields_discarded"})
                           \cup (IF job[t].verdicts[i] = None THEN {"line_stopped"} ELSE {})
             decided == {IF job[t].verdicts[i] = None THEN "catalog_purchase_rejected"
                         ELSE "payment_transition"}
  <1>1. LineRows(t, i) = ({ProposedRow(t, i)} \cup Rows(t, asides, i, i - 1)) \cup Rows(t, decided, i, 0)
    BY DEF LineRows
  <1>2. asides \in SUBSET (EventKinds \ {"planner_fell_back"})
    BY DEF EventKinds
  <1>3. decided \in SUBSET (EventKinds \ {"planner_fell_back"})
    BY DEF EventKinds
  <1> HIDE DEF asides, decided
  <1>4. ProposedRow(t, i) \in RowsOf(t) /\ ProposedRow(t, i).kind # "planner_fell_back"
    <2> DEFINE position == IF "position" \in DOMAIN said THEN said["position"] ELSE i - 1
               readable == \A f \in DOMAIN said \cap {"line_id", "amount_minor", "amount"} :
                              said[f] # Garbled
    <2>1. position \in Int
      BY PositionsSaid
    <2>2. readable \in BOOLEAN
      OBVIOUS
    <2>3. ProposedRow(t, i) = Row(t, "planner_line_proposed", i, position, readable)
      BY DEF ProposedRow
    <2> HIDE DEF position, readable
    <2>4. job[t].store \in Nat /\ t \in Nat
      BY RunningJob, DeskAssumption DEF Slots
    <2>5. "planner_line_proposed" \in EventKinds
      BY DEF EventKinds
    <2> QED
      BY <2>1, <2>2, <2>3, <2>4, <2>5 DEF Row, RowsOf, AuditRow
  <1>5. Rows(t, asides, i, i - 1) \in SUBSET RowsOf(t) /\ IsFiniteSet(Rows(t, asides, i, i - 1))
    <2>1. i - 1 \in Int /\ asides \in SUBSET EventKinds
      BY <1>2
    <2> QED
      BY <2>1, RowsAreRows
  <1>6. Rows(t, decided, i, 0) \in SUBSET RowsOf(t) /\ IsFiniteSet(Rows(t, decided, i, 0))
    <2>1. decided \in SUBSET EventKinds
      BY <1>3
    <2> QED
      BY <2>1, RowsAreRows
  <1>7. IsFiniteSet(LineRows(t, i))
    <2>1. IsFiniteSet({ProposedRow(t, i)})
      BY FS_Singleton
    <2> DEFINE first == {ProposedRow(t, i)} \cup Rows(t, asides, i, i - 1)
               last  == Rows(t, decided, i, 0)
    <2>2. IsFiniteSet(first) /\ IsFiniteSet(last)
      BY <1>5, <1>6, <2>1, FS_Union
    <2>3. LineRows(t, i) = first \cup last
      BY <1>1
    <2> HIDE DEF first, last
    <2>4. IsFiniteSet(first \cup last)
      BY <2>2, FS_Union
    <2> QED
      BY <2>3, <2>4
  <1>8. \A r \in Rows(t, asides, i, i - 1) : r.kind \in asides
    BY DEF Rows, Row
  <1>9. \A r \in Rows(t, decided, i, 0) : r.kind \in decided
    BY DEF Rows, Row
  <1> QED
    BY <1>1, <1>2, <1>3, <1>4, <1>5, <1>6, <1>7, <1>8, <1>9

LEMMA FellBackRows ==
    ASSUME JobsSound, NEW t \in Slots, Running(t)
    PROVE  /\ Rows(t, {"planner_fell_back"}, 0, 0) \in SUBSET RowsOf(t)
           /\ IsFiniteSet(Rows(t, {"planner_fell_back"}, 0, 0))
  <1>1. {"planner_fell_back"} \in SUBSET EventKinds
    BY DEF EventKinds
  <1> QED
    BY <1>1, RowsAreRows

LEMMA AddedRows ==
    ASSUME DeskInv, NEW t \in Slots, CommitBasket(t), Making(t), NEW j \in BasketJobs, j = job[t],
           Drafted(j), Len(j.verdicts) = Len(j.plan)
    PROVE  /\ \E new \in SUBSET RowsOf(t) : IsFiniteSet(new) /\ trail' = trail \cup new
           /\ trail \subseteq trail'
           /\ \A r \in trail' : r \in trail \/ r.at = t
           /\ (\E r \in trail' : r.at = t /\ r.kind = "planner_fell_back") <=> FellBack(t)
  <1> DEFINE n     == Len(j.plan)
             story == IF FellBack(t) THEN Rows(t, {"planner_fell_back"}, 0, 0) ELSE {}
             each  == { LineRows(t, i) : i \in 1 .. n }
             new   == story \cup UNION each
  <1>1. Running(t) /\ DOMAIN j.plan = 1 .. n /\ n \in Nat
    BY DraftFacts DEF Making
  <1>2. trail' = trail \cup new
    <2>1. trail' = (trail \cup story) \cup UNION { LineRows(t, i) : i \in DOMAIN j.plan }
      BY DEF CommitBasket
    <2> HIDE DEF story
    <2> QED
      BY <1>1, <2>1
  <1>3. \A i \in 1 .. n :
          /\ LineRows(t, i) \in SUBSET RowsOf(t) /\ IsFiniteSet(LineRows(t, i))
          /\ \A r \in LineRows(t, i) : r.kind # "planner_fell_back"
    <2> TAKE i \in 1 .. n
    <2>1. j.plan[i] \in Proposals /\ i \in Nat
      BY <1>1, DraftFacts
    <2>2. job[t].plan[i].discarded \in Discards
      BY <2>1 DEF Proposals
    <2> QED
      BY <1>1, <2>1, <2>2, LineRowsAreRows DEF DeskInv
  <1>4. /\ UNION each \in SUBSET RowsOf(t) /\ IsFiniteSet(UNION each)
        /\ \A r \in UNION each : r.kind # "planner_fell_back"
    <2>1. IsFiniteSet(each)
      <3> DEFINE f == [i \in 1 .. n |-> LineRows(t, i)]
      <3>1. IsFiniteSet(1 .. n)
        BY <1>1, FS_Interval
      <3>2. f \in Surjection(1 .. n, each)
        BY DEF Surjection
      <3> HIDE DEF f, each
      <3> QED
        BY <3>1, <3>2, FS_Surjection
    <2>2. \A S \in each : IsFiniteSet(S) /\ S \in SUBSET RowsOf(t)
                            /\ \A r \in S : r.kind # "planner_fell_back"
      BY <1>3
    <2> HIDE DEF each
    <2> QED
      BY <2>1, <2>2, FS_UNION
  <1>5. story \in SUBSET RowsOf(t) /\ IsFiniteSet(story)
    <2>1. /\ Rows(t, {"planner_fell_back"}, 0, 0) \in SUBSET RowsOf(t)
          /\ IsFiniteSet(Rows(t, {"planner_fell_back"}, 0, 0))
      BY <1>1, FellBackRows DEF DeskInv
    <2> QED
      BY <2>1, FS_EmptySet
  <1>6. /\ FellBack(t) => \E r \in story : r.at = t /\ r.kind = "planner_fell_back"
        /\ ~FellBack(t) => story = {}
    <2>1. CASE FellBack(t)
      <3>1. Row(t, "planner_fell_back", 0, 0, TRUE) \in story
        BY <2>1 DEF Rows
      <3>2. /\ Row(t, "planner_fell_back", 0, 0, TRUE).at = t
            /\ Row(t, "planner_fell_back", 0, 0, TRUE).kind = "planner_fell_back"
        BY DEF Row
      <3> HIDE DEF story
      <3> QED
        BY <2>1, <3>1, <3>2
    <2>2. CASE ~FellBack(t)
      BY <2>2
    <2> QED
      BY <2>1, <2>2
  <1> HIDE DEF each, story
  <1>7. new \in SUBSET RowsOf(t) /\ IsFiniteSet(new)
    BY <1>4, <1>5, FS_Union
  <1>8. \A r \in trail : r.at # t
    BY <1>1 DEF DeskInv, Isolated, Unwritten
  <1>9. \A r \in new : r.at = t
    BY <1>7 DEF RowsOf
  <1>10. (\E r \in trail' : r.at = t /\ r.kind = "planner_fell_back") <=> FellBack(t)
    BY <1>2, <1>4, <1>6, <1>8, <1>9
  <1> HIDE DEF new, n
  <1> QED
    BY <1>2, <1>7, <1>9, <1>10

LEMMA AddedWhole ==
    ASSUME DeskInv, NEW t \in Slots, Making(t), NEW j \in BasketJobs, j = job[t], Drafted(j),
           Len(j.verdicts) = Len(j.plan), Adds(t, j), trail \subseteq trail',
           \A r \in trail' : r \in trail \/ r.at = t,
           (\E r \in trail' : r.at = t /\ r.kind = "planner_fell_back") <=> FellBack(t)
    PROVE  BasketIsWhole'
  <1>1. Unwritten(t) /\ BasketIsWhole
    BY DEF DeskInv, Isolated, Making
  <1>2. DOMAIN j.plan = 1 .. Len(j.plan) /\ Bought(j) \subseteq 1 .. Len(j.plan)
    BY DraftFacts DEF Bought
  <1>3. DOMAIN line' = UNION { {b} \X (1 .. basket'[b].lines) : b \in DOMAIN basket' }
    <2> DEFINE Of(b)  == {b} \X (1 .. basket[b].lines)
               Now(b) == {b} \X (1 .. basket'[b].lines)
    <2>1. DOMAIN line = UNION { Of(b) : b \in DOMAIN basket }
      BY <1>1 DEF BasketIsWhole
    <2>2. \A b \in DOMAIN basket : Now(b) = Of(b)
      BY DEF Adds
    <2>3. Now(t) = {t} \X (1 .. Len(j.plan))
      BY DEF Adds
    <2>4. DOMAIN line' = DOMAIN line \cup Now(t) /\ DOMAIN basket' = DOMAIN basket \cup {t}
      BY <2>3 DEF Adds
    <2> HIDE DEF Of, Now
    <2>5. DOMAIN line' = UNION { Now(b) : b \in DOMAIN basket' }
      BY <2>1, <2>2, <2>4
    <2> QED
      BY <2>5 DEF Now
  <1>4. DOMAIN payment' = { l \in DOMAIN line' : line'[l].bought }
    <2>1. /\ DOMAIN line' = DOMAIN line \cup ({t} \X (1 .. Len(j.plan)))
          /\ DOMAIN payment' = DOMAIN payment \cup ({t} \X Bought(j))
          /\ DOMAIN payment = { l \in DOMAIN line : line[l].bought }
          /\ \A l \in DOMAIN line : line'[l] = line[l]
      BY <1>1 DEF Adds, BasketIsWhole
    <2>2. \A i \in 1 .. Len(j.plan) : line'[<<t, i>>].bought <=> i \in Bought(j)
      <3> TAKE i \in 1 .. Len(j.plan)
      <3>1. line'[<<t, i>>] = [store |-> j.store, bought |-> i \in Bought(j),
                              discarded |-> Stripped(j, i)]
        BY Zenon DEF Adds
      <3>2. line'[<<t, i>>].bought = (i \in Bought(j))
        BY <3>1
      <3> QED
        BY <3>2
    <2>3. \A l \in {t} \X (1 .. Len(j.plan)) :
             \E i \in 1 .. Len(j.plan) : l = <<t, i>>
      OBVIOUS
    <2>4. \A l \in {t} \X (1 .. Len(j.plan)) : line'[l].bought <=> l \in {t} \X Bought(j)
      BY <2>2, <2>3
    <2>5. {t} \X Bought(j) \subseteq {t} \X (1 .. Len(j.plan))
      BY <1>2
    <2> QED
      BY <2>1, <2>4, <2>5
  <1>5. ASSUME NEW b \in DOMAIN basket'
        PROVE  (basket'[b].asked = "LIVE" /\ basket'[b].used # "LIVE")
                  <=> \E r \in trail' : r.at = b /\ r.kind = "planner_fell_back"
    <2>1. CASE b = t
      BY <2>1 DEF Adds, FellBack
    <2>2. CASE b # t
      <3>1. b \in DOMAIN basket /\ basket'[b] = basket[b]
        BY <2>2 DEF Adds
      <3>2. (\E r \in trail' : r.at = b /\ r.kind = "planner_fell_back")
              <=> \E r \in trail : r.at = b /\ r.kind = "planner_fell_back"
        BY <2>2
      <3> QED
        BY <1>1, <3>1, <3>2 DEF BasketIsWhole
    <2> QED
      BY <2>1, <2>2
  <1> QED
    BY <1>3, <1>4, <1>5 DEF BasketIsWhole

LEMMA AddedHeld ==
    ASSUME DeskInv, NEW t \in Slots, Making(t), NEW j \in BasketJobs, Drafted(j),
           Len(j.verdicts) = Len(j.plan), Adds(t, j)
    PROVE  /\ \A s : s # j.store => HeldAmounts(s)' = HeldAmounts(s)
           /\ SumFunction(HeldAmounts(j.store)') = SumFunction(HeldAmounts(j.store)) + j.claimed
  <1>0. PICK store : store = j.store
    OBVIOUS
  <1>1. /\ DOMAIN payment' = DOMAIN payment \cup ({t} \X Bought(j))
        /\ \A p \in DOMAIN payment : payment'[p] = payment[p]
        /\ \A i \in Bought(j) : /\ payment'[<<t, i>>].store = store
                                /\ payment'[<<t, i>>].amount = LineAmount(j.plan[i])
                                /\ payment'[<<t, i>>].state = j.verdicts[i]
    <2>1. /\ DOMAIN payment' = DOMAIN payment \cup ({t} \X Bought(j))
          /\ \A p \in DOMAIN payment : payment'[p] = payment[p]
      BY DEF Adds
    <2>2. \A i \in Bought(j) : payment'[<<t, i>>] =
            [store |-> j.store, amount |-> LineAmount(j.plan[i]), state |-> j.verdicts[i]]
      BY DEF Adds
    <2>3. \A i \in Bought(j) : /\ payment'[<<t, i>>].store = j.store
                              /\ payment'[<<t, i>>].amount = LineAmount(j.plan[i])
                              /\ payment'[<<t, i>>].state = j.verdicts[i]
      <3> TAKE i \in Bought(j)
      <3>1. payment'[<<t, i>>] =
              [store |-> j.store, amount |-> LineAmount(j.plan[i]), state |-> j.verdicts[i]]
        BY <2>2, Zenon
      <3> QED
        BY <3>1
    <2> QED
      BY <1>0, <2>1, <2>3
  <1>2. Claims(j) = { i \in Bought(j) : j.verdicts[i] # "DENIED" }
    BY DraftFacts DEF Claims, Bought
  <1>3. \A i \in Bought(j) : j.verdicts[i] # "FAILED" /\ LineAmount(j.plan[i]) \in Nat
    <2>1. \A i \in Bought(j) : i \in 1 .. Len(j.verdicts) /\ j.verdicts[i] # None
      BY DraftFacts DEF Bought
    <2> QED
      BY <2>1, DraftFacts
  <1>4. \A p \in {t} \X Bought(j) : \E i \in Bought(j) : p = <<t, i>>
    OBVIOUS
  <1>5. \A p \in DOMAIN payment : p \notin {t} \X Bought(j)
    BY DEF DeskInv, Isolated, Making, Unwritten
  <1>6. ASSUME NEW s, s # store
        PROVE  HeldAmounts(s)' = HeldAmounts(s)
    <2>1. Held(s)' = Held(s)
      BY <1>1, <1>4, <1>6 DEF Held
    <2>2. \A p \in Held(s) : payment'[p].amount = payment[p].amount
      BY <1>1 DEF Held
    <2> QED
      BY <2>1, <2>2 DEF HeldAmounts
  <1> DEFINE h   == [i \in Claims(j) |-> <<t, i>>]
             New == { h[i] : i \in Claims(j) }
             S   == Held(store)
             f   == [i \in Claims(j) |-> LineAmount(j.plan[i])]
             g   == HeldAmounts(store)'
  <1>7. Held(store)' = S \cup New /\ S \cap New = {}
    <2>1. \A p \in DOMAIN payment : p \in Held(store)' <=> p \in S
      BY <1>1 DEF Held
    <2>2. \A p \in {t} \X Bought(j) : p \in Held(store)' <=> p \in New
      <3> TAKE p \in {t} \X Bought(j)
      <3>1. PICK i \in Bought(j) : p = <<t, i>>
        BY <1>4
      <3>2. p \in Held(store)' <=> i \in Claims(j)
        BY <1>1, <1>2, <1>3, <3>1 DEF Held
      <3>3. p \in New <=> i \in Claims(j)
        BY <3>1
      <3> QED
        BY <3>2, <3>3
    <2>3. Held(store)' \subseteq DOMAIN payment' /\ S \subseteq DOMAIN payment
      BY DEF Held
    <2>4. New \subseteq {t} \X Bought(j)
      <3>1. Claims(j) \subseteq Bought(j)
        BY <1>2
      <3> QED
        BY <3>1
    <2> HIDE DEF New, S
    <2> QED
      BY <1>1, <1>5, <2>1, <2>2, <2>3, <2>4
  <1>8. /\ \A p \in S : g[p] = HeldAmounts(store)[p] /\ g[p] \in Int
        /\ \A i \in Claims(j) : g[h[i]] = f[i] /\ f[i] \in Int
    <2>1. DOMAIN g = S \cup New /\ \A p \in S \cup New : g[p] = payment'[p].amount
      BY <1>7 DEF HeldAmounts
    <2>2. \A p \in S : payment'[p].amount = payment[p].amount /\ payment[p].amount \in Nat
      BY <1>1, HeldFinite DEF DeskInv
    <2>3. \A p \in S : HeldAmounts(store)[p] = payment[p].amount
      BY DEF HeldAmounts
    <2>4. \A i \in Claims(j) : h[i] = <<t, i>> /\ h[i] \in New
                              /\ payment'[<<t, i>>].amount = LineAmount(j.plan[i])
                              /\ LineAmount(j.plan[i]) \in Nat
      BY <1>1, <1>2, <1>3
    <2>5. \A i \in Claims(j) : f[i] = LineAmount(j.plan[i])
      OBVIOUS
    <2> HIDE DEF f, g, S, New, h
    <2>6. \A p \in S : g[p] = HeldAmounts(store)[p] /\ g[p] \in Int
      BY <2>1, <2>2, <2>3
    <2>7. \A i \in Claims(j) : g[h[i]] = f[i] /\ f[i] \in Int
      <3> TAKE i \in Claims(j)
      <3>1. g[h[i]] = payment'[h[i]].amount
        BY <2>1, <2>4
      <3>2. /\ h[i] = <<t, i>> /\ payment'[<<t, i>>].amount = LineAmount(j.plan[i])
            /\ LineAmount(j.plan[i]) \in Nat /\ f[i] = LineAmount(j.plan[i])
        BY <2>4, <2>5, Zenon
      <3>3. g[h[i]] = LineAmount(j.plan[i])
        BY <3>1, <3>2, Zenon
      <3> QED
        BY <3>2, <3>3
    <2> QED
      BY <2>6, <2>7
  <1>9. IsFiniteSet(S) /\ IsFiniteSet(Claims(j))
    BY HeldFinite, DraftFacts DEF DeskInv
  <1>10. SumFunctionOnSet(g, New) = SumFunctionOnSet(f, Claims(j))
    <2>1. \A x, y \in Claims(j) : h[x] = h[y] => x = y
      OBVIOUS
    <2> HIDE DEF f, g, h
    <2> QED
      BY <1>8, <1>9, <2>1, SumRenamed
  <1>11. SumFunctionOnSet(g, S \cup New) = SumFunctionOnSet(g, S) + SumFunctionOnSet(g, New)
    <2>1. IsFiniteSet(New)
      <3>1. h \in Surjection(Claims(j), New)
        BY DEF Surjection
      <3> HIDE DEF New, h
      <3> QED
        BY <1>9, <3>1, FS_Surjection
    <2>2. \A p \in S \cup New : g[p] \in Int
      BY <1>8
    <2> HIDE DEF g, S, New
    <2> QED
      BY <1>7, <1>9, <2>1, <2>2, SumDisjoint
  <1>12. SumFunctionOnSet(g, S) = SumFunctionOnSet(HeldAmounts(store), S)
    <2> HIDE DEF g, S
    <2> QED
      BY <1>8, <1>9, SumSame
  <1>13. /\ SumFunction(g) = SumFunctionOnSet(g, S \cup New)
         /\ SumFunction(HeldAmounts(store)) = SumFunctionOnSet(HeldAmounts(store), S)
         /\ SumFunction(f) = SumFunctionOnSet(f, Claims(j))
    <2>1. DOMAIN g = S \cup New /\ DOMAIN HeldAmounts(store) = S /\ DOMAIN f = Claims(j)
      BY <1>7 DEF HeldAmounts
    <2> HIDE DEF g, f, S, New
    <2> QED
      BY <2>1 DEF SumFunction
  <1>14. SumFunction(f) = j.claimed
    BY DEF Drafted
  <1>15. SumFunction(g) = SumFunction(HeldAmounts(store)) + j.claimed
    BY <1>10, <1>11, <1>12, <1>13, <1>14
  <1> QED
    BY <1>0, <1>6, <1>15

LEMMA AddedMoney ==
    ASSUME DeskInv, NEW t \in Slots, Making(t), NEW j \in BasketJobs, j = job[t], Drafted(j),
           Len(j.verdicts) = Len(j.plan), Adds(t, j), ~Making(t)',
           \A u \in Slots : u # t => job'[u] = job[u] /\ (Making(u)' <=> Making(u)),
           reserved' = [reserved EXCEPT ![j.store] = @ + j.claimed]
    PROVE  MoneySound'
  <1> DEFINE sum(s) == SumFunction(HeldAmounts(s))
  <1>1. /\ reserved \in [0 .. MaxTx -> Nat]
        /\ \A s \in 0 .. MaxTx : reserved[s] = SumFunction(HeldAmounts(s)) /\ reserved[s] <= MaxDaily
        /\ reserved[j.store] + j.claimed <= MaxDaily
    BY DEF DeskInv, MoneySound, HeldAmounts
  <1>2. j.store \in 0 .. MaxTx /\ j.claimed \in Nat /\ MaxDaily \in Nat
    BY DraftFacts, DeskAssumption
  <1>3. /\ reserved' \in [0 .. MaxTx -> Nat]
        /\ reserved'[j.store] = reserved[j.store] + j.claimed
        /\ \A s \in 0 .. MaxTx : s # j.store => reserved'[s] = reserved[s]
    BY <1>1, <1>2
  <1>4. ASSUME NEW s \in 0 .. MaxTx
        PROVE  reserved'[s] = SumFunction(HeldAmounts(s)') /\ reserved'[s] <= MaxDaily
    <2>1. CASE s = j.store
      <3>1. SumFunction(HeldAmounts(j.store)') = SumFunction(HeldAmounts(j.store)) + j.claimed
        BY AddedHeld
      <3>2. reserved'[j.store] = SumFunction(HeldAmounts(j.store)')
        BY <1>1, <1>2, <1>3, <3>1
      <3> QED
        BY <1>1, <1>3, <2>1, <3>2
    <2>2. CASE s # j.store
      <3>1. HeldAmounts(s)' = HeldAmounts(s)
        BY <2>2, AddedHeld
      <3> QED
        BY <1>1, <1>3, <2>2, <3>1
    <2> QED
      BY <2>1, <2>2
  <1>5. ASSUME NEW u \in Slots, Making(u)'
        PROVE  reserved'[job'[u].store] + job'[u].claimed <= MaxDaily
    <2>1. u # t /\ Making(u) /\ job'[u] = job[u]
      BY <1>5
    <2>2. job[u] \in BasketJobs
      BY <2>1, MakingJob DEF DeskInv
    <2>3. job[u].store \in 0 .. MaxTx /\ job[u].claimed \in Nat
      BY <2>2 DEF BasketJobs
    <2>4. reserved[job[u].store] + job[u].claimed <= MaxDaily
      BY <2>1 DEF DeskInv, MoneySound
    <2>5. CASE job[u].store # j.store
      BY <1>3, <2>1, <2>3, <2>4, <2>5
    <2>6. CASE job[u].store = j.store
      <3>1. job[u].claimed = 0 \/ j.claimed = 0
        BY <2>1, <2>6 DEF DeskInv, MoneySound
      <3> DEFINE n == reserved[j.store]
                 m == reserved'[j.store]
                 c == job[u].claimed
                 d == j.claimed
      <3>2. n \in Nat /\ m = n + d /\ c \in Nat /\ d \in Nat /\ n + c <= MaxDaily
            /\ n + d <= MaxDaily /\ (c = 0 \/ d = 0)
        BY <1>1, <1>2, <1>3, <2>3, <2>4, <2>6, <3>1
      <3>3. m + c <= MaxDaily
        <4> HIDE DEF n, m, c, d
        <4> QED
          BY <1>2, <3>2
      <3> QED
        BY <2>1, <2>6, <3>3
    <2> QED
      BY <2>5, <2>6
  <1>6. ASSUME NEW u \in Slots, NEW v \in Slots, u # v, Making(u)', Making(v)',
               job'[u].store = job'[v].store
        PROVE  job'[u].claimed = 0 \/ job'[v].claimed = 0
    <2>1. u # t /\ v # t
      BY <1>6
    <2> QED
      BY <1>6, <2>1 DEF DeskInv, MoneySound
  <1> QED
    BY <1>3, <1>4, <1>5, <1>6 DEF MoneySound, HeldAmounts

LEMMA CommitSound ==
    ASSUME DeskInv, NEW t \in Slots, CommitBasket(t)
    PROVE  DeskInv'
  <1>0. PICK j : j = job[t]
    OBVIOUS
  <1>1. /\ Making(t) /\ Running(t) /\ j \in BasketJobs /\ Drafted(j)
        /\ j.used \in Modes /\ Len(j.verdicts) = Len(j.plan) /\ Adds(t, j)
    BY <1>0, CommitAdds DEF Making
  <1>2. /\ job' = [job EXCEPT ![t] = Over] /\ UNCHANGED <<clock, panel, mode, stores>>
        /\ reserved' = [reserved EXCEPT ![j.store] = @ + j.claimed]
    BY <1>0 DEF CommitBasket
  <1>3. clock \in Nat /\ MaxTx \in Nat
    BY DeskAssumption DEF DeskInv, SceneSound
  <1>4. DOMAIN payment \subseteq DOMAIN payment'
    BY <1>1 DEF Adds
  <1>5. /\ JobsSound' /\ ~Running(t)' /\ ~Making(t)'
        /\ \A u \in Slots : u # t => /\ job'[u] = job[u]
                                     /\ Running(u)' <=> Running(u)
                                     /\ Making(u)' <=> Making(u)
    BY <1>2, <1>3, <1>4, JobEnds DEF DeskInv
  <1>6. SceneSound'
    BY <1>2 DEF DeskInv, SceneSound
  <1>7. /\ \E new \in SUBSET RowsOf(t) : IsFiniteSet(new) /\ trail' = trail \cup new
        /\ trail \subseteq trail'
        /\ \A r \in trail' : r \in trail \/ r.at = t
        /\ (\E r \in trail' : r.at = t /\ r.kind = "planner_fell_back") <=> FellBack(t)
    BY <1>0, <1>1, AddedRows
  <1>8. TrailSound' /\ PanelSound'
    BY <1>1, <1>2, <1>7, TrailGrows
  <1>9. Isolated'
    <2>1. DOMAIN basket' \subseteq DOMAIN basket \cup {t}
      BY <1>1 DEF Adds
    <2>2. \A l \in DOMAIN line' \cup DOMAIN payment' :
                l \in DOMAIN line \cup DOMAIN payment \/ l[1] = t
      BY <1>1 DEF Adds
    <2> QED
      BY <1>1, <1>2, <1>5, <1>7, <2>1, <2>2, StillIsolated
  <1>10. BasketIsWhole'
    BY <1>0, <1>1, <1>7, AddedWhole
  <1>11. TablesSound'
    BY <1>1, AddedTables
  <1>12. MoneySound'
    BY <1>0, <1>1, <1>2, <1>5, AddedMoney
  <1> QED
    BY <1>5, <1>6, <1>8, <1>9, <1>10, <1>11, <1>12 DEF DeskInv

(* A draft with one verdict more, which claims n.                          *)
Further(j, v, n) == [j EXCEPT !.verdicts = Append(@, v), !.claimed = @ + n]

LEMMA ClaimAdded ==
    ASSUME NEW j \in BasketJobs, Drafted(j), NEW v, NEW i, i = Len(j.verdicts) + 1,
           i <= Len(j.plan), v \in {None, "DENIED", "APPROVAL_REQUIRED", "AUTHORIZED"},
           v # None => ~Refused(j.plan[i]), NEW n,
           n = IF v \notin {None, "DENIED"} THEN LineAmount(j.plan[i]) ELSE 0,
           NEW k, k = Further(j, v, n)
    PROVE  /\ k \in BasketJobs /\ Drafted(k) /\ n \in Nat
           /\ k.store = j.store /\ k.kind = "basket" /\ k.claimed = j.claimed + n
  <1>1. /\ Len(j.verdicts) \in Nat /\ Len(j.plan) \in Nat /\ Len(j.verdicts) <= Len(j.plan)
        /\ DOMAIN j.verdicts = 1 .. Len(j.verdicts)
        /\ \A m \in 1 .. Len(j.plan) : j.plan[m] \in Proposals
        /\ \A m \in 1 .. Len(j.verdicts) : j.verdicts[m] # None => LineAmount(j.plan[m]) \in Nat
        /\ IsFiniteSet(Claims(j)) /\ j.claimed \in Nat
    BY DraftFacts
  <1>2. /\ k.kind = "basket" /\ k.store = j.store /\ k.asked = j.asked /\ k.used = j.used
        /\ k.plan = j.plan /\ k.verdicts = Append(j.verdicts, v) /\ k.claimed = j.claimed + n
        /\ k = [kind |-> k.kind, store |-> k.store, asked |-> k.asked, used |-> k.used,
                plan |-> k.plan, verdicts |-> k.verdicts, claimed |-> k.claimed]
    BY DEF BasketJobs, Further
  <1>3. j.verdicts \in Seq({None, "DENIED", "APPROVAL_REQUIRED", "AUTHORIZED"})
    BY DEF BasketJobs
  <1>4. /\ k.verdicts \in Seq({None, "DENIED", "APPROVAL_REQUIRED", "AUTHORIZED"})
        /\ Len(k.verdicts) = i /\ k.verdicts[i] = v
        /\ \A m \in 1 .. Len(j.verdicts) : k.verdicts[m] = j.verdicts[m]
    <2> DEFINE V == {None, "DENIED", "APPROVAL_REQUIRED", "AUTHORIZED"}
               s == j.verdicts
    <2>1. s \in Seq(V) /\ v \in V
      BY <1>3
    <2> HIDE DEF V, s
    <2>2. /\ Append(s, v) \in Seq(V) /\ Len(Append(s, v)) = Len(s) + 1
          /\ Append(s, v)[Len(s) + 1] = v
          /\ \A m \in 1 .. Len(s) : Append(s, v)[m] = s[m]
      BY <2>1, AppendProperties
    <2>3. k.verdicts = Append(s, v) /\ i = Len(s) + 1
      BY <1>2 DEF s
    <2> QED
      BY <2>2, <2>3 DEF s, V
  <1>5. n \in Nat
    <2>1. CASE v \notin {None, "DENIED"}
      <3>1. j.plan[i] \in Proposals /\ ~Refused(j.plan[i])
        BY <1>1, <2>1
      <3> QED
        BY <2>1, <3>1, LineAmountNat
    <2>2. CASE v \in {None, "DENIED"}
      BY <2>2
    <2> QED
      BY <2>1, <2>2
  <1>6. k \in BasketJobs
    <2>1. k.claimed \in Nat
      BY <1>1, <1>2, <1>5
    <2>2. /\ k.kind \in {"basket"} /\ k.store \in 0 .. MaxTx /\ k.asked \in Modes
          /\ k.used \in Modes \cup {None} /\ k.plan \in Seq(Proposals)
      BY <1>2 DEF BasketJobs
    <2> QED
      BY <1>2, <1>4, <2>1, <2>2 DEF BasketJobs
  <1>7. \A m \in 1 .. i : m = i \/ m \in 1 .. Len(j.verdicts)
    BY <1>1
  <1>8. i \notin Claims(j) /\ Claims(j) \subseteq 1 .. Len(j.verdicts)
        /\ Claims(k) = IF v \notin {None, "DENIED"} THEN Claims(j) \cup {i} ELSE Claims(j)
    <2> DEFINE old == 1 .. Len(j.verdicts)
    <2>1. /\ i \notin old /\ i \in 1 .. i
          /\ \A m \in old : m \in 1 .. i
          /\ \A m \in 1 .. i : m = i \/ m \in old
      BY <1>1
    <2>2. Claims(j) = { m \in old : j.verdicts[m] \notin {None, "DENIED"} }
      BY DEF Claims
    <2>3. Claims(k) = { m \in 1 .. i : k.verdicts[m] \notin {None, "DENIED"} }
      BY <1>4 DEF Claims
    <2>4. k.verdicts[i] = v /\ \A m \in old : k.verdicts[m] = j.verdicts[m]
      BY <1>4
    <2> HIDE DEF old
    <2>5. \A m : m \in Claims(k) <=> m \in Claims(j) \/ (m = i /\ v \notin {None, "DENIED"})
      BY <2>1, <2>2, <2>3, <2>4
    <2>6. Claims(j) \subseteq old /\ i \notin Claims(j)
      BY <2>1, <2>2
    <2> QED
      BY <2>5, <2>6 DEF old
  <1> DEFINE f == [m \in Claims(j) |-> LineAmount(j.plan[m])]
             g == [m \in Claims(k) |-> LineAmount(k.plan[m])]
  <1>9. /\ SumFunction(f) = j.claimed
        /\ Len(j.verdicts) <= Len(j.plan) /\ (j.used = None => j.plan = <<>>)
        /\ (j.used = "LIVE" => Len(j.plan) <= MaxLines)
        /\ \A m \in 1 .. Len(j.verdicts) : j.verdicts[m] # None => ~Refused(j.plan[m])
    BY DEF Drafted
  <1>10. SumFunction(g) = k.claimed
    <2>1. CASE v \notin {None, "DENIED"}
      <3>1. Claims(k) = Claims(j) \cup {i} /\ i \notin Claims(j)
        BY <1>8, <2>1
      <3>2. DOMAIN f = Claims(j) /\ DOMAIN g = Claims(j) \cup {i}
        BY <3>1
      <3>3. \A m \in Claims(j) : f[m] \in Int /\ g[m] = f[m]
        <4> TAKE m \in Claims(j)
        <4>1. LineAmount(j.plan[m]) \in Nat
          BY <1>1, <1>8 DEF Claims
        <4>2. f[m] = LineAmount(j.plan[m]) /\ g[m] = LineAmount(j.plan[m])
          BY <1>2, <3>1
        <4> HIDE DEF f, g
        <4> QED
          BY <4>1, <4>2
      <3>4. g[i] = n
        BY <1>2, <2>1, <3>1
      <3> HIDE DEF f, g
      <3>5. SumFunction(g) = SumFunction(f) + g[i]
        <4>1. g[i] \in Int
          BY <1>5, <3>4
        <4> QED
          BY <1>1, <3>1, <3>2, <3>3, <4>1, RowAdded
      <3> QED
        BY <1>2, <1>9, <3>4, <3>5
    <2>2. CASE v \in {None, "DENIED"}
      <3>1. Claims(k) = Claims(j) /\ n = 0
        BY <1>8, <2>2
      <3>2. g = f
        BY <1>2, <3>1
      <3>3. k.claimed = j.claimed
        <4>1. k.claimed = j.claimed + n /\ j.claimed \in Nat /\ n = 0
          BY <1>1, <1>2, <3>1
        <4> QED
          BY <4>1
      <3> HIDE DEF f, g
      <3> QED
        BY <1>9, <3>2, <3>3
    <2> QED
      BY <2>1, <2>2
  <1>11. \A m \in 1 .. Len(k.verdicts) : k.verdicts[m] # None => ~Refused(k.plan[m])
    <2> SUFFICES ASSUME NEW m \in 1 .. i, k.verdicts[m] # None
                 PROVE  ~Refused(j.plan[m])
      BY <1>2, <1>4
    <2>1. CASE m = i
      BY <1>4, <2>1
    <2>2. CASE m \in 1 .. Len(j.verdicts)
      BY <1>4, <1>9, <2>2
    <2> QED
      BY <1>7, <2>1, <2>2
  <1>12. Len(k.verdicts) <= Len(k.plan)
    BY <1>2, <1>4
  <1> HIDE DEF f
  <1> QED
    BY <1>2, <1>5, <1>6, <1>9, <1>10, <1>11, <1>12 DEF Drafted

LEMMA VerdictIsOne ==
    ASSUME NEW t, NEW n
    PROVE  /\ Verdict(t, n) \in {"DENIED", "APPROVAL_REQUIRED", "AUTHORIZED"}
           /\ Verdict(t, n) # "DENIED" => ~(reserved[job[t].store] + Claimed(t) + n > MaxDaily)
  BY DEF Verdict

LEMMA DecideSound ==
    ASSUME DeskInv, NEW t \in Slots, Decide(t)
    PROVE  DeskInv'
  <1>0. PICK j : j = job[t]
    OBVIOUS
  <1>1. PICK i : i = Len(j.verdicts) + 1
    OBVIOUS
  <1>2. PICK v : v = IF Refused(j.plan[i]) THEN None ELSE Verdict(t, Amount(t, i))
    OBVIOUS
  <1>3. PICK n : n = IF v \notin {None, "DENIED"} THEN LineAmount(j.plan[i]) ELSE 0
    OBVIOUS
  <1>4. PICK k : k = Further(j, v, n)
    OBVIOUS
  <1>5. /\ Making(t) /\ Running(t) /\ Len(j.verdicts) < Len(j.plan)
        /\ v \notin {None, "DENIED"} => ~DayLocked(t, j.store)
        /\ job' = [job EXCEPT ![t] = k]
        /\ UNCHANGED <<clock, trail, panel, mode, stores, basket, line, payment, reserved>>
    <2>1. Making(t) /\ Running(t) /\ Len(j.verdicts) < Len(j.plan)
      BY <1>0 DEF Decide, Undecided, Making
    <2>2. UNCHANGED <<clock, trail, panel, mode, stores, basket, line, payment, reserved>>
      BY DEF Decide, panelVars
    <2>3. /\ v \notin {None, "DENIED"} => ~DayLocked(t, j.store)
          /\ job' = [job EXCEPT ![t].verdicts = Append(@, v), ![t].claimed  = @ + n]
      BY <1>0, <1>1, <1>2, <1>3 DEF Decide, Amount, LineAmount
    <2>4. job' = [job EXCEPT ![t] = k]
      BY <1>0, <1>4, <2>3 DEF DeskInv, JobsSound, Further
    <2> QED
      BY <2>1, <2>2, <2>3, <2>4
  <1>6. j \in BasketJobs /\ Drafted(j)
    BY <1>0, <1>5, MakingJob DEF DeskInv
  <1>7. /\ v \in {None, "DENIED", "APPROVAL_REQUIRED", "AUTHORIZED"}
        /\ v # None => ~Refused(j.plan[i])
    <2>1. CASE Refused(j.plan[i])
      BY <1>2, <2>1
    <2>2. CASE ~Refused(j.plan[i])
      BY <1>2, <2>2, VerdictIsOne
    <2> QED
      BY <2>1, <2>2
  <1>8. i <= Len(j.plan)
    BY <1>1, <1>5, <1>6, DraftFacts
  <1>9. /\ k \in BasketJobs /\ Drafted(k) /\ n \in Nat
        /\ k.store = j.store /\ k.kind = "basket" /\ k.claimed = j.claimed + n
    BY <1>1, <1>3, <1>4, <1>6, <1>7, <1>8, ClaimAdded
  <1>10. clock \in Nat /\ MaxTx \in Nat /\ MaxDaily \in Nat /\ t <= clock
    BY <1>5, DeskAssumption DEF DeskInv, SceneSound, JobsSound
  <1>11. k # Over /\ k \notin LineJobs
    BY <1>9, OverIsOver DEF LineJobs
  <1>12. JobsSound'
    <2>1. k \in {Over} \cup BasketJobs \cup LineJobs \cup ResetJobs
      BY <1>9
    <2>2. clock' >= clock /\ clock' \in Nat /\ DOMAIN payment \subseteq DOMAIN payment' /\ t <= clock'
      BY <1>5, <1>10
    <2> QED
      BY <1>5, <1>9, <1>10, <1>11, <2>1, <2>2, JobMoves DEF DeskInv
  <1>13. /\ job'[t] = k
         /\ \A u \in Slots : u # t =>
                /\ job'[u] = job[u]
                /\ Running(u)' <=> Running(u)
                /\ Making(u)' <=> Making(u)
    BY <1>5, OneJob DEF DeskInv
  <1>14. SceneSound' /\ PanelSound'
    <2>1. SceneSound'
      BY <1>5 DEF DeskInv, SceneSound
    <2>2. PanelSound'
      BY <1>5, PanelRests DEF DeskInv
    <2> QED
      BY <2>1, <2>2
  <1>15. Isolated'
    <2>1. \A u : Unwritten(u)' <=> Unwritten(u)
      BY <1>5 DEF Unwritten
    <2>2. \A u \in Slots : Running(u)' \/ clock' < u => Running(u) \/ clock < u
      BY <1>5, <1>13
    <2> QED
      BY <2>1, <2>2 DEF DeskInv, Isolated
  <1>16. TrailSound' /\ TablesSound' /\ BasketIsWhole'
    BY <1>5 DEF DeskInv, TrailSound, TablesSound, BasketIsWhole
  <1>17. MoneySound'
    <2>1. /\ reserved' \in [0 .. MaxTx -> Nat]
          /\ \A s \in 0 .. MaxTx :
              /\ reserved'[s] = SumFunction([p \in Held(s)' |-> payment'[p].amount])
              /\ reserved'[s] <= MaxDaily
      BY <1>5 DEF DeskInv, MoneySound, Held
    <2>2. reserved[j.store] \in Nat /\ j.claimed \in Nat /\ reserved[j.store] + j.claimed <= MaxDaily
      <3>1. j.store \in 0 .. MaxTx /\ j.claimed \in Nat
        BY <1>6, DraftFacts
      <3> QED
        BY <1>0, <1>5, <3>1 DEF DeskInv, MoneySound
    <2>3. reserved[j.store] + j.claimed + n <= MaxDaily
      <3>1. CASE v \notin {None, "DENIED"}
        <4>1. ~Refused(j.plan[i])
          BY <1>7, <3>1
        <4>2. v = Verdict(t, Amount(t, i)) /\ n = Amount(t, i)
          BY <1>0, <1>2, <1>3, <3>1, <4>1 DEF Amount, LineAmount
        <4>3. Claimed(t) = j.claimed
          BY <1>0, <1>5 DEF Claimed, Making
        <4>4. ~(reserved[j.store] + j.claimed + n > MaxDaily)
          <5>1. Verdict(t, n) # "DENIED"
            BY <3>1, <4>2
          <5> QED
            BY <1>0, <4>3, <5>1, VerdictIsOne
        <4> DEFINE a == reserved[j.store]
                   b == j.claimed
        <4>5. a \in Nat /\ b \in Nat /\ n \in Nat /\ ~(a + b + n > MaxDaily)
          BY <1>9, <2>2, <4>4
        <4>6. a + b + n <= MaxDaily
          <5> HIDE DEF a, b
          <5> QED
            BY <1>10, <4>5
        <4> QED
          BY <4>6
      <3>2. CASE v \in {None, "DENIED"}
        BY <1>3, <2>2, <3>2
      <3> QED
        BY <3>1, <3>2
    <2>4. ASSUME NEW u \in Slots, Making(u)'
          PROVE  reserved'[job'[u].store] + job'[u].claimed <= MaxDaily
      <3>1. CASE u = t
        <4>1. job'[u].store = j.store /\ job'[u].claimed = j.claimed + n /\ reserved' = reserved
          BY <1>5, <1>9, <1>13, <3>1
        <4> DEFINE a == reserved[j.store]
                   b == j.claimed
        <4>2. a \in Nat /\ b \in Nat /\ n \in Nat /\ a + b + n <= MaxDaily
          BY <1>9, <2>2, <2>3
        <4>3. a + (b + n) <= MaxDaily
          <5> HIDE DEF a, b
          <5> QED
            BY <1>10, <4>2
        <4> QED
          BY <4>1, <4>3
      <3>2. CASE u # t
        BY <1>5, <1>13, <2>4, <3>2 DEF DeskInv, MoneySound
      <3> QED
        BY <3>1, <3>2
    <2>5. ASSUME NEW u \in Slots, u # t, Making(u), job[u].store = j.store
          PROVE  job[u].claimed = 0 \/ j.claimed + n = 0
      <3>1. job[u] \in BasketJobs
        BY <2>5, MakingJob DEF DeskInv
      <3>2. job[u].claimed \in Nat
        BY <3>1 DEF BasketJobs
      <3>3. CASE v \notin {None, "DENIED"}
        <4>1. ~(job[u].claimed > 0)
          BY <1>5, <2>5, <3>3 DEF DayLocked, Making
        <4> QED
          BY <3>2, <4>1
      <3>4. CASE v \in {None, "DENIED"}
        <4>1. j.claimed + n = j.claimed
          BY <1>3, <2>2, <3>4
        <4>2. job[u].claimed = 0 \/ j.claimed = 0
          BY <1>0, <1>5, <2>5 DEF DeskInv, MoneySound
        <4> QED
          BY <4>1, <4>2
      <3> QED
        BY <3>3, <3>4
    <2>6. ASSUME NEW u \in Slots, NEW w \in Slots, u # w, Making(u)', Making(w)',
                 job'[u].store = job'[w].store
          PROVE  job'[u].claimed = 0 \/ job'[w].claimed = 0
      <3>1. CASE u = t
        BY <1>9, <1>13, <2>5, <2>6, <3>1
      <3>2. CASE w = t
        BY <1>9, <1>13, <2>5, <2>6, <3>2
      <3>3. CASE u # t /\ w # t
        BY <1>13, <2>6, <3>3 DEF DeskInv, MoneySound
      <3> QED
        BY <3>1, <3>2, <3>3
    <2> QED
      BY <2>1, <2>4, <2>6 DEF MoneySound
  <1> QED
    BY <1>12, <1>14, <1>15, <1>16, <1>17 DEF DeskInv

-----------------------------------------------------------------------------
(* Transactions begin, plan and break off; the process restarts. *)

LEMMA BeginSound ==
    ASSUME DeskInv, NEW j, Begin(j), mode' \in Modes,
           \/ /\ j \in BasketJobs /\ Drafted(j) /\ j.claimed = 0
           \/ j \in LineJobs /\ j.purchase \in DOMAIN payment
           \/ j \in ResetJobs
    PROVE  DeskInv'
  <1>1. /\ clock < MaxTx /\ clock' = clock + 1 /\ job' = [job EXCEPT ![clock + 1] = j]
        /\ UNCHANGED <<trail, panel, stores, basket, line, payment, reserved>>
    BY DEF Begin
  <1>2. clock \in Nat /\ MaxTx \in Nat /\ clock + 1 \in Slots
    BY <1>1, DeskAssumption DEF DeskInv, SceneSound, Slots
  <1>3. j \in BasketJobs \cup LineJobs \cup ResetJobs /\ j # Over
    BY OverIsOver
  <1>4. j \in BasketJobs => Drafted(j) /\ j.claimed = 0
    BY DEF BasketJobs, LineJobs, ResetJobs
  <1>5. j \in LineJobs => j.purchase \in DOMAIN payment
    BY DEF BasketJobs, LineJobs, ResetJobs
  <1>6. JobsSound'
    <2>1. /\ clock' >= clock /\ clock' \in Nat /\ clock + 1 <= clock'
          /\ DOMAIN payment \subseteq DOMAIN payment' /\ DOMAIN payment' = DOMAIN payment
      BY <1>1, <1>2
    <2>2. j \in {Over} \cup BasketJobs \cup LineJobs \cup ResetJobs
      BY <1>3
    <2> QED
      BY <1>1, <1>2, <1>4, <1>5, <2>1, <2>2, JobMoves DEF DeskInv
  <1>7. /\ job'[clock + 1] = j
        /\ \A u \in Slots : u # clock + 1 =>
                /\ job'[u] = job[u]
                /\ Running(u)' <=> Running(u)
                /\ Making(u)' <=> Making(u)
    BY <1>1, <1>2, OneJob DEF DeskInv
  <1>8. SceneSound'
    BY <1>1, <1>2 DEF DeskInv, SceneSound
  <1>9. PanelSound'
    BY <1>1, PanelRests DEF DeskInv
  <1>10. \A u \in Slots : Running(u)' \/ clock' < u => Running(u) \/ clock < u
    <2> TAKE u \in Slots
    <2>1. u \in Nat
      BY <1>2 DEF Slots
    <2>2. CASE u = clock + 1
      BY <1>2, <2>2
    <2>3. CASE u # clock + 1
      BY <1>1, <1>2, <1>7, <2>1, <2>3
    <2> QED
      BY <2>2, <2>3
  <1>11. \A u \in Slots : Making(u)' =>
                \/ job'[u].claimed = 0 /\ job'[u].store \in 0 .. MaxTx
                \/ /\ Making(u)
                   /\ job'[u].store = job[u].store /\ job'[u].claimed = job[u].claimed
    <2> TAKE u \in Slots
    <2>1. CASE u = clock + 1
      <3>1. Making(u)' => job'[u] = j /\ j.kind = "basket"
        BY <1>7, <2>1 DEF Making
      <3>2. j.kind = "basket" => j \in BasketJobs
        BY <1>3 DEF LineJobs, ResetJobs
      <3>3. j \in BasketJobs => j.claimed = 0 /\ j.store \in 0 .. MaxTx
        BY <1>4 DEF BasketJobs
      <3> QED
        BY <3>1, <3>2, <3>3
    <2>2. CASE u # clock + 1
      BY <1>7, <2>2
    <2> QED
      BY <2>1, <2>2
  <1>12. Isolated' /\ TrailSound' /\ TablesSound' /\ BasketIsWhole' /\ MoneySound'
    BY <1>1, <1>10, <1>11, NothingCommitted
  <1> QED
    BY <1>6, <1>8, <1>9, <1>12 DEF DeskInv

LEMMA NoClaims ==
    ASSUME NEW j, j.plan = <<>>, j.verdicts = <<>>, j.claimed = 0, j.used \in Modes \cup {None}
    PROVE  Drafted(j)
  <1>1. Claims(j) = {} /\ Len(j.verdicts) = 0 /\ Len(j.plan) = 0
    BY DEF Claims
  <1>2. SumFunction([i \in Claims(j) |-> LineAmount(j.plan[i])]) = 0
    <2> DEFINE f == [i \in Claims(j) |-> LineAmount(j.plan[i])]
    <2>1. DOMAIN f = {}
      BY <1>1
    <2> HIDE DEF f
    <2>2. SumFunction(f) = 0
      BY <2>1, SumEmpty DEF SumFunction
    <2> QED
      BY <2>2 DEF f
  <1>3. 0 <= MaxLines
    BY DeskAssumption
  <1> QED
    BY <1>1, <1>2, <1>3 DEF Drafted

LEMMA BeginBasketSound ==
    ASSUME DeskInv, BeginBasket
    PROVE  DeskInv'
  <1> DEFINE j == [kind |-> "basket", store |-> Newest, asked |-> mode, used |-> None, plan |-> <<>>,
                   verdicts |-> <<>>, claimed |-> 0]
  <1>1. Begin(j) /\ mode' = mode /\ mode \in Modes
    BY DEF BeginBasket, DeskInv, SceneSound
  <1>2. Newest \in 0 .. MaxTx
    BY NewestIsStore DEF DeskInv
  <1>3. j \in BasketJobs /\ j.claimed = 0
    BY <1>1, <1>2 DEF BasketJobs
  <1>4. Drafted(j)
    <2>1. j.plan = <<>> /\ j.verdicts = <<>> /\ j.claimed = 0 /\ j.used \in Modes \cup {None}
      OBVIOUS
    <2> HIDE DEF j
    <2> QED
      BY <2>1, NoClaims
  <1> HIDE DEF j
  <1> QED
    BY <1>1, <1>3, <1>4, BeginSound

LEMMA BeginLineSound ==
    ASSUME DeskInv, BeginLineOperation
    PROVE  DeskInv'
  <1>1. PICK p \in DOMAIN payment, k \in {"approve", "pay", "confirm"} :
            Begin([kind |-> k, store |-> Newest, purchase |-> p])
    BY DEF BeginLineOperation
  <1> DEFINE j == [kind |-> k, store |-> Newest, purchase |-> p]
  <1>2. Begin(j) /\ mode' \in Modes
    BY <1>1 DEF BeginLineOperation, DeskInv, SceneSound
  <1>3. Newest \in 0 .. MaxTx /\ p \in LineIds
    BY NewestIsStore DEF DeskInv, TablesSound
  <1>4. j \in LineJobs /\ j.purchase \in DOMAIN payment
    BY <1>3 DEF LineJobs
  <1> HIDE DEF j
  <1> QED
    BY <1>2, <1>4, BeginSound

LEMMA BeginResetSound ==
    ASSUME DeskInv, BeginReset
    PROVE  DeskInv'
  <1> DEFINE j == [kind |-> "reset", store |-> clock + 1]
  <1>1. Begin(j) /\ mode' \in Modes /\ clock < MaxTx
    BY DEF BeginReset, Begin, Modes
  <1>2. j \in ResetJobs
    BY <1>1, DeskAssumption DEF ResetJobs, DeskInv, SceneSound
  <1> HIDE DEF j
  <1> QED
    BY <1>1, <1>2, BeginSound

(* A step of one job that neither claims nor commits.                      *)
LEMMA JobStepSound ==
    ASSUME DeskInv, NEW t \in Slots, NEW k, job' = [job EXCEPT ![t] = k],
           UNCHANGED <<clock, trail, panel, mode, stores, basket, line, payment, reserved>>,
           \/ k = Over
           \/ /\ Making(t) /\ k \in BasketJobs /\ Drafted(k)
              /\ k.store = job[t].store /\ k.claimed = job[t].claimed
    PROVE  DeskInv'
  <1>1. clock \in Nat /\ clock' \in Nat /\ clock' >= clock /\ DOMAIN payment' = DOMAIN payment
    BY DeskAssumption DEF DeskInv, SceneSound
  <1>2. /\ k \in {Over} \cup BasketJobs \cup LineJobs \cup ResetJobs
        /\ k # Over => Making(t) /\ k \in BasketJobs /\ Drafted(k)
        /\ k \notin LineJobs
    BY OverIsOver DEF BasketJobs, LineJobs
  <1>3. k \in BasketJobs => Drafted(k)
    BY <1>2, OverIsOver
  <1>4. k # Over => t <= clock'
    BY <1>1, <1>2 DEF DeskInv, JobsSound, Making
  <1>5. JobsSound'
    <2>1. DOMAIN payment \subseteq DOMAIN payment'
      BY <1>1
    <2> QED
      BY <1>1, <1>2, <1>3, <1>4, <2>1, JobMoves DEF DeskInv
  <1>6. /\ job'[t] = k
        /\ \A u \in Slots : u # t =>
                /\ job'[u] = job[u]
                /\ Running(u)' <=> Running(u)
                /\ Making(u)' <=> Making(u)
    BY OneJob DEF DeskInv
  <1>7. SceneSound' /\ PanelSound'
    <2>1. SceneSound'
      BY DEF DeskInv, SceneSound
    <2>2. PanelSound'
      BY PanelRests DEF DeskInv
    <2> QED
      BY <2>1, <2>2
  <1>8. Running(t)' => k # Over
    BY <1>6 DEF Running
  <1>9. \A u \in Slots : Running(u)' \/ clock' < u => Running(u) \/ clock < u
    BY <1>2, <1>6, <1>8 DEF Making
  <1>10. \A u \in Slots : Making(u)' =>
                \/ job'[u].claimed = 0 /\ job'[u].store \in 0 .. MaxTx
                \/ /\ Making(u)
                   /\ job'[u].store = job[u].store /\ job'[u].claimed = job[u].claimed
    BY <1>2, <1>6, <1>8 DEF Making
  <1>11. Isolated' /\ TrailSound' /\ TablesSound' /\ BasketIsWhole' /\ MoneySound'
    BY <1>9, <1>10, NothingCommitted
  <1> QED
    BY <1>5, <1>7, <1>11 DEF DeskInv

LEMMA AbortSound ==
    ASSUME DeskInv, NEW t \in Slots, Abort(t)
    PROVE  DeskInv'
  BY JobStepSound DEF Abort, panelVars

LEMMA PlanSound ==
    ASSUME DeskInv, NEW t \in Slots, Plan(t)
    PROVE  DeskInv'
  <1>0. PICK j : j = job[t]
    OBVIOUS
  <1>a. PICK goal \in Goals : \E p \in Plans(j.asked, goal) :
            job' = [job EXCEPT ![t].used = p.used, ![t].plan = p.lines]
    BY <1>0 DEF Plan
  <1>1. PICK p \in Plans(j.asked, goal) :
            job' = [job EXCEPT ![t].used = p.used, ![t].plan = p.lines]
    BY <1>a
  <1>2. PICK k : k = [j EXCEPT !.used = p.used, !.plan = p.lines]
    OBVIOUS
  <1>3. /\ Making(t) /\ j.used = None
        /\ UNCHANGED <<clock, trail, panel, mode, stores, basket, line, payment, reserved>>
    BY <1>0 DEF Plan, Making, panelVars
  <1>4. job' = [job EXCEPT ![t] = k]
    BY <1>0, <1>1, <1>2 DEF DeskInv, JobsSound
  <1>5. j \in BasketJobs /\ Drafted(j)
    BY <1>0, <1>3, MakingJob DEF DeskInv
  <1>6. /\ p.used \in Modes /\ p.lines \in Seq(Proposals)
        /\ p.used = "LIVE" => Len(p.lines) <= MaxLines
    <2>1. j.asked \in Modes
      BY <1>5 DEF BasketJobs
    <2> QED
      BY <1>1, <2>1, PlansTyped
  <1>7. /\ k.kind = "basket" /\ k.store = j.store /\ k.asked = j.asked /\ k.used = p.used
        /\ k.plan = p.lines /\ k.verdicts = j.verdicts /\ k.claimed = j.claimed
        /\ k = [kind |-> k.kind, store |-> k.store, asked |-> k.asked, used |-> k.used,
                plan |-> k.plan, verdicts |-> k.verdicts, claimed |-> k.claimed]
    BY <1>2, <1>5 DEF BasketJobs
  <1>8. k \in BasketJobs
    <2>1. /\ j.store \in 0 .. MaxTx /\ j.asked \in Modes /\ j.claimed \in Nat
          /\ j.verdicts \in Seq({None, "DENIED", "APPROVAL_REQUIRED", "AUTHORIZED"})
      BY <1>5 DEF BasketJobs
    <2> QED
      BY <1>6, <1>7, <2>1 DEF BasketJobs
  <1>9. Len(j.verdicts) = 0 /\ Claims(j) = {} /\ Claims(k) = {}
    <2>1. j.plan = <<>> /\ Len(j.verdicts) \in Nat /\ Len(j.verdicts) <= Len(j.plan)
      BY <1>3, <1>5, DraftFacts DEF Drafted
    <2>2. Len(j.verdicts) = 0
      BY <2>1
    <2> QED
      BY <1>7, <2>2 DEF Claims
  <1>10. Drafted(k)
    <2> DEFINE f == [i \in Claims(j) |-> LineAmount(j.plan[i])]
               g == [i \in Claims(k) |-> LineAmount(k.plan[i])]
    <2>1. SumFunction(f) = j.claimed
      BY <1>5 DEF Drafted
    <2>2. f = g
      BY <1>9
    <2>3. SumFunction(g) = k.claimed
      <3> HIDE DEF f, g
      <3> QED
        BY <1>7, <2>1, <2>2
    <2>4. Len(k.verdicts) = 0 /\ Len(k.plan) \in Nat /\ k.used # None
      BY <1>6, <1>7, <1>9, DeskAssumption
    <2> HIDE DEF f
    <2> QED
      BY <1>6, <1>7, <2>3, <2>4 DEF Drafted
  <1> QED
    BY <1>0, <1>3, <1>4, <1>7, <1>8, <1>10, JobStepSound

(* Steps of the panel and of the mode leave every job where it was, or      *)
(* over.                                                                   *)
LEMMA AsideSound ==
    ASSUME DeskInv, UNCHANGED <<clock, trail, stores, basket, line, payment, reserved>>,
           mode' \in Modes, PanelSound',
           \/ job' = job
           \/ job' = [t \in Slots |-> IF Running(t) THEN Over ELSE job[t]]
    PROVE  DeskInv'
  <1>1. \A t \in Slots : job'[t] = job[t] \/ job'[t] = Over
    BY DEF DeskInv, JobsSound
  <1>2. \A t \in Slots : Running(t)' => Running(t) /\ job'[t] = job[t]
    BY <1>1 DEF Running
  <1>3. JobsSound'
    <2>1. job' \in [Slots -> {None, Over} \cup BasketJobs \cup LineJobs \cup ResetJobs]
      BY DEF DeskInv, JobsSound
    <2>2. ASSUME NEW t \in Slots
          PROVE  /\ Running(t)' => t <= clock'
                 /\ Making(t)' => Drafted(job'[t])
                 /\ Running(t)' /\ job'[t].kind \in {"approve", "pay", "confirm"} =>
                       job'[t].purchase \in DOMAIN payment'
      BY <1>2 DEF DeskInv, JobsSound, Making
    <2> QED
      BY <2>1, <2>2 DEF JobsSound
  <1>4. SceneSound'
    BY DEF DeskInv, SceneSound
  <1>5. \A t \in Slots : Running(t)' \/ clock' < t => Running(t) \/ clock < t
    BY <1>2
  <1>6. \A t \in Slots : Making(t)' =>
                \/ job'[t].claimed = 0 /\ job'[t].store \in 0 .. MaxTx
                \/ /\ Making(t)
                   /\ job'[t].store = job[t].store /\ job'[t].claimed = job[t].claimed
    BY <1>2 DEF Making
  <1>7. Isolated' /\ TrailSound' /\ TablesSound' /\ BasketIsWhole' /\ MoneySound'
    BY <1>5, <1>6, NothingCommitted
  <1> QED
    BY <1>3, <1>4, <1>7 DEF DeskInv

-----------------------------------------------------------------------------
(* Every behaviour. *)

LEMMA DeskInvInit == DeskInit => DeskInv
  <1> SUFFICES ASSUME DeskInit
               PROVE  DeskInv
    OBVIOUS
  <1>0. /\ MaxTx \in Nat /\ MaxDaily \in Nat /\ clock = 0 /\ trail = {} /\ mode = "OFFLINE"
        /\ panel = [since |-> clock, seen |-> {}, turns |-> <<>>] /\ stores = {0}
        /\ job = [t \in Slots |-> None] /\ reserved = [s \in 0 .. MaxTx |-> 0]
        /\ DOMAIN basket = {} /\ DOMAIN line = {} /\ DOMAIN payment = {}
    BY DeskAssumption DEF DeskInit, Connected
  <1>1. SceneSound
    BY <1>0 DEF SceneSound, Modes
  <1>2. \A t \in Slots : ~Running(t) /\ ~Making(t)
    BY <1>0 DEF Running, Making
  <1>3. JobsSound
    BY <1>0, <1>2 DEF JobsSound
  <1>4. Isolated
    BY <1>0 DEF Isolated, Unwritten
  <1>5. TrailSound
    BY <1>0, FS_EmptySet DEF TrailSound
  <1>6. TablesSound
    BY <1>0, FS_EmptySet DEF TablesSound
  <1>7. BasketIsWhole
    BY <1>0 DEF BasketIsWhole
  <1>8. MoneySound
    <2>1. ASSUME NEW s \in 0 .. MaxTx
          PROVE  reserved[s] = SumFunction(HeldAmounts(s)) /\ reserved[s] <= MaxDaily
      <3>1. DOMAIN HeldAmounts(s) = {}
        BY <1>0 DEF HeldAmounts, Held
      <3>2. SumFunction(HeldAmounts(s)) = 0
        BY <3>1, SumEmpty DEF SumFunction
      <3> QED
        BY <1>0, <3>2
    <2> QED
      BY <1>0, <1>2, <2>1 DEF MoneySound, HeldAmounts
  <1>9. PanelSound
    <2>1. panel \in [since : Nat, seen : SUBSET AuditRow, turns : Seq(SUBSET AuditRow)]
          /\ panel.seen = {} /\ DOMAIN panel.turns = {}
      BY <1>0
    <2> QED
      BY <2>1 DEF PanelSound, ToldOnceInOrder
  <1> QED
    BY <1>1, <1>3, <1>4, <1>5, <1>6, <1>7, <1>8, <1>9 DEF DeskInv

LEMMA DeskInvStep ==
    ASSUME DeskInv, [DeskNext]_allVars
    PROVE  DeskInv'
  <1>1. CASE BeginBasket
    BY <1>1, BeginBasketSound
  <1>2. CASE BeginLineOperation
    BY <1>2, BeginLineSound
  <1>3. CASE BeginReset
    BY <1>3, BeginResetSound
  <1>4. CASE SetMode
    <2>1. /\ UNCHANGED <<clock, trail, panel, job, stores, basket, line, payment, reserved>>
          /\ mode' \in Modes
      BY <1>4 DEF SetMode, panelVars
    <2>2. PanelSound'
      BY <2>1, PanelRests DEF DeskInv
    <2> QED
      BY <2>1, <2>2, AsideSound
  <1>5. CASE Restart
    <2>1. /\ UNCHANGED <<clock, trail, stores, basket, line, payment, reserved>>
          /\ mode' = "OFFLINE" /\ Reconnect
          /\ job' = [t \in Slots |-> IF Running(t) THEN Over ELSE job[t]]
      BY <1>5 DEF Restart, Reconnect
    <2>2. PanelSound' /\ mode' \in Modes
      BY <2>1, PanelConnects DEF DeskInv, Modes
    <2> QED
      BY <2>1, <2>2, AsideSound
  <1>6. CASE Reconnect /\ UNCHANGED deskVars
    <2>1. /\ UNCHANGED <<clock, trail, stores, basket, line, payment, reserved, job, mode>>
      BY <1>6 DEF Reconnect, deskVars
    <2>2. PanelSound' /\ mode' \in Modes
      BY <1>6, <2>1, PanelConnects DEF DeskInv, SceneSound
    <2> QED
      BY <2>1, <2>2, AsideSound
  <1>7. CASE PanelGoesOn
    <2>1. /\ UNCHANGED <<clock, trail, stores, basket, line, payment, reserved, job, mode>>
          /\ Poll(Newest)
      BY <1>7 DEF PanelGoesOn, deskVars, Poll, Turn, Shows
    <2>2. PanelSound' /\ mode' \in Modes
      BY <2>1, PollSound DEF DeskInv, SceneSound
    <2> QED
      BY <2>1, <2>2, AsideSound
  <1>8. ASSUME NEW t \in Slots, Approve(t) \/ Pay(t) \/ ConfirmPending(t) \/ ConfirmPaid(t)
        PROVE  DeskInv'
    <2>0. /\ "approve" \in {"approve", "pay", "confirm"} /\ "pay" \in {"approve", "pay", "confirm"}
          /\ "confirm" \in {"approve", "pay", "confirm"}
          /\ {"APPROVAL_REQUIRED", "AUTHORIZED", "PROVIDER_PENDING"} \subseteq States \ {"DENIED", "FAILED"}
          /\ {"AUTHORIZED", "PROVIDER_PENDING", "CAPTURED"} \subseteq States \ {"DENIED"}
      BY DEF States
    <2>1. reserved' = reserved
      BY <1>8 DEF Approve, Pay, ConfirmPending, ConfirmPaid
    <2>2. CASE Approve(t)
      <3>1. {"payment_transition"} \in SUBSET (EventKinds \ {"planner_fell_back"})
        BY DEF EventKinds
      <3>2. Moves(t, "approve", "APPROVAL_REQUIRED", "AUTHORIZED", {"payment_transition"})
        BY <2>2 DEF Approve
      <3> QED
        BY <2>0, <2>1, <3>1, <3>2, MovesSound
    <2>3. CASE Pay(t)
      <3> DEFINE kinds == {"checkout_authority_issued", "checkout_authority_consumed",
                          "payment_transition", "paytm_order_created"}
      <3>1. kinds \in SUBSET (EventKinds \ {"planner_fell_back"})
        BY DEF EventKinds
      <3>2. Moves(t, "pay", "AUTHORIZED", "PROVIDER_PENDING", kinds)
        BY <2>3 DEF Pay
      <3> HIDE DEF kinds
      <3> QED
        BY <2>0, <2>1, <3>1, <3>2, MovesSound
    <2>4. CASE ConfirmPending(t)
      <3>1. {"paytm_status_pending"} \in SUBSET (EventKinds \ {"planner_fell_back"})
        BY DEF EventKinds
      <3>2. Moves(t, "confirm", "PROVIDER_PENDING", "PROVIDER_PENDING", {"paytm_status_pending"})
        BY <2>4 DEF ConfirmPending
      <3> QED
        BY <2>0, <2>1, <3>1, <3>2, MovesSound
    <2>5. CASE ConfirmPaid(t)
      <3> DEFINE kinds == {"payment_transition", "paytm_status_confirmed"}
      <3>1. kinds \in SUBSET (EventKinds \ {"planner_fell_back"})
        BY DEF EventKinds
      <3>2. Moves(t, "confirm", "PROVIDER_PENDING", "CAPTURED", kinds)
        BY <2>5 DEF ConfirmPaid
      <3> HIDE DEF kinds
      <3> QED
        BY <2>0, <2>1, <3>1, <3>2, MovesSound
    <2> QED
      BY <1>8, <2>2, <2>3, <2>4, <2>5
  <1>9. ASSUME NEW t \in Slots, ConfirmFailed(t)
        PROVE  DeskInv'
    <2> DEFINE kinds == {"payment_transition", "paytm_payment_failed"}
    <2>1. kinds \in SUBSET (EventKinds \ {"planner_fell_back"})
      BY DEF EventKinds
    <2>2. Moves(t, "confirm", "PROVIDER_PENDING", "FAILED", kinds)
      BY <1>9 DEF ConfirmFailed
    <2>3. reserved' = [reserved EXCEPT ![payment[job[t].purchase].store] =
                                                @ - payment[job[t].purchase].amount]
      BY <1>9 DEF ConfirmFailed
    <2>4. /\ "confirm" \in {"approve", "pay", "confirm"}
          /\ "PROVIDER_PENDING" \in States \ {"DENIED", "FAILED"} /\ "FAILED" \in States \ {"DENIED"}
      BY DEF States
    <2> HIDE DEF kinds
    <2> QED
      BY <2>1, <2>2, <2>3, <2>4, MovesSound
  <1>10. ASSUME NEW t \in Slots,
                Plan(t) \/ Decide(t) \/ CommitBasket(t) \/ CommitReset(t) \/ Abort(t)
         PROVE  DeskInv'
    BY <1>10, PlanSound, DecideSound, CommitSound, ResetSound, AbortSound
  <1>11. CASE UNCHANGED allVars
    <2>1. UNCHANGED <<clock, trail, panel, stores, basket, line, payment, reserved, job, mode>>
      BY <1>11 DEF allVars, panelVars, deskVars
    <2>2. PanelSound' /\ mode' \in Modes
      BY <2>1, PanelRests DEF DeskInv, SceneSound
    <2> QED
      BY <2>1, <2>2, AsideSound
  <1> QED
    BY <1>1, <1>2, <1>3, <1>4, <1>5, <1>6, <1>7, <1>8, <1>9, <1>10, <1>11 DEF DeskNext

(* The inductive invariant of the merchant desk. *)
THEOREM DeskInvariant == DeskSpec => []DeskInv
  BY DeskInvInit, DeskInvStep, PTL DEF DeskSpec

(* However malformed the model's reply and whichever step breaks off, the   *)
(* desk's tables hold what their columns allow, a live basket has no more  *)
(* lines than are kept of a reply, and the day's reservation never goes    *)
(* below zero (planner.py, _lines_from_model; merchant.py).                *)
THEOREM DeskTypeCorrect == DeskSpec => []DeskTypeOK
  <1>1. DeskInv => DeskTypeOK
    <2> SUFFICES ASSUME DeskInv
                 PROVE  DeskTypeOK
      OBVIOUS
    <2>1. mode \in Modes /\ clock \in 0 .. MaxTx /\ stores \subseteq 0 .. MaxTx
      BY DEF DeskInv, SceneSound
    <2>2. trail \subseteq AuditRow /\ panel.seen \subseteq trail
      BY DEF DeskInv, TrailSound, PanelSound
    <2>3. /\ DOMAIN basket \subseteq Slots /\ Range(basket) \subseteq Basket
          /\ \A b \in DOMAIN basket : basket[b].used = "LIVE" => basket[b].lines <= MaxLines
          /\ DOMAIN line \subseteq LineIds /\ Range(line) \subseteq Line
          /\ DOMAIN payment \subseteq LineIds /\ Range(payment) \subseteq Payment
      BY DEF DeskInv, TablesSound, Range
    <2>4. reserved \in [0 .. MaxTx -> Nat]
      BY DEF DeskInv, MoneySound
    <2> QED
      BY <2>1, <2>2, <2>3, <2>4 DEF DeskTypeOK
  <1> QED
    BY <1>1, DeskInvariant, PTL

(* A basket is whole or is not there, and the trail tells of a fallback     *)
(* exactly when there was one (create_basket, merchant.py).                *)
THEOREM BasketsAreWhole == DeskSpec => []BasketIsWhole
  <1>1. DeskInv => BasketIsWhole
    BY DEF DeskInv
  <1> QED
    BY <1>1, DeskInvariant, PTL

(* No turn of a connection shows what another showed, and one transaction   *)
(* is told of in two turns only with a lost row between what they show,     *)
(* wherever polls are cut off or break off and however late a transaction   *)
(* commits (stream_events).                                                *)
THEOREM StoriesAreToldOnce == DeskSpec => []ToldOnceInOrder
  <1>1. DeskInv => ToldOnceInOrder
    BY DEF DeskInv, PanelSound
  <1> QED
    BY <1>1, DeskInvariant, PTL

-----------------------------------------------------------------------------
(* What the cards of a store say. *)

Columns == {"READY", "NEEDS_APPROVAL", "CONFIRMING", "PAID"}

CardsOf(s) == { b \in DOMAIN basket : basket[b].store = s } \X Columns

Column(c) == { l \in DOMAIN payment : l[1] = c[1] /\ LineOutcome(l) = c[2] }

(* An outcome the cards add up is that of a payment which holds its amount.*)
LEMMA OutcomeHolds ==
    \A s \in States : OutcomeFor(s) \in Columns <=> s \notin {"DENIED", "FAILED"}
  BY DEF OutcomeFor, Columns, States

LEMMA CardsFinite ==
    ASSUME TablesSound, NEW s
    PROVE  IsFiniteSet(CardsOf(s))
  <1> DEFINE K == { b \in DOMAIN basket : basket[b].store = s }
  <1>1. IsFiniteSet(Slots)
    BY DeskAssumption, FS_Interval DEF Slots
  <1>2. K \in SUBSET Slots
    BY DEF TablesSound
  <1>3. IsFiniteSet(K)
    BY <1>1, <1>2, FS_Subset
  <1>4. IsFiniteSet(Columns)
    <2> DEFINE two   == ({"READY"} \cup {"NEEDS_APPROVAL"})
               three == (two \cup {"CONFIRMING"})
    <2>1. IsFiniteSet({"READY"})
      BY FS_Singleton
    <2>2. IsFiniteSet(two)
      BY <2>1, FS_AddElement
    <2>3. IsFiniteSet(three)
      BY <2>2, FS_AddElement
    <2>4. IsFiniteSet(three \cup {"PAID"})
      BY <2>3, FS_AddElement
    <2>5. Columns = three \cup {"PAID"}
      BY DEF Columns
    <2> QED
      BY <2>4, <2>5
  <1>5. IsFiniteSet(K \X Columns)
    <2> HIDE DEF K
    <2> QED
      BY <1>3, <1>4, FS_Product
  <1> QED
    BY <1>5 DEF CardsOf

(* Every payment that holds its amount is on one card, in one column.      *)
LEMMA ColumnsPartition ==
    ASSUME TablesSound, NEW s
    PROVE  /\ \A c \in CardsOf(s) : Column(c) \in SUBSET Held(s)
           /\ \A c, d \in CardsOf(s) : c # d => Column(c) \cap Column(d) = {}
           /\ UNION { Column(c) : c \in CardsOf(s) } = Held(s)
  <1>1. \A c \in CardsOf(s) : /\ c = <<c[1], c[2]>> /\ c[2] \in Columns
                             /\ c[1] \in DOMAIN basket /\ basket[c[1]].store = s
    BY DEF CardsOf
  <1>2. \A l \in DOMAIN payment : /\ LineOutcome(l) = OutcomeFor(payment[l].state)
                                  /\ payment[l].state \in States
                                  /\ l[1] \in DOMAIN basket
                                  /\ payment[l].store = basket[l[1]].store
    BY DEF LineOutcome, TablesSound, Payment
  <1>3. \A c \in CardsOf(s) : Column(c) \in SUBSET Held(s)
    <2> SUFFICES ASSUME NEW c \in CardsOf(s), NEW l \in Column(c)
                 PROVE  l \in Held(s)
      OBVIOUS
    <2>1. l \in DOMAIN payment /\ l[1] = c[1] /\ LineOutcome(l) = c[2]
      BY DEF Column
    <2>2. OutcomeFor(payment[l].state) \in Columns /\ payment[l].state \in States
      BY <1>1, <1>2, <2>1
    <2>3. payment[l].state \notin {"DENIED", "FAILED"}
      BY <2>2, OutcomeHolds
    <2>4. payment[l].store = s
      BY <1>1, <1>2, <2>1
    <2> QED
      BY <2>1, <2>3, <2>4 DEF Held
  <1>4. \A c, d \in CardsOf(s) : c # d => Column(c) \cap Column(d) = {}
    BY <1>1 DEF Column
  <1>5. \A l \in Held(s) : \E c \in CardsOf(s) : l \in Column(c)
    <2> SUFFICES ASSUME NEW l \in Held(s)
                 PROVE  \E c \in CardsOf(s) : l \in Column(c)
      OBVIOUS
    <2> DEFINE c == <<l[1], LineOutcome(l)>>
    <2>1. /\ l \in DOMAIN payment /\ payment[l].store = s
          /\ payment[l].state \notin {"DENIED", "FAILED"}
      BY DEF Held
    <2>2. LineOutcome(l) \in Columns
      BY <1>2, <2>1, OutcomeHolds
    <2>3. c \in CardsOf(s)
      BY <1>2, <2>1, <2>2 DEF CardsOf
    <2>4. l \in Column(c)
      BY <2>1 DEF Column
    <2> QED
      BY <2>3, <2>4
  <1>6. UNION { Column(c) : c \in CardsOf(s) } = Held(s)
    BY <1>3, <1>5
  <1> QED
    BY <1>3, <1>4, <1>6

LEMMA CardsAddUp ==
    ASSUME TablesSound, NEW s
    PROVE  SumFunction([c \in CardsOf(s) |-> Total(c[1], c[2])]) = SumFunction(HeldAmounts(s))
  <1> DEFINE C == CardsOf(s)
             R == Held(s)
             f == HeldAmounts(s)
             G == [c \in C |-> Column(c)]
             k == [c \in C |-> SumFunctionOnSet(f, G[c])]
             tot == [c \in C |-> Total(c[1], c[2])]
  <1>1. IsFiniteSet(R) /\ (\A x \in R : f[x] \in Nat) /\ IsFiniteSet(C)
    BY HeldFinite, CardsFinite DEF HeldAmounts
  <1>2. /\ G \in [C -> SUBSET R]
        /\ \A c, d \in C : c # d => G[c] \cap G[d] = {}
        /\ UNION { G[c] : c \in C } = R
    <2>1. { G[c] : c \in C } = { Column(c) : c \in C }
      OBVIOUS
    <2> QED
      BY <2>1, ColumnsPartition
  <1>3. \A c \in C : tot[c] = k[c]
    <2> SUFFICES ASSUME NEW c \in C
                 PROVE  Total(c[1], c[2]) = SumFunctionOnSet(f, G[c])
      OBVIOUS
    <2> DEFINE S == Column(c)
               g == [l \in S |-> payment[l].amount]
    <2>1. S \in SUBSET R /\ IsFiniteSet(S)
      BY <1>1, <1>2, FS_Subset
    <2>2. \A l \in S : g[l] = f[l]
      BY <2>1 DEF HeldAmounts
    <2>3. SumFunctionOnSet(g, S) = SumFunctionOnSet(f, S)
      <3> HIDE DEF S, g, f
      <3> QED
        BY <2>1, <2>2, SumSame
    <2>4. DOMAIN g = S
      OBVIOUS
    <2>5. SumFunction(g) = SumFunctionOnSet(g, S)
      <3> HIDE DEF S, g
      <3> QED
        BY <2>4 DEF SumFunction
    <2>6. Total(c[1], c[2]) = SumFunction(g)
      BY DEF Total, Column
    <2>7. G[c] = S
      OBVIOUS
    <2> QED
      BY <2>3, <2>5, <2>6, <2>7
  <1>4. SumFunctionOnSet(tot, C) = SumFunctionOnSet(k, C)
    <2> HIDE DEF C, k, tot
    <2> QED
      BY <1>1, <1>3, SumSame
  <1>5. SumFunctionOnSet(f, UNION { G[c] : c \in C }) = SumFunctionOnSet(k, C)
    <2> HIDE DEF C, R, f, G
    <2> QED
      BY <1>1, <1>2, SumPartition
  <1>6. DOMAIN tot = C /\ DOMAIN f = R
    BY DEF HeldAmounts
  <1>7. SumFunction(tot) = SumFunctionOnSet(tot, C) /\ SumFunction(f) = SumFunctionOnSet(f, R)
    <2> HIDE DEF C, R, f, tot
    <2> QED
      BY <1>6 DEF SumFunction
  <1>8. SumFunction(tot) = SumFunction(f)
    <2> HIDE DEF C, R, f, tot, G, k
    <2> QED
      BY <1>2, <1>4, <1>5, <1>7
  <1> QED
    BY <1>8

(* What the cards of a store say is ready, waiting, confirming or paid adds *)
(* up to the figure the limit is enforced against, and that figure never   *)
(* passes the limit, however many baskets are decided at once              *)
(* (spent_today, merchant.py:213).                                         *)
THEOREM ScreensAgreeWithLimits == DeskSpec => []ScreenAgreesWithLimit
  <1>1. DeskInv => ScreenAgreesWithLimit
    <2> SUFFICES ASSUME DeskInv, NEW s \in stores
                 PROVE  /\ SpentToday(s) = SumFunction([c \in CardsOf(s) |-> Total(c[1], c[2])])
                        /\ SpentToday(s) <= MaxDaily
      BY DEF ScreenAgreesWithLimit, CardsOf, Columns
    <2>1. s \in 0 .. MaxTx /\ TablesSound /\ MoneySound
      BY DEF DeskInv, SceneSound
    <2>2. reserved[s] = SumFunction(HeldAmounts(s)) /\ reserved[s] <= MaxDaily
      BY <2>1 DEF MoneySound, HeldAmounts
    <2>3. SumFunction([c \in CardsOf(s) |-> Total(c[1], c[2])]) = SumFunction(HeldAmounts(s))
      BY <2>1, CardsAddUp
    <2> QED
      BY <2>2, <2>3 DEF SpentToday
  <1> QED
    BY <1>1, DeskInvariant, PTL
=============================================================================
