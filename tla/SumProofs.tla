------------------------------ MODULE SumProofs ------------------------------
(***************************************************************************)
(* Sums of a function over a finite set, as the books of the system use    *)
(* them (reserved amounts, hop budgets, ledger rows, basket lines): what   *)
(* an added, a removed or a changed entry does to a sum, and how sums over *)
(* two sets compare.  SumFunctionOnSet is a recursive function on the      *)
(* subsets of the set, so everything is proved by taking a smallest subset *)
(* on which it would fail.                                                 *)
(***************************************************************************)
EXTENDS FiniteSetsExt, FiniteSetTheorems, TLAPS

(* A non-empty collection of subsets of a finite set has a smallest member: *)
(* the induction principle of this module.                                 *)
LEMMA LeastSet ==
    ASSUME NEW S, IsFiniteSet(S), NEW B \in SUBSET SUBSET S, B # {}
    PROVE  \E U \in B : \A V \in B : V \subseteq U => V = U
  <1>1. IsWellFoundedOn(StrictSubsetOrdering(S), SUBSET S)
    BY FS_StrictSubsetOrderingWellFounded, FS_FiniteSubsetsOfFinite
  <1>2. PICK U \in B : \A V \in B : <<V, U>> \notin StrictSubsetOrdering(S)
    BY <1>1, WFMin
  <1> QED
    BY <1>2 DEF StrictSubsetOrdering

-----------------------------------------------------------------------------
(* The function a sum over S is defined by, and one entry of it.           *)
PickOf(s) == CHOOSE x \in s : TRUE

Unfolds(it, f, S) ==
    it = [s \in SUBSET S |-> IF s = {} THEN 0 ELSE f[PickOf(s)] + it[s \ {PickOf(s)}]]

SumFun(f, S) == CHOOSE it : Unfolds(it, f, S)

LEMMA SumIsSumFun ==
    ASSUME NEW f, NEW S
    PROVE  SumFunctionOnSet(f, S) = SumFun(f, S)[S]
  BY DEF SumFunctionOnSet, FoldFunctionOnSet, MapThenFoldSet, Unfolds, SumFun, PickOf

LEMMA PickIn ==
    ASSUME NEW s, s # {}
    PROVE  PickOf(s) \in s
  BY DEF PickOf

(* Two functions that unfold agree on the finite sets both speak of.       *)
LEMMA UnfoldsAgree ==
    ASSUME NEW f, NEW S, NEW T, NEW U, IsFiniteSet(U), U \subseteq S, U \subseteq T,
           NEW g, Unfolds(g, f, S), NEW h, Unfolds(h, f, T)
    PROVE  g[U] = h[U]
  <1> SUFFICES ASSUME g[U] # h[U]
               PROVE  FALSE
    OBVIOUS
  <1> DEFINE B == { V \in SUBSET U : g[V] # h[V] }
  <1>0. B # {} /\ B \in SUBSET SUBSET U
    OBVIOUS
  <1>1. PICK V \in B : \A W \in B : W \subseteq V => W = V
    <2> HIDE DEF B
    <2> QED
      BY <1>0, LeastSet
  <1>2. V \in SUBSET S /\ V \in SUBSET T
    OBVIOUS
  <1>3. V # {}
    BY <1>2 DEF Unfolds
  <1> DEFINE W == V \ {PickOf(V)}
  <1>4. W \subseteq V /\ W # V /\ W \in SUBSET U
    BY <1>3, PickIn
  <1>5. g[W] = h[W]
    BY <1>1, <1>4
  <1>6. g[V] = f[PickOf(V)] + g[W] /\ h[V] = f[PickOf(V)] + h[W]
    BY <1>2, <1>3 DEF Unfolds
  <1> QED
    BY <1>5, <1>6

(* The recursion has a solution on every finite set.                       *)
LEMMA SumFunUnfolds ==
    ASSUME NEW f, NEW S, IsFiniteSet(S)
    PROVE  Unfolds(SumFun(f, S), f, S)
  <1> DEFINE Fails(s) == \A it : ~Unfolds(it, f, s)
             B == { s \in SUBSET S : Fails(s) }
  <1> SUFFICES ASSUME B # {}
               PROVE  FALSE
    <2>1. S \notin B
      OBVIOUS
    <2>2. \E it : Unfolds(it, f, S)
      BY <2>1
    <2> QED
      BY <2>2 DEF SumFun
  <1>0. B \in SUBSET SUBSET S
    OBVIOUS
  <1>1. PICK U \in B : \A V \in B : V \subseteq U => V = U
    <2> HIDE DEF B
    <2> QED
      BY <1>0, LeastSet
  <1>2. IsFiniteSet(U) /\ \A s \in SUBSET U : IsFiniteSet(s) /\ s \in SUBSET S
    BY FS_Subset
  <1>3. ASSUME NEW s \in SUBSET U, s # U
        PROVE  Unfolds(SumFun(f, s), f, s)
    <2>1. s \notin B
      BY <1>1, <1>3
    <2>2. \E it : Unfolds(it, f, s)
      BY <2>1, <1>2
    <2> QED
      BY <2>2 DEF SumFun
  <1> DEFINE Below(s) == SumFun(f, s \ {PickOf(s)})[s \ {PickOf(s)}]
             it == [s \in SUBSET U |-> IF s = {} THEN 0 ELSE f[PickOf(s)] + Below(s)]
  <1>4. ASSUME NEW s \in SUBSET U, s # {}
        PROVE  it[s \ {PickOf(s)}] = Below(s)
    <2> DEFINE t == s \ {PickOf(s)}
    <2>1. t \in SUBSET U /\ t # U
      BY <1>4, PickIn
    <2>2. Unfolds(SumFun(f, t), f, t)
      BY <2>1, <1>3
    <2>3. CASE t = {}
      <3>1. SumFun(f, t)[t] = 0
        BY <2>2, <2>3 DEF Unfolds
      <3>2. it[t] = 0
        BY <2>1, <2>3
      <3> QED
        BY <3>1, <3>2
    <2>4. CASE t # {}
      <3> DEFINE u == t \ {PickOf(t)}
      <3>1. u \in SUBSET U /\ u # U /\ u \subseteq t /\ IsFiniteSet(u)
        BY <2>1, <1>2
      <3>2. Unfolds(SumFun(f, u), f, u)
        BY <3>1, <1>3
      <3>3. SumFun(f, t)[u] = SumFun(f, u)[u]
        BY <3>1, <3>2, <2>2, UnfoldsAgree
      <3>4. SumFun(f, t)[t] = f[PickOf(t)] + SumFun(f, t)[u]
        BY <2>2, <2>4 DEF Unfolds
      <3>5. it[t] = f[PickOf(t)] + SumFun(f, u)[u]
        BY <2>1, <2>4
      <3> QED
        BY <3>3, <3>4, <3>5
    <2> QED
      BY <2>3, <2>4
  <1>5. it = [s \in SUBSET U |-> IF s = {} THEN 0 ELSE f[PickOf(s)] + it[s \ {PickOf(s)}]]
    BY <1>4
  <1>6. Unfolds(it, f, U)
    BY <1>5 DEF Unfolds
  <1> QED
    BY <1>6

LEMMA SumEmpty ==
    ASSUME NEW f
    PROVE  SumFunctionOnSet(f, {}) = 0
  <1>1. Unfolds(SumFun(f, {}), f, {})
    BY SumFunUnfolds, FS_EmptySet
  <1> QED
    BY <1>1, SumIsSumFun DEF Unfolds

LEMMA SumPick ==
    ASSUME NEW f, NEW S, IsFiniteSet(S), S # {}
    PROVE  SumFunctionOnSet(f, S) =
               f[PickOf(S)] + SumFunctionOnSet(f, S \ {PickOf(S)})
  <1> DEFINE T == S \ {PickOf(S)}
  <1>1. IsFiniteSet(T)
    BY FS_Subset
  <1>2. Unfolds(SumFun(f, S), f, S) /\ Unfolds(SumFun(f, T), f, T)
    BY <1>1, SumFunUnfolds
  <1>3. SumFun(f, S)[T] = SumFun(f, T)[T]
    <2> DEFINE g == SumFun(f, S)
               h == SumFun(f, T)
    <2>1. T \subseteq S /\ T \subseteq T /\ Unfolds(g, f, S) /\ Unfolds(h, f, T)
      BY <1>2
    <2> HIDE DEF T, g, h
    <2>2. g[T] = h[T]
      BY <1>1, <2>1, UnfoldsAgree
    <2> QED
      BY <2>2 DEF T, g, h
  <1>4. SumFun(f, S)[S] = f[PickOf(S)] + SumFun(f, S)[T]
    BY <1>2 DEF Unfolds
  <1> QED
    BY <1>3, <1>4, SumIsSumFun

-----------------------------------------------------------------------------
(* A sum of integers is an integer, and any entry can be taken out first:   *)
(* the order in which the entries are visited does not matter.             *)
LEMMA SumInt ==
    ASSUME NEW f, NEW S, IsFiniteSet(S), \A x \in S : f[x] \in Int
    PROVE  SumFunctionOnSet(f, S) \in Int
  <1> DEFINE B == { V \in SUBSET S : SumFunctionOnSet(f, V) \notin Int }
  <1> SUFFICES ASSUME B # {}
               PROVE  FALSE
    OBVIOUS
  <1>0. B \in SUBSET SUBSET S
    OBVIOUS
  <1>1. PICK V \in B : \A W \in B : W \subseteq V => W = V
    <2> HIDE DEF B
    <2> QED
      BY <1>0, LeastSet
  <1>2. IsFiniteSet(V)
    BY <1>0, FS_Subset
  <1>3. V # {}
    BY SumEmpty
  <1>4. PickOf(V) \in V /\ V \ {PickOf(V)} \in SUBSET S
    BY <1>0, <1>3, PickIn
  <1>5. SumFunctionOnSet(f, V \ {PickOf(V)}) \in Int
    BY <1>1, <1>4
  <1>6. f[PickOf(V)] \in Int
    BY <1>4
  <1> QED
    BY <1>2, <1>3, <1>5, <1>6, SumPick

LEMMA SumRemove ==
    ASSUME NEW f, NEW S, IsFiniteSet(S), \A y \in S : f[y] \in Int, NEW x \in S
    PROVE  SumFunctionOnSet(f, S) = f[x] + SumFunctionOnSet(f, S \ {x})
  <1> DEFINE Sm(V) == SumFunctionOnSet(f, V)
             B == { V \in SUBSET S : \E y \in V : Sm(V) # f[y] + Sm(V \ {y}) }
  <1> SUFFICES ASSUME B # {}
               PROVE  FALSE
    OBVIOUS
  <1>0. B \in SUBSET SUBSET S
    OBVIOUS
  <1>1. PICK V \in B : \A W \in B : W \subseteq V => W = V
    <2> HIDE DEF B
    <2> QED
      BY <1>0, LeastSet
  <1>2. PICK y \in V : Sm(V) # f[y] + Sm(V \ {y})
    OBVIOUS
  <1> DEFINE z == PickOf(V)
  <1>3. z \in V /\ IsFiniteSet(V) /\ V \in SUBSET S
    BY PickIn, FS_Subset
  <1>4. Sm(V) = f[z] + Sm(V \ {z})
    BY <1>3, SumPick
  <1>5. z # y
    BY <1>2, <1>4
  <1>6. Sm(V \ {z}) = f[y] + Sm((V \ {z}) \ {y})
    <2>1. V \ {z} \in SUBSET S /\ V \ {z} \subseteq V /\ V \ {z} # V /\ y \in V \ {z}
      BY <1>3, <1>5
    <2> HIDE DEF z, Sm
    <2> QED
      BY <2>1, <1>1
  <1>7. Sm(V \ {y}) = f[z] + Sm((V \ {y}) \ {z})
    <2>1. V \ {y} \in SUBSET S /\ V \ {y} \subseteq V /\ V \ {y} # V /\ z \in V \ {y}
      BY <1>3, <1>5
    <2> HIDE DEF z, Sm
    <2> QED
      BY <2>1, <1>1
  <1>8. (V \ {z}) \ {y} = (V \ {y}) \ {z}
    OBVIOUS
  <1>9. Sm((V \ {y}) \ {z}) \in Int
    <2>1. IsFiniteSet((V \ {y}) \ {z}) /\ \A u \in (V \ {y}) \ {z} : f[u] \in Int
      BY <1>3, FS_Subset
    <2> HIDE DEF z
    <2> QED
      BY <2>1, SumInt
  <1>10. f[y] \in Int /\ f[z] \in Int
    BY <1>3
  <1>11. Sm((V \ {z}) \ {y}) = Sm((V \ {y}) \ {z})
    BY <1>8, Zenon
  <1> HIDE DEF Sm, z, B
  <1> QED
    BY <1>2, <1>4, <1>6, <1>7, <1>9, <1>10, <1>11

LEMMA SumAdd ==
    ASSUME NEW f, NEW S, IsFiniteSet(S), \A y \in S : f[y] \in Int,
           NEW x, x \notin S, f[x] \in Int
    PROVE  SumFunctionOnSet(f, S \cup {x}) = SumFunctionOnSet(f, S) + f[x]
  <1> DEFINE T == S \cup {x}
  <1>1. IsFiniteSet(T) /\ x \in T /\ T \ {x} = S /\ \A y \in T : f[y] \in Int
    BY FS_AddElement
  <1>2. SumFunctionOnSet(f, T) = f[x] + SumFunctionOnSet(f, T \ {x})
    <2> HIDE DEF T
    <2> QED
      BY <1>1, SumRemove
  <1>3. SumFunctionOnSet(f, S) \in Int
    BY SumInt
  <1>4. SumFunctionOnSet(f, T \ {x}) = SumFunctionOnSet(f, S)
    BY <1>1, Zenon
  <1> QED
    BY <1>2, <1>3, <1>4

(* Functions with the same entries have the same sum.                      *)
LEMMA SumSame ==
    ASSUME NEW f, NEW g, NEW S, IsFiniteSet(S), \A x \in S : f[x] = g[x]
    PROVE  SumFunctionOnSet(f, S) = SumFunctionOnSet(g, S)
  <1> DEFINE B == { V \in SUBSET S : SumFunctionOnSet(f, V) # SumFunctionOnSet(g, V) }
  <1> SUFFICES ASSUME B # {}
               PROVE  FALSE
    OBVIOUS
  <1>0. B \in SUBSET SUBSET S
    OBVIOUS
  <1>1. PICK V \in B : \A W \in B : W \subseteq V => W = V
    <2> HIDE DEF B
    <2> QED
      BY <1>0, LeastSet
  <1>2. IsFiniteSet(V)
    BY FS_Subset
  <1>3. V # {}
    BY SumEmpty
  <1>4. PickOf(V) \in V /\ V \ {PickOf(V)} \in SUBSET S
    BY <1>3, PickIn
  <1>5. SumFunctionOnSet(f, V \ {PickOf(V)}) = SumFunctionOnSet(g, V \ {PickOf(V)})
    BY <1>1, <1>4
  <1>6. /\ SumFunctionOnSet(f, V) = f[PickOf(V)] + SumFunctionOnSet(f, V \ {PickOf(V)})
        /\ SumFunctionOnSet(g, V) = g[PickOf(V)] + SumFunctionOnSet(g, V \ {PickOf(V)})
    BY <1>2, <1>3, SumPick
  <1> QED
    BY <1>4, <1>5, <1>6

(* One entry changes, and so does the sum by as much.                      *)
LEMMA SumUpdate ==
    ASSUME NEW f, NEW g, NEW S, IsFiniteSet(S), NEW x \in S,
           \A y \in S : f[y] \in Int, g[x] \in Int,
           \A y \in S \ {x} : g[y] = f[y]
    PROVE  SumFunctionOnSet(g, S) = SumFunctionOnSet(f, S) - f[x] + g[x]
  <1> DEFINE T == S \ {x}
  <1>1. IsFiniteSet(T) /\ (\A y \in T : f[y] \in Int) /\ (\A y \in S : g[y] \in Int)
    BY FS_Subset
  <1>2. SumFunctionOnSet(f, S) = f[x] + SumFunctionOnSet(f, T)
    BY SumRemove
  <1>3. SumFunctionOnSet(g, S) = g[x] + SumFunctionOnSet(g, T)
    BY <1>1, SumRemove
  <1>4. SumFunctionOnSet(f, T) = SumFunctionOnSet(g, T)
    BY <1>1, SumSame
  <1>5. SumFunctionOnSet(f, T) \in Int
    BY <1>1, SumInt
  <1> QED
    BY <1>2, <1>3, <1>4, <1>5

-----------------------------------------------------------------------------
(* Sums of naturals: never negative, and larger sets have larger sums.      *)
LEMMA SumNat ==
    ASSUME NEW f, NEW S, IsFiniteSet(S), \A x \in S : f[x] \in Nat
    PROVE  SumFunctionOnSet(f, S) \in Nat
  <1> DEFINE B == { V \in SUBSET S : SumFunctionOnSet(f, V) \notin Nat }
  <1> SUFFICES ASSUME B # {}
               PROVE  FALSE
    OBVIOUS
  <1>0. B \in SUBSET SUBSET S
    OBVIOUS
  <1>1. PICK V \in B : \A W \in B : W \subseteq V => W = V
    <2> HIDE DEF B
    <2> QED
      BY <1>0, LeastSet
  <1>2. IsFiniteSet(V)
    BY FS_Subset
  <1>3. V # {}
    BY SumEmpty
  <1>4. PickOf(V) \in V /\ V \ {PickOf(V)} \in SUBSET S
    BY <1>3, PickIn
  <1>5. SumFunctionOnSet(f, V \ {PickOf(V)}) \in Nat
    BY <1>1, <1>4
  <1>6. f[PickOf(V)] \in Nat
    BY <1>4
  <1> QED
    BY <1>2, <1>3, <1>5, <1>6, SumPick

LEMMA SumSubset ==
    ASSUME NEW f, NEW S, IsFiniteSet(S), \A x \in S : f[x] \in Nat, NEW T \in SUBSET S
    PROVE  SumFunctionOnSet(f, T) <= SumFunctionOnSet(f, S)
  <1> DEFINE Sm(V) == SumFunctionOnSet(f, V)
             B == { V \in SUBSET S : T \subseteq V /\ ~(Sm(T) <= Sm(V)) }
  <1> SUFFICES ASSUME B # {}
               PROVE  FALSE
    OBVIOUS
  <1>0. B \in SUBSET SUBSET S
    OBVIOUS
  <1>1. PICK V \in B : \A W \in B : W \subseteq V => W = V
    <2> HIDE DEF B
    <2> QED
      BY <1>0, LeastSet
  <1>2. V \in SUBSET S /\ T \subseteq V /\ ~(Sm(T) <= Sm(V))
    OBVIOUS
  <1>3. IsFiniteSet(V) /\ IsFiniteSet(T)
    BY <1>2, FS_Subset
  <1>4. Sm(T) \in Nat
    BY <1>3, SumNat
  <1>5. V # T
    <2> HIDE DEF Sm
    <2> QED
      BY <1>2, <1>4
  <1>6. PICK x \in V : x \notin T
    BY <1>2, <1>5
  <1>7. Sm(V) = f[x] + Sm(V \ {x})
    BY <1>2, <1>3, SumRemove
  <1>8. V \ {x} \in SUBSET S /\ T \subseteq V \ {x} /\ V \ {x} \subseteq V /\ V \ {x} # V
    BY <1>2, <1>6
  <1>9. Sm(T) <= Sm(V \ {x})
    <2> HIDE DEF Sm
    <2> QED
      BY <1>1, <1>8
  <1>10. Sm(V \ {x}) \in Nat /\ f[x] \in Nat
    <2>1. IsFiniteSet(V \ {x}) /\ \A y \in V \ {x} : f[y] \in Nat
      BY <1>2, <1>3, FS_Subset
    <2>2. Sm(V \ {x}) \in Nat
      BY <2>1, SumNat
    <2> QED
      BY <2>2, <1>2
  <1> HIDE DEF Sm, B
  <1> QED
    BY <1>2, <1>4, <1>7, <1>9, <1>10

(* One entry is at most the sum it is part of.                             *)
LEMMA SumEntry ==
    ASSUME NEW f, NEW S, IsFiniteSet(S), \A y \in S : f[y] \in Nat, NEW x \in S
    PROVE  f[x] <= SumFunctionOnSet(f, S)
  <1>1. SumFunctionOnSet(f, S) = f[x] + SumFunctionOnSet(f, S \ {x})
    BY SumRemove
  <1>2. SumFunctionOnSet(f, S \ {x}) \in Nat
    BY SumNat, FS_Subset
  <1> QED
    BY <1>1, <1>2

(* Entry by entry smaller, smaller in sum.                                 *)
LEMMA SumMonotone ==
    ASSUME NEW f, NEW g, NEW S, IsFiniteSet(S),
           \A x \in S : f[x] \in Nat /\ g[x] \in Nat /\ f[x] <= g[x]
    PROVE  SumFunctionOnSet(f, S) <= SumFunctionOnSet(g, S)
  <1> DEFINE B == { V \in SUBSET S : ~(SumFunctionOnSet(f, V) <= SumFunctionOnSet(g, V)) }
  <1> SUFFICES ASSUME B # {}
               PROVE  FALSE
    OBVIOUS
  <1>0. B \in SUBSET SUBSET S
    OBVIOUS
  <1>1. PICK V \in B : \A W \in B : W \subseteq V => W = V
    <2> HIDE DEF B
    <2> QED
      BY <1>0, LeastSet
  <1>2. IsFiniteSet(V) /\ V \in SUBSET S
    BY FS_Subset
  <1>3. V # {}
    BY SumEmpty
  <1> DEFINE x == PickOf(V)
             W == V \ {x}
  <1>4. x \in V /\ W \in SUBSET S /\ W # V /\ W \subseteq V
    BY <1>2, <1>3, PickIn
  <1>5. SumFunctionOnSet(f, W) <= SumFunctionOnSet(g, W)
    BY <1>1, <1>4
  <1>6. /\ SumFunctionOnSet(f, V) = f[x] + SumFunctionOnSet(f, W)
        /\ SumFunctionOnSet(g, V) = g[x] + SumFunctionOnSet(g, W)
    BY <1>2, <1>3, SumPick
  <1>7. SumFunctionOnSet(f, W) \in Nat /\ SumFunctionOnSet(g, W) \in Nat
    <2>1. IsFiniteSet(W) /\ \A y \in W : f[y] \in Nat /\ g[y] \in Nat
      BY <1>4, FS_Subset
    <2> HIDE DEF W
    <2> QED
      BY <2>1, SumNat
  <1>8. f[x] \in Nat /\ g[x] \in Nat /\ f[x] <= g[x]
    BY <1>2, <1>4
  <1>9. ~(SumFunctionOnSet(f, V) <= SumFunctionOnSet(g, V))
    OBVIOUS
  <1> HIDE DEF W, x, B
  <1> QED
    BY <1>5, <1>6, <1>7, <1>8, <1>9

(* A set covered by two others sums to no more than they do together, and   *)
(* one covered by a finite family to no more than the family's sums.       *)
LEMMA SumCoverTwo ==
    ASSUME NEW f, NEW S, IsFiniteSet(S), NEW T, IsFiniteSet(T),
           \A x \in S \cup T : f[x] \in Nat
    PROVE  SumFunctionOnSet(f, S \cup T) <= SumFunctionOnSet(f, S) + SumFunctionOnSet(f, T)
  <1> DEFINE Sm(V) == SumFunctionOnSet(f, V)
             B == { V \in SUBSET T : ~(Sm(S \cup V) <= Sm(S) + Sm(V)) }
  <1> SUFFICES ASSUME B # {}
               PROVE  FALSE
    OBVIOUS
  <1>0. B \in SUBSET SUBSET T
    OBVIOUS
  <1>1. PICK V \in B : \A W \in B : W \subseteq V => W = V
    <2> HIDE DEF B
    <2> QED
      BY <1>0, LeastSet
  <1>2. V \in SUBSET T /\ ~(Sm(S \cup V) <= Sm(S) + Sm(V)) /\ IsFiniteSet(V)
    BY FS_Subset
  <1>3. Sm(S) \in Nat
    BY SumNat
  <1>4. V # {}
    <2> SUFFICES ASSUME V = {}
                 PROVE  FALSE
      OBVIOUS
    <2>1. S \cup V = S /\ Sm(V) = 0
      BY SumEmpty
    <2> HIDE DEF Sm
    <2> QED
      BY <1>2, <1>3, <2>1
  <1> DEFINE x == PickOf(V)
             W == V \ {x}
  <1>5. x \in V /\ W \in SUBSET T /\ W # V /\ W \subseteq V
    BY <1>2, <1>4, PickIn
  <1>6. IsFiniteSet(W) /\ IsFiniteSet(S \cup V) /\ IsFiniteSet(S \cup W)
    BY <1>2, <1>5, FS_Subset, FS_Union
  <1>7. /\ \A y \in S \cup V : f[y] \in Nat
        /\ \A y \in W : f[y] \in Nat
        /\ \A y \in S \cup W : f[y] \in Nat
    BY <1>2
  <1>8. Sm(S \cup W) <= Sm(S) + Sm(W)
    <2> HIDE DEF Sm, W
    <2> QED
      BY <1>1, <1>5
  <1>9. Sm(V) = f[x] + Sm(W)
    BY <1>2, <1>4, SumPick
  <1>10. Sm(S \cup W) \in Nat /\ Sm(W) \in Nat /\ f[x] \in Nat
    <2>1. Sm(S \cup W) \in Nat
      BY <1>6, <1>7, SumNat
    <2>2. Sm(W) \in Nat
      BY <1>6, <1>7, SumNat
    <2> QED
      BY <2>1, <2>2, <1>5, <1>7
  <1>11. Sm(S \cup V) <= f[x] + Sm(S \cup W)
    <2>1. CASE x \in S
      <3>1. S \cup V = S \cup W
        BY <2>1, <1>5
      <3>2. Sm(S \cup V) = Sm(S \cup W)
        BY <3>1, Zenon
      <3> HIDE DEF Sm, W, x
      <3> QED
        BY <3>2, <1>10
    <2>2. CASE x \notin S
      <3>1. (S \cup V) \ {x} = S \cup W /\ x \in S \cup V
        BY <2>2, <1>5
      <3>2. Sm(S \cup V) = f[x] + Sm((S \cup V) \ {x})
        BY <1>6, <1>7, <3>1, SumRemove
      <3>3. Sm((S \cup V) \ {x}) = Sm(S \cup W)
        BY <3>1, Zenon
      <3>4. Sm(S \cup V) \in Int
        BY <1>6, <1>7, SumInt
      <3> HIDE DEF Sm, W, x
      <3> QED
        BY <3>2, <3>3, <3>4, <1>10
    <2> QED
      BY <2>1, <2>2
  <1>12. Sm(S \cup V) \in Nat
    BY <1>6, <1>7, SumNat
  <1> HIDE DEF Sm, W, x, B
  <1> QED
    BY <1>2, <1>3, <1>8, <1>9, <1>10, <1>11, <1>12

LEMMA SumCover ==
    ASSUME NEW f, NEW R, IsFiniteSet(R), \A x \in R : f[x] \in Nat,
           NEW C, IsFiniteSet(C), NEW G \in [C -> SUBSET R]
    PROVE  SumFunctionOnSet(f, UNION { G[c] : c \in C })
               <= SumFunctionOnSet([c \in C |-> SumFunctionOnSet(f, G[c])], C)
  <1> DEFINE k == [c \in C |-> SumFunctionOnSet(f, G[c])]
             Over(D) == UNION { G[c] : c \in D }
             B == { D \in SUBSET C : ~(SumFunctionOnSet(f, Over(D)) <= SumFunctionOnSet(k, D)) }
  <1> SUFFICES ASSUME B # {}
               PROVE  FALSE
    OBVIOUS
  <1>0. B \in SUBSET SUBSET C
    OBVIOUS
  <1>1. PICK D \in B : \A E \in B : E \subseteq D => E = D
    <2> HIDE DEF B
    <2> QED
      BY <1>0, LeastSet
  <1>2. D \in SUBSET C /\ ~(SumFunctionOnSet(f, Over(D)) <= SumFunctionOnSet(k, D))
    OBVIOUS
  <1>3. IsFiniteSet(D)
    BY <1>2, FS_Subset
  <1>4. D # {}
    <2> SUFFICES ASSUME D = {}
                 PROVE  FALSE
      OBVIOUS
    <2>1. Over(D) = {}
      OBVIOUS
    <2>2. SumFunctionOnSet(f, Over(D)) = 0 /\ SumFunctionOnSet(k, D) = 0
      BY <2>1, SumEmpty
    <2> HIDE DEF k, Over
    <2> QED
      BY <1>2, <2>2
  <1> DEFINE c0 == PickOf(D)
             E == D \ {c0}
  <1>5. c0 \in D /\ E \in SUBSET C /\ E # D /\ E \subseteq D
    BY <1>2, <1>4, PickIn
  <1>6. SumFunctionOnSet(f, Over(E)) <= SumFunctionOnSet(k, E)
    <2> HIDE DEF E, k, Over
    <2> QED
      BY <1>1, <1>5
  <1>7. SumFunctionOnSet(k, D) = k[c0] + SumFunctionOnSet(k, E)
    BY <1>3, <1>4, SumPick
  <1>8. Over(D) = G[c0] \cup Over(E)
    BY <1>5
  <1>9. /\ G[c0] \in SUBSET R /\ Over(E) \in SUBSET R
        /\ IsFiniteSet(G[c0]) /\ IsFiniteSet(Over(E)) /\ IsFiniteSet(E)
    <2>1. G[c0] \in SUBSET R /\ Over(E) \in SUBSET R
      BY <1>2, <1>5
    <2>2. IsFiniteSet(G[c0]) /\ IsFiniteSet(Over(E))
      <3> HIDE DEF c0, Over
      <3> QED
        BY <2>1, FS_Subset
    <2>3. IsFiniteSet(E)
      BY <1>3, <1>5, FS_Subset
    <2> QED
      BY <2>1, <2>2, <2>3
  <1>10. SumFunctionOnSet(f, G[c0] \cup Over(E))
             <= SumFunctionOnSet(f, G[c0]) + SumFunctionOnSet(f, Over(E))
    <2> DEFINE P == G[c0]
               Q == Over(E)
    <2>1. IsFiniteSet(P) /\ IsFiniteSet(Q) /\ \A x \in P \cup Q : f[x] \in Nat
      BY <1>9
    <2> HIDE DEF P, Q
    <2>2. SumFunctionOnSet(f, P \cup Q) <= SumFunctionOnSet(f, P) + SumFunctionOnSet(f, Q)
      BY <2>1, SumCoverTwo
    <2> QED
      BY <2>2 DEF P, Q
  <1>11. k[c0] = SumFunctionOnSet(f, G[c0])
    BY <1>2, <1>5
  <1>12. \A c \in C : SumFunctionOnSet(f, G[c]) \in Nat
    <2> TAKE c \in C
    <2>1. G[c] \in SUBSET R
      OBVIOUS
    <2>2. IsFiniteSet(G[c]) /\ \A x \in G[c] : f[x] \in Nat
      BY <2>1, FS_Subset
    <2> QED
      BY <2>2, SumNat
  <1>13. SumFunctionOnSet(f, Over(E)) \in Nat
    <2>1. \A x \in Over(E) : f[x] \in Nat
      BY <1>9
    <2> HIDE DEF Over
    <2> QED
      BY <1>9, <2>1, SumNat
  <1>14. SumFunctionOnSet(k, E) \in Nat
    <2>1. \A c \in E : k[c] \in Nat
      BY <1>5, <1>12
    <2> HIDE DEF k, E
    <2> QED
      BY <1>9, <2>1, SumNat
  <1>15. SumFunctionOnSet(f, Over(D)) \in Nat
    <2>1. Over(D) \in SUBSET R
      BY <1>8, <1>9
    <2> HIDE DEF Over
    <2>2. IsFiniteSet(Over(D)) /\ \A x \in Over(D) : f[x] \in Nat
      BY <2>1, FS_Subset
    <2> QED
      BY <2>2, SumNat
  <1>16. SumFunctionOnSet(f, G[c0]) \in Nat
    BY <1>2, <1>5, <1>12
  <1> HIDE DEF k, Over, B, c0, E
  <1> QED
    BY <1>2, <1>6, <1>7, <1>8, <1>10, <1>11, <1>13, <1>14, <1>15, <1>16

-----------------------------------------------------------------------------
(* Two sets without a common member sum to what they sum to together, and   *)
(* so does a finite family of them.                                        *)
LEMMA SumDisjoint ==
    ASSUME NEW f, NEW S, IsFiniteSet(S), NEW T, IsFiniteSet(T), S \cap T = {},
           \A x \in S \cup T : f[x] \in Int
    PROVE  SumFunctionOnSet(f, S \cup T) = SumFunctionOnSet(f, S) + SumFunctionOnSet(f, T)
  <1> DEFINE Sm(V) == SumFunctionOnSet(f, V)
             B == { V \in SUBSET T : ~(Sm(S \cup V) = Sm(S) + Sm(V)) }
  <1> SUFFICES ASSUME B # {}
               PROVE  FALSE
    OBVIOUS
  <1>0. B \in SUBSET SUBSET T
    OBVIOUS
  <1>1. PICK V \in B : \A W \in B : W \subseteq V => W = V
    <2> HIDE DEF B
    <2> QED
      BY <1>0, LeastSet
  <1>2. V \in SUBSET T /\ ~(Sm(S \cup V) = Sm(S) + Sm(V)) /\ IsFiniteSet(V)
    BY FS_Subset
  <1>3. Sm(S) \in Int
    BY SumInt
  <1>4. V # {}
    <2> SUFFICES ASSUME V = {}
                 PROVE  FALSE
      OBVIOUS
    <2>1. S \cup V = S /\ Sm(V) = 0
      BY SumEmpty
    <2> HIDE DEF Sm
    <2> QED
      BY <1>2, <1>3, <2>1
  <1> DEFINE x == PickOf(V)
             W == V \ {x}
  <1>5. x \in V /\ W \in SUBSET T /\ W # V /\ W \subseteq V
    BY <1>2, <1>4, PickIn
  <1>6. IsFiniteSet(W) /\ IsFiniteSet(S \cup W)
    BY <1>2, <1>5, FS_Subset, FS_Union
  <1>7. Sm(S \cup W) = Sm(S) + Sm(W)
    <2> HIDE DEF Sm, W
    <2> QED
      BY <1>1, <1>5
  <1>8. Sm(V) = f[x] + Sm(W)
    BY <1>2, <1>4, SumPick
  <1>9. Sm(W) \in Int
    <2>1. \A y \in W : f[y] \in Int
      BY <1>5
    <2> HIDE DEF W
    <2> QED
      BY <1>6, <2>1, SumInt
  <1>10. Sm(S \cup V) = Sm(S \cup W) + f[x]
    <2>1. x \notin S \cup W /\ f[x] \in Int /\ \A y \in S \cup W : f[y] \in Int
      BY <1>2, <1>5
    <2>2. (S \cup W) \cup {x} = S \cup V
      BY <1>5
    <2>3. Sm((S \cup W) \cup {x}) = Sm(S \cup W) + f[x]
      <3> HIDE DEF W, x
      <3> QED
        BY <1>6, <2>1, SumAdd
    <2> QED
      BY <2>2, <2>3, Zenon
  <1>11. f[x] \in Int
    BY <1>2, <1>5
  <1> HIDE DEF Sm, W, x, B
  <1> QED
    BY <1>2, <1>3, <1>7, <1>8, <1>9, <1>10, <1>11

LEMMA SumPartition ==
    ASSUME NEW f, NEW R, IsFiniteSet(R), \A x \in R : f[x] \in Nat,
           NEW C, IsFiniteSet(C), NEW G \in [C -> SUBSET R],
           \A c, d \in C : c # d => G[c] \cap G[d] = {}
    PROVE  SumFunctionOnSet(f, UNION { G[c] : c \in C })
               = SumFunctionOnSet([c \in C |-> SumFunctionOnSet(f, G[c])], C)
  <1> DEFINE k == [c \in C |-> SumFunctionOnSet(f, G[c])]
             Over(D) == UNION { G[c] : c \in D }
             B == { D \in SUBSET C : ~(SumFunctionOnSet(f, Over(D)) = SumFunctionOnSet(k, D)) }
  <1> SUFFICES ASSUME B # {}
               PROVE  FALSE
    OBVIOUS
  <1>0. B \in SUBSET SUBSET C
    OBVIOUS
  <1>1. PICK D \in B : \A E \in B : E \subseteq D => E = D
    <2> HIDE DEF B
    <2> QED
      BY <1>0, LeastSet
  <1>2. D \in SUBSET C /\ ~(SumFunctionOnSet(f, Over(D)) = SumFunctionOnSet(k, D))
    OBVIOUS
  <1>3. IsFiniteSet(D)
    BY <1>2, FS_Subset
  <1>4. D # {}
    <2> SUFFICES ASSUME D = {}
                 PROVE  FALSE
      OBVIOUS
    <2>1. Over(D) = {}
      OBVIOUS
    <2>2. SumFunctionOnSet(f, Over(D)) = 0 /\ SumFunctionOnSet(k, D) = 0
      BY <2>1, SumEmpty
    <2> HIDE DEF k, Over
    <2> QED
      BY <1>2, <2>2
  <1> DEFINE c0 == PickOf(D)
             E == D \ {c0}
  <1>5. c0 \in D /\ E \in SUBSET C /\ E # D /\ E \subseteq D
    BY <1>2, <1>4, PickIn
  <1>6. SumFunctionOnSet(f, Over(E)) = SumFunctionOnSet(k, E)
    <2> HIDE DEF E, k, Over
    <2> QED
      BY <1>1, <1>5
  <1>7. SumFunctionOnSet(k, D) = k[c0] + SumFunctionOnSet(k, E)
    BY <1>3, <1>4, SumPick
  <1>8. Over(D) = G[c0] \cup Over(E)
    BY <1>5
  <1>9. G[c0] \in SUBSET R /\ Over(E) \in SUBSET R /\ G[c0] \cap Over(E) = {}
    <2>1. \A e \in E : e \in C /\ e # c0
      BY <1>5
    <2> QED
      BY <1>2, <1>5, <2>1
  <1>10. SumFunctionOnSet(f, G[c0] \cup Over(E))
             = SumFunctionOnSet(f, G[c0]) + SumFunctionOnSet(f, Over(E))
    <2> DEFINE P == G[c0]
               Q == Over(E)
    <2>1. P \in SUBSET R /\ Q \in SUBSET R /\ P \cap Q = {} /\ \A x \in P \cup Q : f[x] \in Int
      BY <1>9
    <2> HIDE DEF P, Q
    <2>2. IsFiniteSet(P) /\ IsFiniteSet(Q)
      BY <2>1, FS_Subset
    <2>3. SumFunctionOnSet(f, P \cup Q) = SumFunctionOnSet(f, P) + SumFunctionOnSet(f, Q)
      BY <2>1, <2>2, SumDisjoint
    <2> QED
      BY <2>3 DEF P, Q
  <1>11. k[c0] = SumFunctionOnSet(f, G[c0])
    BY <1>2, <1>5
  <1> HIDE DEF k, Over, B, c0, E
  <1> QED
    BY <1>2, <1>6, <1>7, <1>8, <1>10, <1>11

(* The same entries under other names.                                     *)
LEMMA SumRenamed ==
    ASSUME NEW f, NEW g, NEW S, IsFiniteSet(S), NEW h,
           \A x \in S : f[x] \in Int /\ g[h[x]] = f[x],
           \A x, y \in S : h[x] = h[y] => x = y
    PROVE  SumFunctionOnSet(g, { h[x] : x \in S }) = SumFunctionOnSet(f, S)
  <1> DEFINE Im(V) == { h[x] : x \in V }
             B == { V \in SUBSET S : ~( /\ IsFiniteSet(Im(V))
                                       /\ SumFunctionOnSet(g, Im(V)) = SumFunctionOnSet(f, V)) }
  <1> SUFFICES ASSUME B # {}
               PROVE  FALSE
    OBVIOUS
  <1>0. B \in SUBSET SUBSET S
    OBVIOUS
  <1>1. PICK V \in B : \A W \in B : W \subseteq V => W = V
    <2> HIDE DEF B
    <2> QED
      BY <1>0, LeastSet
  <1>2. /\ V \in SUBSET S /\ IsFiniteSet(V)
        /\ ~(IsFiniteSet(Im(V)) /\ SumFunctionOnSet(g, Im(V)) = SumFunctionOnSet(f, V))
    BY FS_Subset
  <1>3. V # {}
    <2> SUFFICES ASSUME V = {}
                 PROVE  FALSE
      OBVIOUS
    <2>1. Im(V) = {}
      OBVIOUS
    <2> HIDE DEF Im
    <2> QED
      BY <1>2, <2>1, SumEmpty, FS_EmptySet
  <1> DEFINE x == PickOf(V)
             W == V \ {x}
  <1>4. x \in V /\ W \in SUBSET S /\ W # V /\ W \subseteq V
    BY <1>2, <1>3, PickIn
  <1>5. IsFiniteSet(Im(W)) /\ SumFunctionOnSet(g, Im(W)) = SumFunctionOnSet(f, W)
    <2> HIDE DEF Im, W
    <2> QED
      BY <1>1, <1>4
  <1>6. SumFunctionOnSet(f, V) = f[x] + SumFunctionOnSet(f, W)
    BY <1>2, <1>3, SumPick
  <1>7. SumFunctionOnSet(f, W) \in Int
    <2>1. IsFiniteSet(W) /\ \A y \in W : f[y] \in Int
      BY <1>2, <1>4, FS_Subset
    <2> HIDE DEF W
    <2> QED
      BY <2>1, SumInt
  <1>8. h[x] \notin Im(W) /\ Im(V) = Im(W) \cup {h[x]} /\ g[h[x]] = f[x] /\ f[x] \in Int
    BY <1>2, <1>4
  <1>9. \A y \in Im(W) : g[y] \in Int
    BY <1>4
  <1> DEFINE U == Im(W)
             z == h[x]
  <1>10. /\ IsFiniteSet(U) /\ z \notin U /\ g[z] \in Int /\ \A y \in U : g[y] \in Int
         /\ Im(V) = U \cup {z}
    BY <1>5, <1>8, <1>9
  <1>11. IsFiniteSet(U \cup {z}) /\ SumFunctionOnSet(g, U \cup {z}) = SumFunctionOnSet(g, U) + g[z]
    <2> HIDE DEF U, z, Im, W, x
    <2> QED
      BY <1>10, SumAdd, FS_AddElement
  <1>12. SumFunctionOnSet(g, Im(V)) = SumFunctionOnSet(g, U) + g[z] /\ IsFiniteSet(Im(V))
    BY <1>10, <1>11, Zenon
  <1>13. SumFunctionOnSet(g, U) = SumFunctionOnSet(f, W) /\ g[z] = f[x] /\ f[x] \in Int
    BY <1>5, <1>8
  <1> HIDE DEF Im, U, z, W, x, B
  <1> QED
    BY <1>2, <1>6, <1>7, <1>12, <1>13

-----------------------------------------------------------------------------
(* The sum of a whole table column, when a row comes or goes.              *)
LEMMA RowAdded ==
    ASSUME NEW f, NEW g, NEW S, NEW x, IsFiniteSet(S), x \notin S,
           DOMAIN f = S, DOMAIN g = S \cup {x},
           \A y \in S : f[y] \in Int /\ g[y] = f[y], g[x] \in Int
    PROVE  SumFunction(g) = SumFunction(f) + g[x]
  <1>1. SumFunctionOnSet(g, S \cup {x}) = SumFunctionOnSet(g, S) + g[x]
    BY SumAdd
  <1>2. SumFunctionOnSet(g, S) = SumFunctionOnSet(f, S)
    BY SumSame
  <1> QED
    BY <1>1, <1>2 DEF SumFunction

LEMMA RowRemoved ==
    ASSUME NEW f, NEW g, NEW S, NEW x \in S, IsFiniteSet(S),
           DOMAIN f = S, DOMAIN g = S \ {x},
           \A y \in S : f[y] \in Int, \A y \in S \ {x} : g[y] = f[y]
    PROVE  SumFunction(g) = SumFunction(f) - f[x]
  <1> DEFINE T == S \ {x}
  <1>1. IsFiniteSet(T) /\ \A y \in T : g[y] = f[y] /\ f[y] \in Int
    BY FS_Subset
  <1>2. SumFunctionOnSet(f, S) = f[x] + SumFunctionOnSet(f, T)
    BY SumRemove
  <1>3. SumFunctionOnSet(g, T) = SumFunctionOnSet(f, T) /\ SumFunctionOnSet(f, T) \in Int
    <2> HIDE DEF T
    <2>1. SumFunctionOnSet(g, T) = SumFunctionOnSet(f, T)
      BY <1>1, SumSame
    <2>2. SumFunctionOnSet(f, T) \in Int
      BY <1>1, SumInt
    <2> QED
      BY <2>1, <2>2
  <1>4. SumFunction(f) = SumFunctionOnSet(f, S) /\ SumFunction(g) = SumFunctionOnSet(g, T)
    BY DEF SumFunction
  <1>5. f[x] \in Int
    OBVIOUS
  <1> HIDE DEF T
  <1> QED
    BY <1>2, <1>3, <1>4, <1>5

LEMMA ColumnNat ==
    ASSUME NEW f, IsFiniteSet(DOMAIN f), \A x \in DOMAIN f : f[x] \in Nat
    PROVE  SumFunction(f) \in Nat
  <1> DEFINE S == DOMAIN f
  <1>1. IsFiniteSet(S) /\ \A x \in S : f[x] \in Nat
    OBVIOUS
  <1> HIDE DEF S
  <1>2. SumFunctionOnSet(f, S) \in Nat
    BY <1>1, SumNat
  <1> QED
    BY <1>2 DEF SumFunction, S

LEMMA ColumnSubset ==
    ASSUME NEW f, NEW g, IsFiniteSet(DOMAIN g), DOMAIN f \subseteq DOMAIN g,
           \A x \in DOMAIN g : g[x] \in Nat, \A x \in DOMAIN f : f[x] = g[x]
    PROVE  SumFunction(f) <= SumFunction(g)
  <1> DEFINE S == DOMAIN g
             T == DOMAIN f
  <1>1. /\ IsFiniteSet(S) /\ T \in SUBSET S /\ IsFiniteSet(T)
        /\ \A x \in S : g[x] \in Nat
        /\ \A x \in T : f[x] = g[x]
    BY FS_Subset
  <1> HIDE DEF S, T
  <1>2. SumFunctionOnSet(g, T) <= SumFunctionOnSet(g, S)
    BY <1>1, SumSubset
  <1>3. SumFunctionOnSet(f, T) = SumFunctionOnSet(g, T)
    BY <1>1, SumSame
  <1> QED
    BY <1>2, <1>3 DEF SumFunction, S, T
=============================================================================
