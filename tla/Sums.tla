--------------------------------- MODULE Sums ---------------------------------
(***************************************************************************)
(* Induction over the subsets of a finite set, and what it proves of sums  *)
(* over one, SumFunctionOnSet of the community modules.                    *)
(*                                                                         *)
(* The induction is in the form of a smallest counterexample: a set of     *)
(* sets that is not empty has a member none of whose proper subsets is a   *)
(* member.                                                                 *)
(***************************************************************************)
EXTENDS FiniteSetTheorems, TLAPS

\* Of some subsets of a finite set one has no other within it.
LEMMA SmallestSubset ==
  ASSUME NEW S, IsFiniteSet(S), NEW T, T \subseteq SUBSET S, T # {}
  PROVE  \E U \in T : \A V \in T : V \subseteq U => V = U
<1> DEFINE R == StrictSubsetOrdering(S)
<1>1. IsWellFoundedOn(R, SUBSET S)
  BY FS_StrictSubsetOrderingWellFounded, FS_FiniteSubsetsOfFinite
<1>2. PICK U \in T : \A V \in T : ~(<<V, U>> \in R)
  <2> HIDE DEF R
  <2> QED
    BY <1>1, WFMin
<1> QED
  BY <1>2 DEF StrictSubsetOrdering

-----------------------------------------------------------------------------
(* The sum over a set is defined by picking its members one after another. *)

Pick(V) == CHOOSE x \in V : TRUE

\* g[V] is the sum of f over V, for each subset V of S.
Totals(g, f, S) ==
  g = [V \in SUBSET S |->
         IF V = {} THEN 0 ELSE f[Pick(V)] + g[V \ {Pick(V)}]]

\* The two cases of that.
LEMMA TotalsMeans ==
  ASSUME NEW g, NEW f, NEW S, Totals(g, f, S)
  PROVE  /\ g[{}] = 0
         /\ \A V \in SUBSET S : V # {} => g[V] = f[Pick(V)] + g[V \ {Pick(V)}]
<1>1. \A V \in SUBSET S :
        g[V] = IF V = {} THEN 0 ELSE f[Pick(V)] + g[V \ {Pick(V)}]
  <2> DEFINE rest(V) == IF V = {} THEN 0 ELSE f[Pick(V)] + g[V \ {Pick(V)}]
  <2>1. g = [V \in SUBSET S |-> rest(V)]
    BY DEF Totals
  <2> HIDE DEF rest
  <2>2. \A V \in SUBSET S : g[V] = rest(V)
    BY <2>1
  <2> QED
    BY <2>2 DEF rest
<1>2. {} \in SUBSET S
  OBVIOUS
<1> QED
  BY <1>1, <1>2

\* Two of them agree where both are defined.
LEMMA TotalsAgree ==
  ASSUME NEW f, NEW S, IsFiniteSet(S), NEW W, W \subseteq S,
         NEW g, Totals(g, f, S), NEW h, Totals(h, f, W)
  PROVE  \A V \in SUBSET W : g[V] = h[V]
<1> DEFINE T == {V \in SUBSET W : g[V] # h[V]}
<1>1. SUFFICES ASSUME T # {} PROVE FALSE
  OBVIOUS
<1>2. PICK V \in T : \A X \in T : X \subseteq V => X = V
  <2>1. T \subseteq SUBSET S
    OBVIOUS
  <2> HIDE DEF T
  <2> QED
    BY <1>1, <2>1, SmallestSubset
<1>3. CASE V = {}
  BY <1>2, <1>3, TotalsMeans
<1>4. CASE V # {}
  <2>1. Pick(V) \in V
    BY <1>4 DEF Pick
  <2>2. V \ {Pick(V)} \notin T /\ V \ {Pick(V)} \in SUBSET W
    BY <1>2, <2>1
  <2>3. g[V \ {Pick(V)}] = h[V \ {Pick(V)}]
    BY <2>2
  <2>4. g[V] = f[Pick(V)] + g[V \ {Pick(V)}]
    BY <1>2, <1>4, TotalsMeans
  <2>5. h[V] = f[Pick(V)] + h[V \ {Pick(V)}]
    BY <1>2, <1>4, TotalsMeans
  <2> QED
    BY <2>3, <2>4, <2>5
<1> QED
  BY <1>3, <1>4

\* There is one.
LEMMA TotalsExist ==
  ASSUME NEW f, NEW S, IsFiniteSet(S)
  PROVE  \E g : Totals(g, f, S)
<1> DEFINE T == {U \in SUBSET S : ~\E g : Totals(g, f, U)}
<1>1. SUFFICES ASSUME T # {} PROVE FALSE
  OBVIOUS
<1>2. PICK U \in T : \A X \in T : X \subseteq U => X = U
  <2> HIDE DEF T
  <2>1. T \subseteq SUBSET S
    BY DEF T
  <2> QED
    BY <1>1, <2>1, SmallestSubset
<1> DEFINE Of(V) == CHOOSE h : Totals(h, f, V)
           g == [V \in SUBSET U |->
                   IF V = {} THEN 0 ELSE f[Pick(V)] + Of(V \ {Pick(V)})[V \ {Pick(V)}]]
<1>3. ASSUME NEW V \in SUBSET U, V # U
      PROVE  Totals(Of(V), f, V)
  <2>1. V \notin T /\ V \in SUBSET S
    BY <1>2, <1>3
  <2> QED
    BY <2>1
<1>4. ASSUME NEW V \in SUBSET U, V # U
      PROVE  g[V] = Of(V)[V]
  <2>1. CASE V = {}
    <3>1. Of(V)[{}] = 0
      <4> HIDE DEF Of
      <4> QED
        BY <1>3, <1>4, TotalsMeans
    <3> QED
      BY <2>1, <3>1
  <2>2. CASE V # {}
    <3> DEFINE W == V \ {Pick(V)}
    <3>1. W \subseteq V /\ W # V /\ W \subseteq U /\ W # U /\ IsFiniteSet(V)
      BY <2>2, FS_Subset DEF Pick
    <3>2. Totals(Of(V), f, V) /\ Totals(Of(W), f, W)
      BY <1>3, <1>4, <3>1
    <3>3. Of(V)[W] = Of(W)[W]
      <4> HIDE DEF W, Of
      <4> QED
        BY <3>1, <3>2, TotalsAgree
    <3>4. Of(V)[V] = f[Pick(V)] + Of(V)[W]
      <4> HIDE DEF Of
      <4> QED
        BY <2>2, <3>2, TotalsMeans
    <3>5. g[V] = f[Pick(V)] + Of(W)[W]
      BY <2>2
    <3> QED
      BY <3>3, <3>4, <3>5
  <2> QED
    BY <2>1, <2>2
<1>5. \A V \in SUBSET U :
        g[V] = IF V = {} THEN 0 ELSE f[Pick(V)] + g[V \ {Pick(V)}]
  <2>0. g[{}] = 0
    OBVIOUS
  <2> SUFFICES ASSUME NEW V \in SUBSET U, V # {}
               PROVE  g[V] = f[Pick(V)] + g[V \ {Pick(V)}]
    <3> HIDE DEF g
    <3> QED
      BY <2>0
  <2> DEFINE W == V \ {Pick(V)}
  <2>1. W \in SUBSET U /\ W # U
    BY DEF Pick
  <2>2. g[W] = Of(W)[W]
    <3> HIDE DEF W
    <3> QED
      BY <2>1, <1>4
  <2>3. g[V] = f[Pick(V)] + Of(W)[W]
    OBVIOUS
  <2> QED
    BY <2>2, <2>3
<1>6. Totals(g, f, U)
  <2> DEFINE k == [V \in SUBSET U |->
                     IF V = {} THEN 0 ELSE f[Pick(V)] + g[V \ {Pick(V)}]]
  <2>1. \A V \in SUBSET U : g[V] = k[V]
    <3> HIDE DEF g
    <3> QED
      BY <1>5
  <2>2. g = k
    <3>1. g = [V \in SUBSET U |-> g[V]] /\ k = [V \in SUBSET U |-> k[V]]
      OBVIOUS
    <3> HIDE DEF g, k
    <3> QED
      BY <2>1, <3>1
  <2> HIDE DEF g
  <2> QED
    BY <2>2 DEF Totals
<1> QED
  BY <1>2, <1>6

\* SumFunctionOnSet is what they say.
LEMMA SumIsTotal ==
  ASSUME NEW f, NEW S, IsFiniteSet(S)
  PROVE  \E g : Totals(g, f, S) /\ SumFunctionOnSet(f, S) = g[S]
<1> DEFINE g == CHOOSE h : Totals(h, f, S)
<1>1. Totals(g, f, S)
  BY TotalsExist
<1>2. SumFunctionOnSet(f, S) = g[S]
  BY DEF SumFunctionOnSet, FoldFunctionOnSet, MapThenFoldSet, Totals, Pick
<1> QED
  BY <1>1, <1>2
-----------------------------------------------------------------------------
(* What the proofs about sums need.                                        *)

\* A sum is taken from any of its members first; the sum over nothing is 0.
LEMMA SumPick ==
  ASSUME NEW f, NEW S, IsFiniteSet(S)
  PROVE  /\ S = {} => SumFunctionOnSet(f, S) = 0
         /\ S # {} => /\ Pick(S) \in S
                     /\ SumFunctionOnSet(f, S)
                          = f[Pick(S)] + SumFunctionOnSet(f, S \ {Pick(S)})
<1>1. PICK g : Totals(g, f, S) /\ SumFunctionOnSet(f, S) = g[S]
  BY SumIsTotal
<1>2. CASE S = {}
  BY <1>1, <1>2, TotalsMeans
<1>3. CASE S # {}
  <2> DEFINE W == S \ {Pick(S)}
  <2>1. Pick(S) \in S
    BY <1>3 DEF Pick
  <2>2. W \subseteq S /\ IsFiniteSet(W)
    BY FS_Subset
  <2>3. PICK h : Totals(h, f, W) /\ SumFunctionOnSet(f, W) = h[W]
    <3> HIDE DEF W
    <3> QED
      BY <2>2, SumIsTotal
  <2>4. g[W] = h[W]
    <3> HIDE DEF W
    <3> QED
      BY <1>1, <2>2, <2>3, TotalsAgree
  <2>5. g[S] = f[Pick(S)] + g[W]
    BY <1>1, <1>3, TotalsMeans
  <2> QED
    BY <1>1, <1>3, <2>1, <2>3, <2>4, <2>5
<1> QED
  BY <1>2, <1>3

\* The sum of naturals is one.
LEMMA SumIsNat ==
  ASSUME NEW f, NEW S, IsFiniteSet(S), \A x \in S : f[x] \in Nat
  PROVE  SumFunctionOnSet(f, S) \in Nat
<1> DEFINE T == {U \in SUBSET S : SumFunctionOnSet(f, U) \notin Nat}
<1>1. SUFFICES ASSUME T # {} PROVE FALSE
  OBVIOUS
<1>2. PICK U \in T : \A V \in T : V \subseteq U => V = U
  <2>1. T \subseteq SUBSET S
    OBVIOUS
  <2> HIDE DEF T
  <2> QED
    BY <1>1, <2>1, SmallestSubset
<1>3. IsFiniteSet(U)
  BY FS_Subset
<1>4. U # {}
  <2>1. SumFunctionOnSet(f, {}) = 0
    BY FS_EmptySet, SumPick
  <2> QED
    BY <2>1
<1>5. /\ Pick(U) \in U
      /\ SumFunctionOnSet(f, U) = f[Pick(U)] + SumFunctionOnSet(f, U \ {Pick(U)})
  BY <1>3, <1>4, SumPick
<1>6. SumFunctionOnSet(f, U \ {Pick(U)}) \in Nat
  BY <1>2, <1>5
<1>7. f[Pick(U)] \in Nat
  BY <1>5
<1> QED
  BY <1>5, <1>6, <1>7

\* Whichever member is taken first.
LEMMA SumTakes ==
  ASSUME NEW f, NEW S, IsFiniteSet(S), \A x \in S : f[x] \in Nat, NEW a \in S
  PROVE  SumFunctionOnSet(f, S) = f[a] + SumFunctionOnSet(f, S \ {a})
<1> DEFINE Sum(V) == SumFunctionOnSet(f, V)
           T == {U \in SUBSET S : \E x \in U : Sum(U) # f[x] + Sum(U \ {x})}
<1>1. SUFFICES ASSUME T # {} PROVE FALSE
  OBVIOUS
<1>2. PICK U \in T : \A V \in T : V \subseteq U => V = U
  <2>1. T \subseteq SUBSET S
    OBVIOUS
  <2> HIDE DEF T
  <2> QED
    BY <1>1, <2>1, SmallestSubset
<1>3. PICK x \in U : Sum(U) # f[x] + Sum(U \ {x})
  OBVIOUS
<1> DEFINE y == Pick(U)
<1>4. IsFiniteSet(U) /\ y \in U /\ Sum(U) = f[y] + Sum(U \ {y})
  BY FS_Subset, SumPick
<1>5. x # y
  BY <1>3, <1>4
<1> HIDE DEF y
<1>6. Sum(U \ {y}) = f[x] + Sum((U \ {y}) \ {x})
  <2>1. U \ {y} \notin T /\ U \ {y} \in SUBSET S
    BY <1>2, <1>4
  <2> QED
    BY <1>5, <2>1
<1>7. Sum(U \ {x}) = f[y] + Sum((U \ {x}) \ {y})
  <2>1. U \ {x} \notin T /\ U \ {x} \in SUBSET S
    BY <1>2, <1>4
  <2> QED
    BY <1>4, <1>5, <2>1
<1>8. (U \ {x}) \ {y} = (U \ {y}) \ {x}
  OBVIOUS
<1>9. f[x] \in Nat /\ f[y] \in Nat /\ Sum((U \ {y}) \ {x}) \in Nat
  <2>1. IsFiniteSet((U \ {y}) \ {x}) /\ (U \ {y}) \ {x} \subseteq S
    BY FS_Subset
  <2> QED
    BY <1>4, <2>1, SumIsNat
<1> DEFINE rest == Sum((U \ {y}) \ {x})
<1>10. Sum(U) = f[y] + (f[x] + rest) /\ Sum(U \ {x}) = f[y] + rest
  BY <1>4, <1>6, <1>7, <1>8
<1>11. rest \in Nat
  BY <1>9
<1> HIDE DEF rest
<1>12. f[y] + (f[x] + rest) = f[x] + (f[y] + rest)
  BY <1>9, <1>11
<1> QED
  BY <1>3, <1>10, <1>12

\* A function that is nowhere more sums up to no more.
LEMMA SumMonotonic ==
  ASSUME NEW f, NEW g, NEW S, IsFiniteSet(S),
         \A x \in S : f[x] \in Nat /\ g[x] \in Nat /\ f[x] <= g[x]
  PROVE  SumFunctionOnSet(f, S) <= SumFunctionOnSet(g, S)
<1> DEFINE T == {U \in SUBSET S : ~(SumFunctionOnSet(f, U) <= SumFunctionOnSet(g, U))}
<1>1. SUFFICES ASSUME T # {} PROVE FALSE
  OBVIOUS
<1>2. PICK U \in T : \A V \in T : V \subseteq U => V = U
  <2>1. T \subseteq SUBSET S
    OBVIOUS
  <2> HIDE DEF T
  <2> QED
    BY <1>1, <2>1, SmallestSubset
<1>3. IsFiniteSet(U)
  BY FS_Subset
<1>4. CASE U = {}
  <2>1. SumFunctionOnSet(f, U) = 0 /\ SumFunctionOnSet(g, U) = 0
    BY <1>3, <1>4, SumPick
  <2> QED
    BY <2>1
<1>5. CASE U # {}
  <2> DEFINE W == U \ {Pick(U)}
  <2>1. /\ Pick(U) \in U
        /\ SumFunctionOnSet(f, U) = f[Pick(U)] + SumFunctionOnSet(f, W)
        /\ SumFunctionOnSet(g, U) = g[Pick(U)] + SumFunctionOnSet(g, W)
    BY <1>3, <1>5, SumPick
  <2>2. W \subseteq S /\ W # U /\ W \subseteq U /\ IsFiniteSet(W)
    BY <2>1, <1>3, FS_Subset
  <2>3. SumFunctionOnSet(f, W) <= SumFunctionOnSet(g, W)
    BY <1>2, <2>2
  <2> HIDE DEF W
  <2>4. SumFunctionOnSet(f, W) \in Nat /\ SumFunctionOnSet(g, W) \in Nat
    BY <2>2, SumIsNat
  <2>5. f[Pick(U)] \in Nat /\ g[Pick(U)] \in Nat /\ f[Pick(U)] <= g[Pick(U)]
    BY <2>1
  <2> QED
    BY <2>1, <2>3, <2>4, <2>5
<1> QED
  BY <1>4, <1>5

\* Only the values on the set count.
LEMMA SumSame ==
  ASSUME NEW f, NEW g, NEW S, IsFiniteSet(S), \A x \in S : f[x] \in Nat /\ f[x] = g[x]
  PROVE  SumFunctionOnSet(f, S) = SumFunctionOnSet(g, S)
<1>1. /\ SumFunctionOnSet(f, S) <= SumFunctionOnSet(g, S)
      /\ SumFunctionOnSet(g, S) <= SumFunctionOnSet(f, S)
  BY SumMonotonic
<1>2. SumFunctionOnSet(f, S) \in Nat /\ SumFunctionOnSet(g, S) \in Nat
  BY SumIsNat
<1> QED
  BY <1>1, <1>2

\* When one value changes, the sum changes by as much.
LEMMA SumChanges ==
  ASSUME NEW f, NEW g, NEW S, IsFiniteSet(S), NEW a \in S,
         \A x \in S : f[x] \in Nat /\ g[x] \in Nat,
         \A x \in S \ {a} : g[x] = f[x]
  PROVE  SumFunctionOnSet(g, S) + f[a] = SumFunctionOnSet(f, S) + g[a]
<1> DEFINE W == S \ {a}
<1>1. IsFiniteSet(W) /\ \A x \in W : f[x] \in Nat /\ f[x] = g[x]
  BY FS_Subset
<1>2. SumFunctionOnSet(f, W) = SumFunctionOnSet(g, W)
  <2> HIDE DEF W
  <2> QED
    BY <1>1, SumSame
<1>3. SumFunctionOnSet(f, W) \in Nat
  <2> HIDE DEF W
  <2> QED
    BY <1>1, SumIsNat
<1>4. /\ SumFunctionOnSet(f, S) = f[a] + SumFunctionOnSet(f, W)
      /\ SumFunctionOnSet(g, S) = g[a] + SumFunctionOnSet(g, W)
  BY SumTakes
<1> QED
  BY <1>2, <1>3, <1>4

\* Zeros sum up to zero.
LEMMA SumOfZeros ==
  ASSUME NEW f, NEW S, IsFiniteSet(S), \A x \in S : f[x] = 0
  PROVE  SumFunctionOnSet(f, S) = 0
<1> DEFINE T == {U \in SUBSET S : SumFunctionOnSet(f, U) # 0}
<1>1. SUFFICES ASSUME T # {} PROVE FALSE
  OBVIOUS
<1>2. PICK U \in T : \A V \in T : V \subseteq U => V = U
  <2>1. T \subseteq SUBSET S
    OBVIOUS
  <2> HIDE DEF T
  <2> QED
    BY <1>1, <2>1, SmallestSubset
<1>3. IsFiniteSet(U)
  BY FS_Subset
<1>4. /\ Pick(U) \in U
      /\ SumFunctionOnSet(f, U) = f[Pick(U)] + SumFunctionOnSet(f, U \ {Pick(U)})
  BY <1>3, SumPick
<1>5. SumFunctionOnSet(f, U \ {Pick(U)}) = 0
  BY <1>2, <1>4
<1>6. f[Pick(U)] = 0
  BY <1>4
<1> QED
  BY <1>4, <1>5, <1>6
=============================================================================
