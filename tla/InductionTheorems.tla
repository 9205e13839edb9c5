------------------------ MODULE InductionTheorems ------------------------
(***************************************************************************)
(* Facts that need induction, each by a minimal counterexample (the strict *)
(* subsets of a finite set are well founded): sums over finite sets        *)
(* (SumFunctionOnSet of module Functions), least and greatest numbers,     *)
(* functions that are defined by recursion along the parents of a tree or  *)
(* over the steps of a loop.                                               *)
(***************************************************************************)
EXTENDS Integers, FiniteSets, Functions, FiniteSetTheorems, WellFoundedInduction, TLAPS

(* A set of subsets of a finite set has a minimal element.                 *)
LEMMA MinimalSubset ==
  ASSUME NEW S, IsFiniteSet(S), NEW T, T \subseteq SUBSET S, T # {}
  PROVE  \E x \in T : \A y \in T : ~(y \subseteq x /\ y # x)
<1>1. IsWellFoundedOn(StrictSubsetOrdering(S), SUBSET S)
  BY FS_StrictSubsetOrderingWellFounded, FS_FiniteSubsetsOfFinite
<1>2. PICK x \in T : \A y \in T : ~(<<y, x>> \in StrictSubsetOrdering(S))
  BY <1>1, WFMin
<1>3. ASSUME NEW y \in T, y \subseteq x, y # x PROVE FALSE
  <2>1. <<y, x>> \in (SUBSET S) \X (SUBSET S)
    OBVIOUS
  <2>2. <<y, x>> \in StrictSubsetOrdering(S)
    BY <2>1, <1>3 DEF StrictSubsetOrdering
  <2> QED BY <2>2, <1>2
<1> QED BY <1>2, <1>3

(* What the recursive function in SumFunctionOnSet(f, s) is.               *)
IsSum(g, f, s) ==
  g = [t \in SUBSET s |-> IF t = {} THEN 0
                          ELSE f[CHOOSE y \in t : TRUE] + g[t \ {CHOOSE y \in t : TRUE}]]

(* The community modules define a sum by a recursive function that is      *)
(* chosen.                                                                 *)
LEMMA SumIsChosen ==
  ASSUME NEW f, NEW S
  PROVE  SumFunctionOnSet(f, S) = (CHOOSE g : IsSum(g, f, S))[S]
BY DEF SumFunctionOnSet, FoldFunctionOnSet, MapThenFoldSet, IsSum

(* Two such functions agree wherever both are defined.                     *)
LEMMA SumUnique ==
  ASSUME NEW f, NEW g, NEW h, NEW s, NEW t, NEW u,
         IsFiniteSet(s), IsSum(g, f, s), IsSum(h, f, t), u \subseteq s, u \subseteq t
  PROVE  g[u] = h[u]
<1> DEFINE T == {v \in SUBSET s : v \subseteq t /\ g[v] # h[v]}
<1>1. SUFFICES ASSUME T # {} PROVE FALSE
  OBVIOUS
<1>2. PICK v \in T : \A y \in T : ~(y \subseteq v /\ y # v)
  <2>1. T \subseteq SUBSET s
    OBVIOUS
  <2> HIDE DEF T
  <2> QED BY <1>1, <2>1, MinimalSubset
<1>3. CASE v = {}
  BY <1>2, <1>3 DEF IsSum
<1>4. CASE v # {}
  <2> DEFINE w == v \ {CHOOSE y \in v : TRUE}
  <2>1. w \subseteq v /\ w # v
    BY <1>4
  <2>2. g[w] = h[w]
    BY <2>1, <1>2
  <2>3. g[v] = f[CHOOSE y \in v : TRUE] + g[w]
    BY <1>4, <1>2 DEF IsSum
  <2>4. h[v] = f[CHOOSE y \in v : TRUE] + h[w]
    BY <1>4, <1>2 DEF IsSum
  <2> QED BY <2>2, <2>3, <2>4, <1>2
<1> QED BY <1>3, <1>4

(* There is one for every finite set.                                      *)
LEMMA SumExists ==
  ASSUME NEW f, NEW S, IsFiniteSet(S)
  PROVE  \E g : IsSum(g, f, S)
<1> DEFINE T == {s \in SUBSET S : ~ \E g : IsSum(g, f, s)}
<1>1. SUFFICES ASSUME T # {} PROVE FALSE
  OBVIOUS
<1>2. PICK s \in T : \A y \in T : ~(y \subseteq s /\ y # s)
  <2>1. T \subseteq SUBSET S
    OBVIOUS
  <2> HIDE DEF T
  <2> QED BY <1>1, <2>1, MinimalSubset
<1> DEFINE G(t) == CHOOSE g : IsSum(g, f, t)
           First(t) == CHOOSE y \in t : TRUE
           Below(t) == t \ {First(t)}
<1>3. ASSUME NEW t \in SUBSET s, t # s PROVE IsSum(G(t), f, t)
  <2>1. t \notin T /\ t \in SUBSET S
    BY <1>2, <1>3
  <2>2. \E g : IsSum(g, f, t)
    BY <2>1
  <2> QED BY <2>2
<1>4. ASSUME NEW t \in SUBSET s, t # s, t # {}
      PROVE  G(t)[t] = f[First(t)] + G(Below(t))[Below(t)]
  <2>1. Below(t) \in SUBSET t /\ Below(t) \in SUBSET s /\ Below(t) # s
    BY <1>4
  <2>2. IsSum(G(t), f, t) /\ IsSum(G(Below(t)), f, Below(t))
    BY <2>1, <1>3, <1>4
  <2>3. IsFiniteSet(t)
    BY FS_Subset
  <2> HIDE DEF G, Below
  <2>4. G(t)[Below(t)] = G(Below(t))[Below(t)]
    BY <2>1, <2>2, <2>3, SumUnique
  <2>5. G(t)[t] = f[First(t)] + G(t)[Below(t)]
    BY <2>2, <1>4 DEF IsSum, Below
  <2> QED BY <2>4, <2>5
<1>5. ASSUME NEW t \in SUBSET s, t # s, t = {} PROVE G(t)[t] = 0
  <2> HIDE DEF G
  <2> QED BY <1>3, <1>5 DEF IsSum
<1> DEFINE Body(t) == IF t = {} THEN 0 ELSE f[First(t)] + G(Below(t))[Below(t)]
           g == [t \in SUBSET s |-> Body(t)]
<1>6. ASSUME NEW t \in SUBSET s, t # {}
      PROVE  g[Below(t)] = G(Below(t))[Below(t)]
  <2>1. Below(t) \in SUBSET s /\ Below(t) # s
    BY <1>6
  <2>2. g[Below(t)] = Body(Below(t))
    BY <2>1
  <2>3. G(Below(t))[Below(t)] = Body(Below(t))
    <3> DEFINE w == Below(t)
    <3>1. w \in SUBSET s /\ w # s
      BY <2>1
    <3> HIDE DEF w, G
    <3> SUFFICES G(w)[w] = Body(w)
      BY DEF w
    <3> HIDE DEF Below, First
    <3>2. CASE w = {}
      BY <3>1, <3>2, <1>5
    <3>3. CASE w # {}
      BY <3>1, <3>3, <1>4
    <3> QED BY <3>2, <3>3
  <2> HIDE DEF g, G, Body, Below
  <2> QED BY <2>2, <2>3
<1>7. g = [t \in SUBSET s |-> IF t = {} THEN 0 ELSE f[First(t)] + g[Below(t)]]
  <2>1. ASSUME NEW t \in SUBSET s
        PROVE  Body(t) = IF t = {} THEN 0 ELSE f[First(t)] + g[Below(t)]
    <3> HIDE DEF g, G, Below, First
    <3> QED BY <1>6
  <2> DEFINE h == [t \in SUBSET s |-> IF t = {} THEN 0 ELSE f[First(t)] + g[Below(t)]]
  <2>2. \A t \in SUBSET s : g[t] = h[t]
    <3> HIDE DEF Body, First, Below
    <3> QED BY <2>1
  <2>3. g = h
    <3> HIDE DEF Body, First, Below
    <3>1. DOMAIN g = SUBSET s /\ DOMAIN h = SUBSET s
      OBVIOUS
    <3>2. g = [t \in SUBSET s |-> g[t]] /\ h = [t \in SUBSET s |-> h[t]]
      OBVIOUS
    <3> HIDE DEF g, h
    <3> QED BY <3>1, <3>2, <2>2
  <2> QED BY <2>3
<1>8. IsSum(g, f, s)
  <2> HIDE DEF g
  <2> QED BY <1>7 DEF IsSum
<1> QED BY <1>8, <1>2

(* The sum takes the chosen element of the set first.                      *)
LEMMA SumUnfolds ==
  ASSUME NEW f, NEW S, IsFiniteSet(S), S # {}
  PROVE  LET x == CHOOSE y \in S : TRUE
         IN  SumFunctionOnSet(f, S) = f[x] + SumFunctionOnSet(f, S \ {x})
<1> DEFINE x == CHOOSE y \in S : TRUE
           G == CHOOSE g : IsSum(g, f, S)
           H == CHOOSE g : IsSum(g, f, S \ {x})
<1>1. IsFiniteSet(S \ {x})
  BY FS_RemoveElement
<1>2. IsSum(G, f, S) /\ IsSum(H, f, S \ {x})
  BY <1>1, SumExists
<1>3. G[S] = f[x] + G[S \ {x}]
  <2> HIDE DEF G
  <2> QED BY <1>2 DEF IsSum
<1>4. G[S \ {x}] = H[S \ {x}]
  <2> DEFINE u == S \ {x}
  <2>1. u \subseteq S /\ IsSum(H, f, u)
    BY <1>2
  <2> HIDE DEF G, H, u
  <2>2. G[u] = H[u]
    BY <1>2, <2>1, SumUnique
  <2> QED BY <2>2 DEF u
<1>5. SumFunctionOnSet(f, S) = G[S] /\ SumFunctionOnSet(f, S \ {x}) = H[S \ {x}]
  BY SumIsChosen
<1> QED BY <1>3, <1>4, <1>5

(* The empty sum.                                                          *)
LEMMA SumEmpty ==
  ASSUME NEW f
  PROVE  SumFunctionOnSet(f, {}) = 0
<1> DEFINE G == CHOOSE g : IsSum(g, f, {})
<1>1. IsSum(G, f, {})
  BY SumExists, FS_EmptySet
<1>2. G[{}] = 0
  <2> HIDE DEF G
  <2> QED BY <1>1 DEF IsSum
<1> QED BY <1>2, SumIsChosen

(* Sums of integers are integers, and any element may be taken out.        *)
LEMMA SumType ==
  ASSUME NEW f, NEW S, IsFiniteSet(S), \A x \in S : f[x] \in Int
  PROVE  SumFunctionOnSet(f, S) \in Int
<1> DEFINE T == {s \in SUBSET S : SumFunctionOnSet(f, s) \notin Int}
<1>1. SUFFICES ASSUME T # {} PROVE FALSE
  OBVIOUS
<1>2. PICK s \in T : \A y \in T : ~(y \subseteq s /\ y # s)
  <2>1. T \subseteq SUBSET S
    OBVIOUS
  <2> HIDE DEF T
  <2> QED BY <1>1, <2>1, MinimalSubset
<1>3. CASE s = {}
  BY <1>2, <1>3, SumEmpty
<1>4. CASE s # {}
  <2> DEFINE x == CHOOSE y \in s : TRUE
             w == s \ {x}
  <2>1. x \in s /\ w \subseteq s /\ w # s
    BY <1>4
  <2>2. SumFunctionOnSet(f, w) \in Int
    BY <2>1, <1>2
  <2>3. IsFiniteSet(s)
    BY FS_Subset
  <2>4. SumFunctionOnSet(f, s) = f[x] + SumFunctionOnSet(f, w)
    BY <2>3, <1>4, SumUnfolds
  <2>5. f[x] \in Int
    BY <2>1
  <2> HIDE DEF x, w
  <2> QED BY <2>2, <2>4, <2>5, <1>2
<1> QED BY <1>3, <1>4

(* Any element may be taken out of a sum.                                  *)
LEMMA SumTakeOut ==
  ASSUME NEW f, NEW S, IsFiniteSet(S), \A y \in S : f[y] \in Int, NEW x \in S
  PROVE  SumFunctionOnSet(f, S) = f[x] + SumFunctionOnSet(f, S \ {x})
<1> DEFINE Sum(s) == SumFunctionOnSet(f, s)
           T == {s \in SUBSET S : \E v \in s : Sum(s) # f[v] + Sum(s \ {v})}
<1>1. SUFFICES ASSUME T # {} PROVE FALSE
  OBVIOUS
<1>2. PICK s \in T : \A y \in T : ~(y \subseteq s /\ y # s)
  <2>1. T \subseteq SUBSET S
    OBVIOUS
  <2> HIDE DEF T
  <2> QED BY <1>1, <2>1, MinimalSubset
<1>3. PICK v \in s : Sum(s) # f[v] + Sum(s \ {v})
  BY <1>2
<1> DEFINE z == CHOOSE y \in s : TRUE
           rest == (s \ {z}) \ {v}
<1>4. IsFiniteSet(s) /\ z \in s /\ s \subseteq S
  BY <1>2, <1>3, FS_Subset
<1>5. Sum(s) = f[z] + Sum(s \ {z})
  BY <1>4, SumUnfolds
<1>6. CASE z = v
  BY <1>5, <1>6, <1>3
<1>7. CASE z # v
  <2>1. s \ {z} \notin T /\ s \ {v} \notin T
    BY <1>2, <1>4
  <2>2. Sum(s \ {z}) = f[v] + Sum(rest)
    BY <2>1, <1>4, <1>7
  <2>3. (s \ {v}) \ {z} = rest
    OBVIOUS
  <2>4. Sum(s \ {v}) = f[z] + Sum((s \ {v}) \ {z})
    BY <2>1, <1>4, <1>7
  <2>5. IsFiniteSet(rest) /\ rest \subseteq S
    BY <1>4, FS_Subset
  <2>6. Sum(rest) \in Int /\ f[v] \in Int /\ f[z] \in Int
    BY <2>5, <1>4, SumType
  <2>7. Sum(s \ {v}) = f[z] + Sum(rest)
    BY <2>3, <2>4
  <2> DEFINE r == Sum(rest)
             fv == f[v]
             fz == f[z]
  <2>8. Sum(s) = fz + (fv + r) /\ Sum(s \ {v}) = fz + r
    BY <1>5, <2>2, <2>7
  <2>9. r \in Int /\ fv \in Int /\ fz \in Int
    BY <2>6
  <2>10. Sum(s) # fv + Sum(s \ {v})
    BY <1>3
  <2> HIDE DEF r, fv, fz, Sum, z, T
  <2>11. fz + (fv + r) # fv + (fz + r)
    BY <2>8, <2>10
  <2> QED BY <2>9, <2>11
<1> QED BY <1>6, <1>7

(* Only the values on the set matter.                                      *)
LEMMA SumSame ==
  ASSUME NEW f, NEW g, NEW S, IsFiniteSet(S),
         \A x \in S : f[x] \in Int /\ g[x] = f[x]
  PROVE  SumFunctionOnSet(g, S) = SumFunctionOnSet(f, S)
<1> DEFINE T == {s \in SUBSET S : SumFunctionOnSet(g, s) # SumFunctionOnSet(f, s)}
<1>1. SUFFICES ASSUME T # {} PROVE FALSE
  OBVIOUS
<1>2. PICK s \in T : \A y \in T : ~(y \subseteq s /\ y # s)
  <2>1. T \subseteq SUBSET S
    OBVIOUS
  <2> HIDE DEF T
  <2> QED BY <1>1, <2>1, MinimalSubset
<1>3. PICK x \in s : TRUE
  <2>1. {} \notin T
    BY SumEmpty
  <2> QED BY <2>1, <1>2
<1>4. IsFiniteSet(s)
  BY FS_Subset
<1>5. s \ {x} \notin T
  BY <1>2, <1>3
<1>6. SumFunctionOnSet(g, s \ {x}) = SumFunctionOnSet(f, s \ {x})
  BY <1>5
<1>7. SumFunctionOnSet(g, s) = g[x] + SumFunctionOnSet(g, s \ {x})
  BY <1>4, SumTakeOut
<1>8. SumFunctionOnSet(f, s) = f[x] + SumFunctionOnSet(f, s \ {x})
  BY <1>4, SumTakeOut
<1>9. g[x] = f[x]
  OBVIOUS
<1> QED BY <1>6, <1>7, <1>8, <1>9, <1>2

(* The sum of the sums is the sum of the pointwise sums.                   *)
LEMMA SumPlus ==
  ASSUME NEW f, NEW g, NEW h, NEW S, IsFiniteSet(S),
         \A x \in S : f[x] \in Int /\ g[x] \in Int /\ h[x] = f[x] + g[x]
  PROVE  SumFunctionOnSet(h, S) = SumFunctionOnSet(f, S) + SumFunctionOnSet(g, S)
<1> DEFINE T == {s \in SUBSET S : SumFunctionOnSet(h, s) # SumFunctionOnSet(f, s) + SumFunctionOnSet(g, s)}
<1>1. SUFFICES ASSUME T # {} PROVE FALSE
  OBVIOUS
<1>2. PICK s \in T : \A y \in T : ~(y \subseteq s /\ y # s)
  <2>1. T \subseteq SUBSET S
    OBVIOUS
  <2> HIDE DEF T
  <2> QED BY <1>1, <2>1, MinimalSubset
<1>3. PICK x \in s : TRUE
  <2>1. {} \notin T
    BY SumEmpty
  <2> QED BY <2>1, <1>2
<1>4. IsFiniteSet(s) /\ IsFiniteSet(s \ {x}) /\ \A y \in s : h[y] \in Int
  BY FS_Subset
<1>5. s \ {x} \notin T
  BY <1>2, <1>3
<1>6. SumFunctionOnSet(h, s \ {x}) = SumFunctionOnSet(f, s \ {x}) + SumFunctionOnSet(g, s \ {x})
  BY <1>5
<1>7. SumFunctionOnSet(h, s) = h[x] + SumFunctionOnSet(h, s \ {x})
  BY <1>4, SumTakeOut
<1>8. SumFunctionOnSet(f, s) = f[x] + SumFunctionOnSet(f, s \ {x})
  BY <1>4, SumTakeOut
<1>9. SumFunctionOnSet(g, s) = g[x] + SumFunctionOnSet(g, s \ {x})
  BY <1>4, SumTakeOut
<1>10. SumFunctionOnSet(f, s \ {x}) \in Int /\ SumFunctionOnSet(g, s \ {x}) \in Int
  BY <1>4, SumType
<1>11. f[x] \in Int /\ g[x] \in Int /\ h[x] = f[x] + g[x]
  OBVIOUS
<1> HIDE DEF T
<1>12. SumFunctionOnSet(h, s) = SumFunctionOnSet(f, s) + SumFunctionOnSet(g, s)
  BY <1>6, <1>7, <1>8, <1>9, <1>10, <1>11
<1> QED BY <1>12, <1>2 DEF T

(* A sum of zeros.                                                         *)
LEMMA SumZero ==
  ASSUME NEW f, NEW S, IsFiniteSet(S), \A x \in S : f[x] = 0
  PROVE  SumFunctionOnSet(f, S) = 0
<1> DEFINE T == {s \in SUBSET S : SumFunctionOnSet(f, s) # 0}
<1>1. SUFFICES ASSUME T # {} PROVE FALSE
  OBVIOUS
<1>2. PICK s \in T : \A y \in T : ~(y \subseteq s /\ y # s)
  <2>1. T \subseteq SUBSET S
    OBVIOUS
  <2> HIDE DEF T
  <2> QED BY <1>1, <2>1, MinimalSubset
<1>3. PICK x \in s : TRUE
  <2>1. {} \notin T
    BY SumEmpty
  <2> QED BY <2>1, <1>2
<1>4. IsFiniteSet(s)
  BY FS_Subset
<1>5. SumFunctionOnSet(f, s \ {x}) = 0
  BY <1>2, <1>3
<1>6. SumFunctionOnSet(f, s) = f[x] + SumFunctionOnSet(f, s \ {x})
  BY <1>4, SumTakeOut
<1>7. f[x] = 0
  OBVIOUS
<1> QED BY <1>5, <1>6, <1>7, <1>2

(* Sums of values that are not negative.                                   *)
LEMMA SumNat ==
  ASSUME NEW f, NEW S, IsFiniteSet(S), \A x \in S : f[x] \in Nat
  PROVE  SumFunctionOnSet(f, S) \in Nat
<1> DEFINE T == {s \in SUBSET S : SumFunctionOnSet(f, s) \notin Nat}
<1>1. SUFFICES ASSUME T # {} PROVE FALSE
  OBVIOUS
<1>2. PICK s \in T : \A y \in T : ~(y \subseteq s /\ y # s)
  <2>1. T \subseteq SUBSET S
    OBVIOUS
  <2> HIDE DEF T
  <2> QED BY <1>1, <2>1, MinimalSubset
<1>3. PICK x \in s : TRUE
  <2>1. {} \notin T
    BY SumEmpty
  <2> QED BY <2>1, <1>2
<1>4. IsFiniteSet(s)
  BY FS_Subset
<1>5. SumFunctionOnSet(f, s \ {x}) \in Nat
  BY <1>2, <1>3
<1>6. SumFunctionOnSet(f, s) = f[x] + SumFunctionOnSet(f, s \ {x})
  BY <1>4, SumTakeOut
<1>7. f[x] \in Nat
  OBVIOUS
<1> QED BY <1>5, <1>6, <1>7, <1>2

(* A sum over a set is the sum over a larger set of a function that is     *)
(* zero outside the smaller one.                                           *)
LEMMA SumExtend ==
  ASSUME NEW f, NEW g, NEW R, NEW S, IsFiniteSet(S), R \subseteq S,
         \A x \in R : f[x] \in Int /\ g[x] = f[x],
         \A x \in S \ R : g[x] = 0
  PROVE  SumFunctionOnSet(g, S) = SumFunctionOnSet(f, R)
<1> DEFINE T == {s \in SUBSET S : SumFunctionOnSet(g, s) # SumFunctionOnSet(f, s \cap R)}
<1>1. ASSUME T # {} PROVE FALSE
  <2>2. PICK s \in T : \A y \in T : ~(y \subseteq s /\ y # s)
    <3>1. T \subseteq SUBSET S
      OBVIOUS
    <3> HIDE DEF T
    <3> QED BY <1>1, <3>1, MinimalSubset
  <2>3. PICK x \in s : TRUE
    <3>1. {} \cap R = {}
      OBVIOUS
    <3>2. {} \notin T
      BY <3>1, SumEmpty
    <3> QED BY <3>2, <2>2
  <2>4. IsFiniteSet(s) /\ IsFiniteSet(s \cap R) /\ IsFiniteSet((s \ {x}) \cap R)
    BY FS_Subset
  <2>5. SumFunctionOnSet(g, s \ {x}) = SumFunctionOnSet(f, (s \ {x}) \cap R)
    BY <2>2, <2>3
  <2>6. \A y \in s : g[y] \in Int
    OBVIOUS
  <2>7. SumFunctionOnSet(g, s) = g[x] + SumFunctionOnSet(g, s \ {x})
    BY <2>4, <2>6, SumTakeOut
  <2>8. SumFunctionOnSet(f, (s \ {x}) \cap R) \in Int
    BY <2>4, SumType
  <2>9. CASE x \in R
    <3>1. (s \cap R) \ {x} = (s \ {x}) \cap R /\ x \in s \cap R
      BY <2>9
    <3>2. SumFunctionOnSet(f, s \cap R) = f[x] + SumFunctionOnSet(f, (s \cap R) \ {x})
      BY <3>1, <2>4, SumTakeOut
    <3> QED BY <3>1, <3>2, <2>5, <2>7, <2>2, <2>9
  <2>10. CASE x \notin R
    <3>1. (s \ {x}) \cap R = s \cap R /\ g[x] = 0
      BY <2>10
    <3> QED BY <3>1, <2>5, <2>7, <2>8, <2>2
  <2> QED BY <2>9, <2>10
<1>2. S \notin T /\ S \cap R = R
  BY <1>1
<1> QED BY <1>2

(* Changing one value changes the sum by the difference.                   *)
LEMMA SumUpdate ==
  ASSUME NEW f, NEW g, NEW S, IsFiniteSet(S), NEW x \in S,
         \A y \in S : f[y] \in Int, g[x] \in Int,
         \A y \in S \ {x} : g[y] = f[y]
  PROVE  SumFunctionOnSet(g, S) = SumFunctionOnSet(f, S) + g[x] - f[x]
<1>1. IsFiniteSet(S \ {x}) /\ \A y \in S : g[y] \in Int
  BY FS_Subset
<1>2. SumFunctionOnSet(g, S) = g[x] + SumFunctionOnSet(g, S \ {x})
  BY <1>1, SumTakeOut
<1>3. SumFunctionOnSet(f, S) = f[x] + SumFunctionOnSet(f, S \ {x})
  BY SumTakeOut
<1>4. SumFunctionOnSet(g, S \ {x}) = SumFunctionOnSet(f, S \ {x})
  BY <1>1, SumSame
<1>5. SumFunctionOnSet(f, S \ {x}) \in Int
  BY <1>1, SumType
<1> QED BY <1>2, <1>3, <1>4, <1>5

(* A bound on the terms is a bound on the sum.                             *)
LEMMA SumBound ==
  ASSUME NEW f, NEW g, NEW S, NEW k \in Int, NEW m \in Int, IsFiniteSet(S),
         \A x \in S : f[x] \in Int /\ g[x] \in Int /\ k * g[x] <= m * f[x]
  PROVE  k * SumFunctionOnSet(g, S) <= m * SumFunctionOnSet(f, S)
<1> DEFINE T == {s \in SUBSET S : ~(k * SumFunctionOnSet(g, s) <= m * SumFunctionOnSet(f, s))}
<1>1. SUFFICES ASSUME T # {} PROVE FALSE
  OBVIOUS
<1>2. PICK s \in T : \A y \in T : ~(y \subseteq s /\ y # s)
  <2>1. T \subseteq SUBSET S
    OBVIOUS
  <2> HIDE DEF T
  <2> QED BY <1>1, <2>1, MinimalSubset
<1>3. PICK x \in s : TRUE
  <2>1. {} \notin T
    BY SumEmpty
  <2> QED BY <2>1, <1>2
<1>4. IsFiniteSet(s) /\ IsFiniteSet(s \ {x})
  BY FS_Subset
<1> DEFINE sf == SumFunctionOnSet(f, s \ {x})
           sg == SumFunctionOnSet(g, s \ {x})
           fx == f[x]
           gx == g[x]
<1>5. k * sg <= m * sf
  BY <1>2, <1>3
<1>6. SumFunctionOnSet(g, s) = gx + sg
  BY <1>4, SumTakeOut
<1>7. SumFunctionOnSet(f, s) = fx + sf
  BY <1>4, SumTakeOut
<1>8. sf \in Int /\ sg \in Int
  BY <1>4, SumType
<1>9. fx \in Int /\ gx \in Int /\ k * gx <= m * fx
  OBVIOUS
<1> HIDE DEF T, sf, sg, fx, gx
<1>10. k * (gx + sg) = k * gx + k * sg /\ m * (fx + sf) = m * fx + m * sf
  BY <1>8, <1>9
<1>11. k * gx \in Int /\ k * sg \in Int /\ m * fx \in Int /\ m * sf \in Int
  BY <1>8, <1>9
<1>12. k * (gx + sg) <= m * (fx + sf)
  BY <1>5, <1>9, <1>10, <1>11
<1> QED BY <1>6, <1>7, <1>12, <1>2 DEF T

(* A sum may be taken class by class.                                      *)
LEMMA SumClasses ==
  ASSUME NEW f, NEW key, NEW A, NEW S, IsFiniteSet(S), IsFiniteSet(A),
         \A x \in S : f[x] \in Int /\ key[x] \in A
  PROVE  SumFunctionOnSet([a \in A |-> SumFunctionOnSet(f, {x \in S : key[x] = a})], A)
           = SumFunctionOnSet(f, S)
<1> DEFINE Class(s, a) == {x \in s : key[x] = a}
           H(s) == [a \in A |-> SumFunctionOnSet(f, Class(s, a))]
           T == {s \in SUBSET S : SumFunctionOnSet(H(s), A) # SumFunctionOnSet(f, s)}
<1>1. ASSUME T # {} PROVE FALSE
  <2>2. PICK s \in T : \A y \in T : ~(y \subseteq s /\ y # s)
    <3>1. T \subseteq SUBSET S
      OBVIOUS
    <3> HIDE DEF T
    <3> QED BY <1>1, <3>1, MinimalSubset
  <2>3. PICK x \in s : TRUE
    <3>1. \A a \in A : Class({}, a) = {}
      OBVIOUS
    <3>2. \A a \in A : H({})[a] = 0
      BY <3>1, SumEmpty
    <3>3. SumFunctionOnSet(H({}), A) = 0
      <4> HIDE DEF H
      <4> QED BY <3>2, SumZero
    <3>4. {} \notin T
      BY <3>3, SumEmpty
    <3> QED BY <3>4, <2>2
  <2>4. s \subseteq S /\ x \in S /\ IsFiniteSet(s)
    BY FS_Subset
  <2>5. SumFunctionOnSet(H(s \ {x}), A) = SumFunctionOnSet(f, s \ {x})
    BY <2>2, <2>3
  <2>6. SumFunctionOnSet(f, s) = f[x] + SumFunctionOnSet(f, s \ {x})
    BY <2>4, SumTakeOut
  <2>7. \A a \in A, t \in SUBSET S : H(t)[a] \in Int
    <3> SUFFICES ASSUME NEW a \in A, NEW t \in SUBSET S PROVE H(t)[a] \in Int
      OBVIOUS
    <3>1. Class(t, a) \in SUBSET S
      OBVIOUS
    <3>2. IsFiniteSet(Class(t, a))
      BY <3>1, FS_Subset
    <3>3. SumFunctionOnSet(f, Class(t, a)) \in Int
      <4> HIDE DEF Class
      <4> QED BY <3>1, <3>2, SumType
    <3> QED BY <3>3
  <2>8. \A a \in A \ {key[x]} : H(s)[a] = H(s \ {x})[a]
    <3>1. \A a \in A \ {key[x]} : Class(s, a) = Class(s \ {x}, a)
      OBVIOUS
    <3> HIDE DEF Class
    <3> QED BY <3>1
  <2>9. H(s)[key[x]] = f[x] + H(s \ {x})[key[x]]
    <3> DEFINE c == Class(s, key[x])
    <3>1. c \in SUBSET S /\ x \in c /\ Class(s \ {x}, key[x]) = c \ {x}
      BY <2>4
    <3>2. IsFiniteSet(c)
      BY <3>1, FS_Subset
    <3>3. SumFunctionOnSet(f, c) = f[x] + SumFunctionOnSet(f, c \ {x})
      <4> HIDE DEF c
      <4> QED BY <3>1, <3>2, SumTakeOut
    <3>4. key[x] \in A
      BY <2>4
    <3> HIDE DEF Class
    <3> QED BY <3>1, <3>3, <3>4
  <2>10. SumFunctionOnSet(H(s), A)
           = SumFunctionOnSet(H(s \ {x}), A) + H(s)[key[x]] - H(s \ {x})[key[x]]
    <3> DEFINE g == H(s)
               h == H(s \ {x})
    <3>1. key[x] \in A /\ s \ {x} \in SUBSET S /\ s \in SUBSET S
      BY <2>4
    <3>2. \A a \in A : g[a] \in Int /\ h[a] \in Int
      BY <2>7, <3>1
    <3>3. \A a \in A \ {key[x]} : g[a] = h[a]
      BY <2>8
    <3> HIDE DEF H, g, h
    <3>4. SumFunctionOnSet(g, A) = SumFunctionOnSet(h, A) + g[key[x]] - h[key[x]]
      BY <3>1, <3>2, <3>3, SumUpdate
    <3> QED BY <3>4 DEF g, h
  <2>11. H(s \ {x})[key[x]] \in Int /\ f[x] \in Int /\ SumFunctionOnSet(f, s \ {x}) \in Int
    <3>1. s \ {x} \in SUBSET S /\ IsFiniteSet(s \ {x}) /\ key[x] \in A
      BY <2>4, FS_Subset
    <3>2. SumFunctionOnSet(f, s \ {x}) \in Int
      BY <3>1, SumType
    <3> HIDE DEF H
    <3> QED BY <2>7, <2>4, <3>1, <3>2
  <2> DEFINE h1 == H(s \ {x})[key[x]]
             h2 == H(s)[key[x]]
             sf == SumFunctionOnSet(f, s \ {x})
             fx == f[x]
             total == SumFunctionOnSet(H(s), A)
  <2>12. h1 \in Int /\ fx \in Int /\ sf \in Int /\ h2 = fx + h1 /\ total = sf + h2 - h1
    BY <2>5, <2>9, <2>10, <2>11
  <2>13. total # fx + sf
    BY <2>2, <2>6
  <2> HIDE DEF h1, h2, sf, fx, total, H, T
  <2> QED BY <2>12, <2>13
<1>2. S \notin T
  BY <1>1
<1> QED BY <1>2

(* A sum of equal terms.                                                   *)
LEMMA SumConstant ==
  ASSUME NEW f, NEW S, IsFiniteSet(S), NEW c \in Int, \A x \in S : f[x] = c
  PROVE  SumFunctionOnSet(f, S) = c * Cardinality(S)
<1> DEFINE T == {s \in SUBSET S : SumFunctionOnSet(f, s) # c * Cardinality(s)}
<1>1. SUFFICES ASSUME T # {} PROVE FALSE
  OBVIOUS
<1>2. PICK s \in T : \A y \in T : ~(y \subseteq s /\ y # s)
  <2>1. T \subseteq SUBSET S
    OBVIOUS
  <2> HIDE DEF T
  <2> QED BY <1>1, <2>1, MinimalSubset
<1>3. PICK x \in s : TRUE
  <2>1. {} \notin T
    BY SumEmpty, FS_EmptySet
  <2> QED BY <2>1, <1>2
<1>4. IsFiniteSet(s) /\ IsFiniteSet(s \ {x})
  BY FS_Subset
<1>5. SumFunctionOnSet(f, s \ {x}) = c * Cardinality(s \ {x})
  BY <1>2, <1>3
<1>6. SumFunctionOnSet(f, s) = f[x] + SumFunctionOnSet(f, s \ {x})
  BY <1>4, SumTakeOut
<1>7. f[x] = c
  OBVIOUS
<1>8. Cardinality(s \ {x}) = Cardinality(s) - 1 /\ Cardinality(s) \in Nat
  BY <1>3, <1>4, FS_RemoveElement, FS_CardinalityType
<1> DEFINE m == Cardinality(s)
<1>9. SumFunctionOnSet(f, s) = c + c * (m - 1)
  BY <1>5, <1>6, <1>7, <1>8
<1>10. m \in Nat /\ SumFunctionOnSet(f, s) # c * m
  BY <1>2, <1>8
<1> HIDE DEF m
<1>11. c + c * (m - 1) = c * m
  BY <1>10
<1> QED BY <1>9, <1>10, <1>11
-----------------------------------------------------------------------------
(* Natural numbers and recursive functions                                  *)

(* A set of natural numbers has a least element.                           *)
LEMMA LeastNatural ==
  ASSUME NEW S \in SUBSET Nat, S # {}
  PROVE  \E n \in S : \A k \in S : n <= k
<1>1. PICK n \in S : TRUE
  OBVIOUS
<1> DEFINE T == {x \in SUBSET (0..n) : \E m \in S : m <= n /\ x = 0..m}
<1>2. T \subseteq SUBSET (0..n)
  OBVIOUS
<1>3. T # {}
  <2>1. (0..n) \in T
    OBVIOUS
  <2> QED BY <2>1
<1>4. IsFiniteSet(0..n)
  BY FS_Interval
<1>5. PICK x \in T : \A y \in T : ~(y \subseteq x /\ y # x)
  <2> DEFINE I == 0..n
  <2>1. T \subseteq SUBSET I /\ IsFiniteSet(I)
    BY <1>2, <1>4
  <2> HIDE DEF T, I
  <2> QED BY <2>1, <1>3, MinimalSubset
<1>6. PICK m \in S : m <= n /\ x = 0..m
  BY <1>5
<1>7. ASSUME NEW k \in S, ~(m <= k) PROVE FALSE
  <2>1. k \in Nat /\ m \in Nat /\ n \in Nat /\ k < m /\ k <= n
    BY <1>6, <1>7
  <2>2. (0..k) \in T
    BY <2>1, <1>7
  <2>3. (0..k) \subseteq (0..m) /\ m \in 0..m /\ m \notin 0..k
    BY <2>1
  <2> QED BY <2>2, <2>3, <1>5, <1>6
<1> QED BY <1>7

(* R holds the pairs that recursion along the parents p gives.             *)
ClosedRelation(R, A, r, p, H, v0) ==
  /\ <<r, v0>> \in R
  /\ \A b \in A : \A v : <<p[b], v>> \in R => <<b, H[<<b, v>>]>> \in R

(* A tree: each node of A has a parent, and parents lead to r.             *)
ParentTree(A, r, p) ==
  /\ r \notin A
  /\ p \in [A -> A \cup {r}]
  /\ \A S \in SUBSET A : S # {} => \E b \in S : p[b] \notin S

(* f gives v0 to r and is computed by H from the parent's value elsewhere. *)
RecursiveAlong(f, A, r, p, H, v0) == f[r] = v0 /\ \A b \in A : f[b] = H[<<b, f[p[b]]>>]

(* A function can be defined by recursion along the parents of a tree: the *)
(* least closed relation is one.                                           *)
LEMMA RecursionAlongParents ==
  ASSUME NEW A, NEW r, NEW p, ParentTree(A, r, p), NEW V, NEW v0 \in V, NEW H \in [A \X V -> V]
  PROVE  \E f \in [A \cup {r} -> V] : RecursiveAlong(f, A, r, p, H, v0)
<1> USE DEF ParentTree
<1> DEFINE N == A \cup {r}
           All == {R \in SUBSET (N \X V) : ClosedRelation(R, A, r, p, H, v0)}
           L == {x \in N \X V : \A R \in All : x \in R}
<1>1. N \X V \in All
  BY DEF ClosedRelation
<1>2. L \in All
  <2>1. <<r, v0>> \in L
    BY DEF ClosedRelation
  <2>2. ASSUME NEW b \in A, NEW v, <<p[b], v>> \in L
        PROVE  <<b, H[<<b, v>>]>> \in L
    <3>1. v \in V
      BY <2>2
    <3>2. <<b, H[<<b, v>>]>> \in N \X V
      BY <3>1
    <3>3. \A R \in All : <<b, H[<<b, v>>]>> \in R
      BY <2>2 DEF ClosedRelation
    <3> QED BY <3>2, <3>3
  <2> HIDE DEF L
  <2>3. ClosedRelation(L, A, r, p, H, v0)
    BY <2>1, <2>2 DEF ClosedRelation
  <2> QED BY <2>3 DEF L
<1>3. ASSUME NEW x \in L, ClosedRelation(L \ {x}, A, r, p, H, v0) PROVE FALSE
  <2>1. L \ {x} \in All
    BY <1>3
  <2> QED BY <2>1
<1> DEFINE One(b) == \E v \in V : <<b, v>> \in L /\ \A w \in V : <<b, w>> \in L => w = v
<1> HIDE DEF All
<1>4. ClosedRelation(L, A, r, p, H, v0) /\ L \subseteq N \X V
  BY <1>2 DEF All
<1> HIDE DEF L
<1>5. \A w \in V : <<r, w>> \in L => w = v0
  <2> SUFFICES ASSUME NEW w \in V, <<r, w>> \in L, w # v0 PROVE FALSE
    OBVIOUS
  <2>1. ClosedRelation(L \ {<<r, w>>}, A, r, p, H, v0)
    BY <1>4 DEF ClosedRelation
  <2> QED BY <2>1, <1>3
<1>6. One(r)
  BY <1>4, <1>5 DEF ClosedRelation
<1>7. ASSUME NEW b \in A, One(p[b]) PROVE One(b)
  <2>1. PICK v \in V : <<p[b], v>> \in L /\ \A w \in V : <<p[b], w>> \in L => w = v
    BY <1>7
  <2>2. <<b, H[<<b, v>>]>> \in L /\ H[<<b, v>>] \in V
    BY <2>1, <1>4 DEF ClosedRelation
  <2>3. ASSUME NEW w \in V, <<b, w>> \in L, w # H[<<b, v>>] PROVE FALSE
    <3>1. <<r, v0>> \in L \ {<<b, w>>}
      BY <1>4 DEF ClosedRelation
    <3>2. ASSUME NEW c \in A, NEW u, <<p[c], u>> \in L \ {<<b, w>>}
          PROVE  <<c, H[<<c, u>>]>> \in L \ {<<b, w>>}
      <4>1. <<c, H[<<c, u>>]>> \in L /\ u \in V
        BY <3>2, <1>4 DEF ClosedRelation
      <4>2. CASE c = b
        BY <4>1, <4>2, <2>1, <2>3, <3>2
      <4> QED BY <4>1, <4>2
    <3>3. ClosedRelation(L \ {<<b, w>>}, A, r, p, H, v0)
      BY <3>1, <3>2 DEF ClosedRelation
    <3> QED BY <3>3, <1>3, <2>3
  <2> QED BY <2>2, <2>3
<1>8. \A b \in A : One(b)
  <2> DEFINE Bad == {b \in A : ~One(b)}
  <2>1. SUFFICES Bad = {}
    OBVIOUS
  <2>2. SUFFICES ASSUME Bad # {} PROVE FALSE
    OBVIOUS
  <2> HIDE DEF One
  <2>3. PICK b \in Bad : p[b] \notin Bad
    <3>1. Bad \in SUBSET A
      OBVIOUS
    <3> HIDE DEF Bad
    <3> QED BY <2>2, <3>1
  <2>4. One(p[b])
    BY <2>3, <1>6
  <2> QED BY <2>3, <2>4, <1>7
<1> DEFINE F(b) == CHOOSE v \in V : <<b, v>> \in L
           f == [b \in N |-> F(b)]
<1>9. ASSUME NEW b \in N PROVE F(b) \in V /\ <<b, F(b)>> \in L /\ \A w \in V : <<b, w>> \in L => w = F(b)
  BY <1>8, <1>6
<1> HIDE DEF F, One
<1>10. f \in [N -> V] /\ \A b \in N : f[b] = F(b)
  BY <1>9
<1> HIDE DEF f
<1>11. f[r] = v0
  BY <1>9, <1>10, <1>4 DEF ClosedRelation
<1>12. ASSUME NEW b \in A PROVE f[b] = H[<<b, f[p[b]]>>]
  <2>1. p[b] \in N /\ b \in N
    OBVIOUS
  <2>2. <<p[b], F(p[b])>> \in L /\ F(p[b]) \in V
    BY <2>1, <1>9
  <2>3. <<b, H[<<b, F(p[b])>>]>> \in L /\ H[<<b, F(p[b])>>] \in V
    BY <2>2, <1>4 DEF ClosedRelation
  <2>4. H[<<b, F(p[b])>>] = F(b)
    BY <2>1, <2>3, <1>9
  <2> QED BY <2>1, <2>4, <1>10
<1> QED BY <1>10, <1>11, <1>12 DEF RecursiveAlong
(* A bounded set of natural numbers has a greatest element.                *)
LEMMA GreatestBelow ==
  ASSUME NEW S \in SUBSET Nat, S # {}, NEW k \in Nat, \A x \in S : x <= k
  PROVE  \E n \in S : \A x \in S : x <= n
<1> DEFINE T == {k - x : x \in S}
<1>1. T \in SUBSET Nat /\ T # {}
  <2>1. \A x \in S : k - x \in Nat
    OBVIOUS
  <2> QED BY <2>1
<1>2. PICK d \in T : \A e \in T : d <= e
  <2> HIDE DEF T
  <2> QED BY <1>1, LeastNatural
<1>3. PICK n \in S : d = k - n
  OBVIOUS
<1>4. ASSUME NEW x \in S PROVE x <= n
  <2>1. k - x \in T
    OBVIOUS
  <2>2. d <= k - x
    BY <2>1, <1>2
  <2>3. x \in Nat /\ n \in Nat
    BY <1>3
  <2> QED BY <2>2, <2>3, <1>3
<1> QED BY <1>3, <1>4

(* A loop: f[i] is the value after i of its n steps, when step i takes v   *)
(* to H[i, v].                                                             *)
LoopOf(f, n, V, v0, H) ==
  f \in [0..n -> V] /\ f[0] = v0 /\ \A i \in 1..n : f[i] = H[<<i, f[i - 1]>>]

(* There is such a function.                                               *)
LEMMA LoopExists ==
  ASSUME NEW n \in Nat, NEW V, NEW v0 \in V, NEW H \in [(1..n) \X V -> V]
  PROVE  \E f : LoopOf(f, n, V, v0, H)
<1> DEFINE A == 1..n
           p == [i \in A |-> i - 1]
<1>1. A \cup {0} = 0..n /\ 0 \notin A /\ \A i \in A : i - 1 \in 0..n
  OBVIOUS
<1>2. ParentTree(A, 0, p)
  <2>1. p \in [A -> A \cup {0}]
    BY <1>1
  <2>2. ASSUME NEW S \in SUBSET A, S # {} PROVE \E b \in S : p[b] \notin S
    <3>1. S \in SUBSET Nat
      OBVIOUS
    <3>2. PICK m \in S : \A k \in S : m <= k
      BY <3>1, <2>2, LeastNatural
    <3>3. m \in A /\ m \in Nat
      OBVIOUS
    <3>4. m - 1 \notin S
      BY <3>2, <3>3
    <3> QED BY <3>3, <3>4, <3>2
  <2> QED BY <1>1, <2>1, <2>2 DEF ParentTree
<1>3. PICK f \in [A \cup {0} -> V] : RecursiveAlong(f, A, 0, p, H, v0)
  <2> HIDE DEF p
  <2> QED BY <1>2, RecursionAlongParents
<1>4. \A i \in A : p[i] = i - 1
  OBVIOUS
<1> QED BY <1>1, <1>3, <1>4 DEF RecursiveAlong, LoopOf

(* What holds at 0 and of each number if of the one before holds up to n.  *)
LEMMA UpTo ==
  ASSUME NEW n \in Nat, NEW S, 0 \in S, \A i \in 1..n : i - 1 \in S => i \in S
  PROVE  \A i \in 0..n : i \in S
<1> SUFFICES ASSUME NEW i \in 0..n, i \notin S PROVE FALSE
  OBVIOUS
<1> DEFINE T == {k \in 0..n : k \notin S}
<1>1. T \in SUBSET Nat /\ T # {}
  OBVIOUS
<1>2. PICK k \in T : \A m \in T : k <= m
  <2> HIDE DEF T
  <2> QED BY <1>1, LeastNatural
<1>3. k \in Nat /\ k <= n /\ k \notin S /\ k # 0
  OBVIOUS
<1>4. k - 1 \in 0..n /\ k \in 1..n
  BY <1>3
<1>5. k - 1 \in S
  BY <1>2, <1>3, <1>4
<1> QED BY <1>3, <1>4, <1>5

(* So there is if all that is known of step i is that it takes W[i - 1] to *)
(* W[i].                                                                   *)
LEMMA LoopWithin ==
  ASSUME NEW n \in Nat, NEW V, NEW W \in [0..n -> SUBSET V], NEW v0 \in W[0], NEW H,
         \A i \in 1..n : \A v \in W[i - 1] : H[<<i, v>>] \in W[i]
  PROVE  \E f : LoopOf(f, n, V, v0, H)
<1> DEFINE G == [x \in (1..n) \X V |-> IF x[2] \in W[x[1] - 1] THEN H[x] ELSE v0]
<1>1. 0 \in 0..n /\ \A i \in 1..n : i - 1 \in 0..n /\ i \in 0..n
  OBVIOUS
<1>2. v0 \in V /\ \A i \in 0..n : W[i] \subseteq V
  BY <1>1
<1>3. G \in [(1..n) \X V -> V]
  <2> SUFFICES ASSUME NEW x \in (1..n) \X V, x[2] \in W[x[1] - 1] PROVE H[x] \in V
    BY <1>2
  <2>1. x[1] \in 1..n /\ x = <<x[1], x[2]>>
    OBVIOUS
  <2>2. H[<<x[1], x[2]>>] \in W[x[1]]
    BY <2>1
  <2> QED BY <2>1, <2>2, <1>1, <1>2
<1>4. PICK f : LoopOf(f, n, V, v0, G)
  <2> HIDE DEF G
  <2> QED BY <1>2, <1>3, LoopExists
<1>5. f \in [0..n -> V] /\ f[0] = v0 /\ \A i \in 1..n : f[i] = G[<<i, f[i - 1]>>]
  <2> HIDE DEF G
  <2> QED BY <1>4 DEF LoopOf
<1> DEFINE S == {i \in 0..n : f[i] \in W[i]}
<1>6. ASSUME NEW i \in 1..n, f[i - 1] \in W[i - 1]
      PROVE  f[i] = H[<<i, f[i - 1]>>] /\ f[i] \in W[i]
  <2>1. f[i - 1] \in V
    BY <1>1, <1>5
  <2>2. G[<<i, f[i - 1]>>] = H[<<i, f[i - 1]>>]
    BY <2>1, <1>6
  <2>3. f[i] = H[<<i, f[i - 1]>>]
    <3> HIDE DEF G
    <3> QED BY <2>2, <1>5
  <2> QED BY <2>3, <1>6
<1>7. 0 \in S /\ \A i \in 1..n : i - 1 \in S => i \in S
  BY <1>1, <1>5, <1>6
<1>8. \A i \in 0..n : i \in S
  <2> HIDE DEF S
  <2> QED BY <1>7, UpTo
<1>9. \A i \in 0..n : f[i] \in W[i]
  BY <1>8
<1> HIDE DEF G, S
<1>10. \A i \in 1..n : f[i] = H[<<i, f[i - 1]>>]
  BY <1>1, <1>6, <1>9
<1> QED BY <1>5, <1>10 DEF LoopOf

=============================================================================
