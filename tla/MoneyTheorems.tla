---------------------------- MODULE MoneyTheorems ---------------------------
(***************************************************************************)
(* Facts about amounts of money that the proofs of the components share.   *)
(* First sums: SumFunctionOnSet(f, S) adds up f[x] for x in a finite set,  *)
(* and MapThenSumSet, which the specifications use, is such a sum.  The    *)
(* induction over subsets is proved once, as a fact about a family of sets,*)
(* so that no operator has to be instantiated.  Then the prize table: what *)
(* its arithmetic guarantees for every room, field and plan.               *)
(***************************************************************************)
EXTENDS PrizeTable, FiniteSetsExt, FiniteSetTheorems, TLAPS

-----------------------------------------------------------------------------
(* Induction over the subsets of a finite set *)

(* A family of subsets of a finite set that holds every subset whose       *)
(* proper subsets it holds, holds them all.                                *)
LEMMA SubsetInduction ==
  ASSUME NEW S, IsFiniteSet(S), NEW Good,
         \A s \in SUBSET S : (\A t \in SUBSET s : t # s => t \in Good) => s \in Good
  PROVE  \A s \in SUBSET S : s \in Good
<1> DEFINE Bad == (SUBSET S) \ Good
<1>1. IsWellFoundedOn(StrictSubsetOrdering(S), SUBSET S)
  BY FS_StrictSubsetOrderingWellFounded, FS_FiniteSubsetsOfFinite
<1>2. SUFFICES ASSUME Bad # {} PROVE FALSE
  OBVIOUS
<1>3. PICK s \in Bad : \A t \in Bad : <<t, s>> \notin StrictSubsetOrdering(S)
  <2> HIDE DEF Bad
  <2>1. Bad \subseteq SUBSET S BY DEF Bad
  <2> QED BY <1>1, <1>2, <2>1, WFMin
<1>4. \A t \in SUBSET s : t # s => t \in Good
  <2> SUFFICES ASSUME NEW t \in SUBSET s, t # s, t \notin Good PROVE FALSE
    OBVIOUS
  <2>1. <<t, s>> \in (SUBSET S) \X (SUBSET S) OBVIOUS
  <2>2. <<t, s>> \in StrictSubsetOrdering(S) BY <2>1 DEF StrictSubsetOrdering
  <2> QED BY <1>3, <2>2
<1> QED BY <1>4

-----------------------------------------------------------------------------
(* The recursion that defines a sum has a solution                         *)

Some(s) == CHOOSE x \in s : TRUE
Adds(f, g, s) == g[s] = IF s = {} THEN 0 ELSE f[Some(s)] + g[s \ {Some(s)}]
Solves(f, g, S) == g \in [SUBSET S -> Int] /\ \A s \in SUBSET S : Adds(f, g, s)
(* The sum of f over s, by a solution on the subsets of s alone.           *)
Solution(f, s) == CHOOSE g : Solves(f, g, s)
Value(f, s) == Solution(f, s)[s]

LEMMA SolutionUnique ==
  ASSUME NEW S, IsFiniteSet(S), NEW f, NEW T \in SUBSET S, NEW g, NEW h,
         Solves(f, g, S), Solves(f, h, T)
  PROVE  \A s \in SUBSET T : g[s] = h[s]
<1> DEFINE Good == {s \in SUBSET T : g[s] = h[s]}
<1>1. IsFiniteSet(T) BY FS_Subset
<1>2. ASSUME NEW s \in SUBSET T, \A t \in SUBSET s : t # s => t \in Good
      PROVE  s \in Good
  <2>1. CASE s = {} BY <2>1 DEF Solves, Adds
  <2>2. CASE s # {}
    <3>1. Some(s) \in s BY <2>2 DEF Some
    <3>2. s \ {Some(s)} \in SUBSET s /\ s \ {Some(s)} # s BY <3>1
    <3>3. g[s \ {Some(s)}] = h[s \ {Some(s)}] BY <1>2, <3>2
    <3> QED BY <2>2, <3>3 DEF Solves, Adds
  <2> QED BY <2>1, <2>2
<1>3. \A s \in SUBSET T : s \in Good
  <2> HIDE DEF Good
  <2> QED BY <1>1, <1>2, SubsetInduction
<1> QED BY <1>3

LEMMA SolutionExists ==
  ASSUME NEW S, IsFiniteSet(S), NEW f, \A x \in S : f[x] \in Int
  PROVE  \A s \in SUBSET S : Solves(f, Solution(f, s), s)
<1> DEFINE Good == {s \in SUBSET S : Solves(f, Solution(f, s), s)}
<1>1. ASSUME NEW s \in SUBSET S, \A t \in SUBSET s : t # s => t \in Good
      PROVE  s \in Good
  <2> DEFINE Last == f[Some(s)] + Value(f, s \ {Some(s)})
             g == [t \in SUBSET s |-> IF t # s THEN Value(f, t) ELSE IF s = {} THEN 0 ELSE Last]
  <2>1. \A t \in SUBSET s : t # s => Solves(f, Solution(f, t), t) BY <1>1
  <2>2. \A t \in SUBSET s : t # s => Value(f, t) \in Int
    BY <2>1 DEF Value, Solves
  <2>3. s # {} => Some(s) \in s BY DEF Some
  <2>4. s # {} => Last \in Int
    <3> SUFFICES ASSUME s # {} PROVE Last \in Int
      OBVIOUS
    <3>1. f[Some(s)] \in Int BY <2>3
    <3>2. Value(f, s \ {Some(s)}) \in Int BY <2>2, <2>3
    <3> QED BY <3>1, <3>2
  <2>5. g \in [SUBSET s -> Int] BY <2>2, <2>4
  <2>6. ASSUME NEW t \in SUBSET s PROVE Adds(f, g, t)
    <3>1. CASE t = {} /\ s # {}
      <4>1. Adds(f, Solution(f, {}), {}) BY <2>1, <3>1 DEF Solves
      <4> QED BY <3>1, <4>1 DEF Adds, Value
    <3>2. CASE s = {} BY <3>2 DEF Adds
    <3>3. CASE t = s /\ s # {} BY <2>3, <3>3 DEF Adds
    <3>4. CASE t # s /\ t # {}
      <4> DEFINE u == t \ {Some(t)}
      <4>1. Some(t) \in t BY <3>4 DEF Some
      <4>2. u \in SUBSET t /\ u # s BY <3>4, <4>1
      <4>3. Solves(f, Solution(f, t), t) /\ Solves(f, Solution(f, u), u) BY <2>1, <3>4, <4>2
      <4>4. IsFiniteSet(t) BY FS_Subset
      <4>5. Solution(f, t)[u] = Solution(f, u)[u] BY <4>2, <4>3, <4>4, SolutionUnique
      <4>6. Value(f, t) = f[Some(t)] + Value(f, u) BY <3>4, <4>3, <4>5 DEF Solves, Adds, Value
      <4>7. g[t] = Value(f, t) /\ g[u] = Value(f, u) BY <3>4, <4>2
      <4> QED BY <3>4, <4>6, <4>7 DEF Adds
    <3> QED BY <3>1, <3>2, <3>3, <3>4
  <2>7. Solves(f, g, s)
    <3> HIDE DEF g
    <3> QED BY <2>5, <2>6 DEF Solves
  <2>8. Solves(f, Solution(f, s), s)
    <3> HIDE DEF g
    <3> QED BY <2>7 DEF Solution
  <2> QED BY <2>8
<1>2. \A s \in SUBSET S : s \in Good
  <2> HIDE DEF Good
  <2> QED BY <1>1, SubsetInduction
<1> QED BY <1>2

LEMMA ValueUnfolds ==
  ASSUME NEW S, IsFiniteSet(S), NEW f, \A x \in S : f[x] \in Int
  PROVE  /\ Value(f, S) \in Int
         /\ S = {} => Value(f, S) = 0
         /\ S # {} => Value(f, S) = f[Some(S)] + Value(f, S \ {Some(S)})
<1>1. Solves(f, Solution(f, S), S) BY SolutionExists
<1>2. CASE S # {}
  <2> DEFINE T == S \ {Some(S)}
  <2>1. T \in SUBSET S /\ IsFiniteSet(T) BY FS_Subset
  <2>2. Solves(f, Solution(f, T), T) BY <2>1, SolutionExists
  <2>3. Solution(f, S)[T] = Value(f, T) BY <1>1, <2>1, <2>2, SolutionUnique DEF Value
  <2> QED BY <1>1, <1>2, <2>3 DEF Solves, Adds, Value
<1>3. CASE S = {} BY <1>1, <1>3 DEF Solves, Adds, Value
<1> QED BY <1>2, <1>3

LEMMA SumIsValue ==
  ASSUME NEW S, IsFiniteSet(S), NEW f, \A x \in S : f[x] \in Int
  PROVE  SumFunctionOnSet(f, S) = Value(f, S)
<1> DEFINE Eq(h) == h = [s \in SUBSET S |->
                 IF s = {} THEN 0 ELSE f[CHOOSE x \in s : TRUE] + h[s \ {CHOOSE x \in s : TRUE}]]
           sum == CHOOSE h : Eq(h)
<1>1. SumFunctionOnSet(f, S) = sum[S]
  BY DEF SumFunctionOnSet, FoldFunctionOnSet, MapThenFoldSet
<1>2. ASSUME NEW g, Solves(f, g, S) PROVE Eq(g)
  <2>1. g = [s \in SUBSET S |-> g[s]] BY <1>2 DEF Solves
  <2>2. \A s \in SUBSET S : g[s] =
          IF s = {} THEN 0 ELSE f[CHOOSE x \in s : TRUE] + g[s \ {CHOOSE x \in s : TRUE}]
    BY <1>2 DEF Solves, Adds, Some
  <2> QED BY <2>1, <2>2
<1>3. Solves(f, Solution(f, S), S) BY SolutionExists
<1>4. Eq(sum)
  <2>1. Eq(Solution(f, S)) BY <1>2, <1>3
  <2> HIDE DEF Eq
  <2> QED BY <2>1
<1> HIDE DEF sum
<1> DEFINE Good == {s \in SUBSET S : sum[s] = Solution(f, S)[s]}
<1>5. ASSUME NEW s \in SUBSET S, \A t \in SUBSET s : t # s => t \in Good
      PROVE  s \in Good
  <2>1. Adds(f, Solution(f, S), s) BY <1>3 DEF Solves
  <2>2. sum[s] = IF s = {} THEN 0 ELSE f[Some(s)] + sum[s \ {Some(s)}] BY <1>4 DEF Some
  <2>3. s # {} => s \ {Some(s)} \in SUBSET s /\ s \ {Some(s)} # s BY DEF Some
  <2>4. s # {} => sum[s \ {Some(s)}] = Solution(f, S)[s \ {Some(s)}] BY <1>5, <2>3
  <2> QED BY <2>1, <2>2, <2>4 DEF Adds
<1>6. \A s \in SUBSET S : s \in Good
  <2> HIDE DEF Good
  <2> QED BY <1>5, SubsetInduction
<1> QED BY <1>1, <1>6 DEF Value

-----------------------------------------------------------------------------
(* What the proofs cite                                                    *)

(* The sum of integers is an integer, nothing adds up to nothing, and any  *)
(* element can be counted first.                                           *)
LEMMA SumType ==
  ASSUME NEW S, IsFiniteSet(S), NEW f, \A x \in S : f[x] \in Int
  PROVE  SumFunctionOnSet(f, S) \in Int
<1>1. SumFunctionOnSet(f, S) = Value(f, S) BY SumIsValue
<1>2. Value(f, S) \in Int BY ValueUnfolds
<1> QED BY <1>1, <1>2

LEMMA SumEmpty == ASSUME NEW f PROVE SumFunctionOnSet(f, {}) = 0
<1>1. IsFiniteSet({}) BY FS_EmptySet
<1> QED BY <1>1, SumIsValue, ValueUnfolds

LEMMA SumOut ==
  ASSUME NEW S, IsFiniteSet(S), NEW f, \A x \in S : f[x] \in Int, NEW x \in S
  PROVE  SumFunctionOnSet(f, S) = f[x] + SumFunctionOnSet(f, S \ {x})
<1> DEFINE Good == {s \in SUBSET S : \A y \in s : Value(f, s) = f[y] + Value(f, s \ {y})}
<1>0. \A s \in SUBSET S : IsFiniteSet(s) BY FS_Subset
<1>1. ASSUME NEW s \in SUBSET S, \A t \in SUBSET s : t # s => t \in Good
      PROVE  s \in Good
  <2> SUFFICES ASSUME NEW y \in s PROVE Value(f, s) = f[y] + Value(f, s \ {y})
    OBVIOUS
  <2> DEFINE z == Some(s)
  <2>1. z \in s BY DEF Some
  <2>2. Value(f, s) = f[z] + Value(f, s \ {z}) BY <1>0, ValueUnfolds
  <2> HIDE DEF z
  <2>3. CASE y # z
    <3>1. s \ {z} \in Good /\ s \ {y} \in Good BY <1>1, <2>1
    <3>2. Value(f, s \ {z}) = f[y] + Value(f, (s \ {z}) \ {y})
          /\ Value(f, s \ {y}) = f[z] + Value(f, (s \ {y}) \ {z})
      BY <2>1, <2>3, <3>1
    <3>3. (s \ {z}) \ {y} = (s \ {y}) \ {z} OBVIOUS
    <3>4. Value(f, (s \ {y}) \ {z}) \in Int /\ f[y] \in Int /\ f[z] \in Int
      <4>1. (s \ {y}) \ {z} \in SUBSET S OBVIOUS
      <4> QED BY <1>0, <2>1, <4>1, ValueUnfolds
    <3> DEFINE rest == Value(f, (s \ {y}) \ {z})
    <3>5. /\ rest \in Int
          /\ Value(f, s \ {z}) = f[y] + rest /\ Value(f, s \ {y}) = f[z] + rest
      BY <3>2, <3>3, <3>4
    <3> HIDE DEF rest
    <3> QED BY <2>2, <3>4, <3>5
  <2> QED BY <2>2, <2>3
<1>2. \A s \in SUBSET S : s \in Good
  <2> HIDE DEF Good
  <2> QED BY <1>1, SubsetInduction
<1>3. IsFiniteSet(S \ {x}) BY FS_RemoveElement
<1> QED BY <1>2, <1>3, SumIsValue

LEMMA SumIn ==
  ASSUME NEW S, IsFiniteSet(S), NEW f, NEW x, x \notin S, \A y \in S \cup {x} : f[y] \in Int
  PROVE  SumFunctionOnSet(f, S \cup {x}) = f[x] + SumFunctionOnSet(f, S)
<1>1. IsFiniteSet(S \cup {x}) /\ (S \cup {x}) \ {x} = S BY FS_AddElement
<1> QED BY <1>1, SumOut

(* Only the values on the set count.                                       *)
LEMMA SumSame ==
  ASSUME NEW S, IsFiniteSet(S), NEW f, NEW g,
         \A x \in S : f[x] \in Int /\ f[x] = g[x]
  PROVE  SumFunctionOnSet(f, S) = SumFunctionOnSet(g, S)
<1> DEFINE Good == {s \in SUBSET S : SumFunctionOnSet(f, s) = SumFunctionOnSet(g, s)}
<1>1. ASSUME NEW s \in SUBSET S, \A t \in SUBSET s : t # s => t \in Good
      PROVE  s \in Good
  <2>1. CASE s = {} BY <2>1, SumEmpty
  <2>2. CASE s # {}
    <3>1. PICK x \in s : TRUE BY <2>2
    <3>2. IsFiniteSet(s) /\ s \ {x} \in Good BY <1>1, <3>1, FS_Subset
    <3>3. /\ SumFunctionOnSet(f, s) = f[x] + SumFunctionOnSet(f, s \ {x})
          /\ SumFunctionOnSet(g, s) = g[x] + SumFunctionOnSet(g, s \ {x})
      BY <3>1, <3>2, SumOut
    <3> QED BY <3>1, <3>2, <3>3
  <2> QED BY <2>1, <2>2
<1>2. \A s \in SUBSET S : s \in Good
  <2> HIDE DEF Good
  <2> QED BY <1>1, SubsetInduction
<1> QED BY <1>2

(* A change of one amount changes the sum by as much.                      *)
LEMMA SumChange ==
  ASSUME NEW S, IsFiniteSet(S), NEW f, NEW g, NEW x \in S,
         \A y \in S : f[y] \in Int /\ g[y] \in Int /\ (y # x => f[y] = g[y])
  PROVE  SumFunctionOnSet(g, S) = SumFunctionOnSet(f, S) - f[x] + g[x]
<1>1. IsFiniteSet(S \ {x}) BY FS_RemoveElement
<1>2. SumFunctionOnSet(f, S \ {x}) = SumFunctionOnSet(g, S \ {x}) BY <1>1, SumSame
<1>3. SumFunctionOnSet(f, S) = f[x] + SumFunctionOnSet(f, S \ {x})
      /\ SumFunctionOnSet(g, S) = g[x] + SumFunctionOnSet(g, S \ {x})
  BY SumOut
<1>4. SumFunctionOnSet(f, S \ {x}) \in Int BY <1>1, SumType
<1> QED BY <1>2, <1>3, <1>4

(* Smaller amounts add up to less, and so do fewer.                        *)
LEMMA SumMonotonic ==
  ASSUME NEW S, IsFiniteSet(S), NEW f, NEW g,
         \A x \in S : f[x] \in Int /\ g[x] \in Int /\ f[x] <= g[x]
  PROVE  SumFunctionOnSet(f, S) <= SumFunctionOnSet(g, S)
<1> DEFINE Good == {s \in SUBSET S : SumFunctionOnSet(f, s) <= SumFunctionOnSet(g, s)}
<1>1. ASSUME NEW s \in SUBSET S, \A t \in SUBSET s : t # s => t \in Good
      PROVE  s \in Good
  <2>1. CASE s = {} BY <2>1, SumEmpty
  <2>2. CASE s # {}
    <3>1. PICK x \in s : TRUE BY <2>2
    <3>2. IsFiniteSet(s) /\ IsFiniteSet(s \ {x}) /\ s \ {x} \in Good BY <1>1, <3>1, FS_Subset
    <3>3. /\ SumFunctionOnSet(f, s) = f[x] + SumFunctionOnSet(f, s \ {x})
          /\ SumFunctionOnSet(g, s) = g[x] + SumFunctionOnSet(g, s \ {x})
      BY <3>1, <3>2, SumOut
    <3>4. SumFunctionOnSet(f, s \ {x}) \in Int /\ SumFunctionOnSet(g, s \ {x}) \in Int
      BY <3>2, SumType
    <3>5. f[x] \in Int /\ g[x] \in Int /\ f[x] <= g[x] BY <3>1
    <3> QED BY <3>2, <3>3, <3>4, <3>5
  <2> QED BY <2>1, <2>2
<1>2. \A s \in SUBSET S : s \in Good
  <2> HIDE DEF Good
  <2> QED BY <1>1, SubsetInduction
<1> QED BY <1>2

LEMMA SumNat ==
  ASSUME NEW S, IsFiniteSet(S), NEW f, \A x \in S : f[x] \in Nat
  PROVE  SumFunctionOnSet(f, S) \in Nat
<1> DEFINE Good == {s \in SUBSET S : SumFunctionOnSet(f, s) \in Nat}
<1>1. ASSUME NEW s \in SUBSET S, \A t \in SUBSET s : t # s => t \in Good
      PROVE  s \in Good
  <2>1. CASE s = {} BY <2>1, SumEmpty
  <2>2. CASE s # {}
    <3>1. PICK x \in s : TRUE BY <2>2
    <3>2. IsFiniteSet(s) /\ s \ {x} \in Good BY <1>1, <3>1, FS_Subset
    <3>3. SumFunctionOnSet(f, s) = f[x] + SumFunctionOnSet(f, s \ {x}) BY <3>1, <3>2, SumOut
    <3> QED BY <3>1, <3>2, <3>3
  <2> QED BY <2>1, <2>2
<1>2. \A s \in SUBSET S : s \in Good
  <2> HIDE DEF Good
  <2> QED BY <1>1, SubsetInduction
<1> QED BY <1>2

LEMMA SumZero ==
  ASSUME NEW S, IsFiniteSet(S)
  PROVE  SumFunctionOnSet([x \in S |-> 0], S) = 0
<1> DEFINE f == [x \in S |-> 0]
           Good == {s \in SUBSET S : SumFunctionOnSet(f, s) = 0}
<1>1. ASSUME NEW s \in SUBSET S, \A t \in SUBSET s : t # s => t \in Good
      PROVE  s \in Good
  <2>1. CASE s = {} BY <2>1, SumEmpty
  <2>2. CASE s # {}
    <3>1. PICK x \in s : TRUE BY <2>2
    <3>2. IsFiniteSet(s) /\ s \ {x} \in Good BY <1>1, <3>1, FS_Subset
    <3>3. \A y \in s : f[y] \in Int /\ f[y] = 0 OBVIOUS
    <3> HIDE DEF f
    <3>4. SumFunctionOnSet(f, s) = f[x] + SumFunctionOnSet(f, s \ {x}) BY <3>1, <3>2, <3>3, SumOut
    <3> QED BY <3>1, <3>2, <3>3, <3>4
  <2> QED BY <2>1, <2>2
<1>2. \A s \in SUBSET S : s \in Good
  <2> HIDE DEF Good
  <2> QED BY <1>1, SubsetInduction
<1> QED BY <1>2

(* Two parts of a set add up to the whole.                                 *)
LEMMA SumSplit ==
  ASSUME NEW S, IsFiniteSet(S), NEW f, \A x \in S : f[x] \in Int, NEW T \in SUBSET S
  PROVE  SumFunctionOnSet(f, S) = SumFunctionOnSet(f, T) + SumFunctionOnSet(f, S \ T)
<1> DEFINE Sum(s) == SumFunctionOnSet(f, s)
           Good == {s \in SUBSET S : Sum(S) = Sum(s) + Sum(S \ s)}
<1>0. \A s \in SUBSET S : IsFiniteSet(s) /\ Sum(s) \in Int
  <2> TAKE s \in SUBSET S
  <2>1. IsFiniteSet(s) BY FS_Subset
  <2> QED BY <2>1, SumType
<1>1. ASSUME NEW s \in SUBSET S, \A t \in SUBSET s : t # s => t \in Good
      PROVE  s \in Good
  <2>1. CASE s = {}
    <3>1. Sum({}) = 0 /\ S \ {} = S BY SumEmpty
    <3>2. Sum(S) \in Int BY <1>0
    <3> HIDE DEF Sum
    <3> QED BY <2>1, <3>1, <3>2
  <2>2. CASE s # {}
    <3>1. PICK x \in s : TRUE BY <2>2
    <3>2. s \ {x} \in Good BY <1>1, <3>1
    <3>3. Sum(s) = f[x] + Sum(s \ {x})
      <4>1. IsFiniteSet(s) BY <1>0
      <4> QED BY <3>1, <4>1, SumOut
    <3>4. Sum(S \ (s \ {x})) = f[x] + Sum(S \ s)
      <4>1. S \ (s \ {x}) \in SUBSET S /\ x \in S \ (s \ {x}) BY <3>1
      <4>2. IsFiniteSet(S \ (s \ {x})) BY <1>0, <4>1
      <4>3. (S \ (s \ {x})) \ {x} = S \ s BY <3>1
      <4>4. Sum(S \ (s \ {x})) = f[x] + Sum((S \ (s \ {x})) \ {x}) BY <4>1, <4>2, SumOut
      <4> QED BY <4>3, <4>4
    <3>5. Sum(s \ {x}) \in Int /\ Sum(S \ s) \in Int /\ f[x] \in Int BY <1>0, <3>1
    <3> HIDE DEF Sum
    <3> QED BY <3>2, <3>3, <3>4, <3>5
  <2> QED BY <2>1, <2>2
<1>2. \A s \in SUBSET S : s \in Good
  <2> HIDE DEF Good
  <2> QED BY <1>1, SubsetInduction
<1> QED BY <1>2

LEMMA SumSubset ==
  ASSUME NEW S, IsFiniteSet(S), NEW f, \A x \in S : f[x] \in Nat, NEW T \in SUBSET S
  PROVE  SumFunctionOnSet(f, T) <= SumFunctionOnSet(f, S)
<1> DEFINE g == [x \in S |-> IF x \in T THEN f[x] ELSE 0]
           Good == {s \in SUBSET S : SumFunctionOnSet(g, s) = SumFunctionOnSet(g, s \cap T)}
<1>1. ASSUME NEW s \in SUBSET S, \A t \in SUBSET s : t # s => t \in Good
      PROVE  s \in Good
  <2>1. CASE s \subseteq T BY <2>1
  <2>2. CASE ~(s \subseteq T)
    <3>1. PICK x \in s : x \notin T BY <2>2
    <3>2. IsFiniteSet(s) /\ s \ {x} \in Good /\ IsFiniteSet(s \ {x}) BY <1>1, <3>1, FS_Subset
    <3>3. SumFunctionOnSet(g, s) = g[x] + SumFunctionOnSet(g, s \ {x})
      <4>1. \A y \in s : g[y] \in Int OBVIOUS
      <4> HIDE DEF g
      <4> QED BY <3>1, <3>2, <4>1, SumOut
    <3>4. g[x] = 0 BY <3>1
    <3>5. SumFunctionOnSet(g, s \ {x}) \in Int
      <4>1. \A y \in s \ {x} : g[y] \in Int OBVIOUS
      <4> HIDE DEF g
      <4> QED BY <3>2, <4>1, SumType
    <3>6. (s \ {x}) \cap T = s \cap T BY <3>1
    <3> HIDE DEF g
    <3>7. SumFunctionOnSet(g, s \ {x}) = SumFunctionOnSet(g, s \cap T) BY <3>2, <3>6
    <3>8. SumFunctionOnSet(g, s) = SumFunctionOnSet(g, s \cap T) BY <3>3, <3>4, <3>5, <3>7
    <3> QED BY <3>8
  <2> QED BY <2>1, <2>2
<1>2. \A s \in SUBSET S : s \in Good
  <2> HIDE DEF Good
  <2> QED BY <1>1, SubsetInduction
<1>3. SumFunctionOnSet(g, S) = SumFunctionOnSet(g, T)
  <2>1. S \cap T = T OBVIOUS
  <2> QED BY <1>2, <2>1
<1>4. SumFunctionOnSet(g, T) = SumFunctionOnSet(f, T)
  <2>1. IsFiniteSet(T) /\ \A y \in T : g[y] \in Int /\ g[y] = f[y] BY FS_Subset
  <2> HIDE DEF g
  <2> QED BY <2>1, SumSame
<1>5. SumFunctionOnSet(g, S) <= SumFunctionOnSet(f, S)
  <2>1. \A y \in S : g[y] \in Int /\ f[y] \in Int /\ g[y] <= f[y] OBVIOUS
  <2> HIDE DEF g
  <2> QED BY <2>1, SumMonotonic
<1> QED BY <1>3, <1>4, <1>5

(* Sums add up term by term.                                               *)
LEMMA SumAdd ==
  ASSUME NEW S, IsFiniteSet(S), NEW f, NEW g, NEW h,
         \A x \in S : f[x] \in Int /\ g[x] \in Int /\ h[x] = f[x] + g[x]
  PROVE  SumFunctionOnSet(h, S) = SumFunctionOnSet(f, S) + SumFunctionOnSet(g, S)
<1> DEFINE Good == {s \in SUBSET S :
             SumFunctionOnSet(h, s) = SumFunctionOnSet(f, s) + SumFunctionOnSet(g, s)}
<1>1. ASSUME NEW s \in SUBSET S, \A t \in SUBSET s : t # s => t \in Good
      PROVE  s \in Good
  <2>1. CASE s = {} BY <2>1, SumEmpty
  <2>2. CASE s # {}
    <3>1. PICK x \in s : TRUE BY <2>2
    <3>2. IsFiniteSet(s) /\ IsFiniteSet(s \ {x}) /\ s \ {x} \in Good BY <1>1, <3>1, FS_Subset
    <3>3. /\ SumFunctionOnSet(f, s) = f[x] + SumFunctionOnSet(f, s \ {x})
          /\ SumFunctionOnSet(g, s) = g[x] + SumFunctionOnSet(g, s \ {x})
          /\ SumFunctionOnSet(h, s) = h[x] + SumFunctionOnSet(h, s \ {x})
      BY <3>1, <3>2, SumOut
    <3>4. SumFunctionOnSet(f, s \ {x}) \in Int /\ SumFunctionOnSet(g, s \ {x}) \in Int
      BY <3>2, SumType
    <3>5. f[x] \in Int /\ g[x] \in Int /\ h[x] = f[x] + g[x] BY <3>1
    <3> QED BY <3>2, <3>3, <3>4, <3>5
  <2> QED BY <2>1, <2>2
<1>2. \A s \in SUBSET S : s \in Good
  <2> HIDE DEF Good
  <2> QED BY <1>1, SubsetInduction
<1> QED BY <1>2

(* As much for each is so much times how many there are.                   *)
LEMMA SumConstant ==
  ASSUME NEW S, IsFiniteSet(S), NEW k \in Int, NEW f, \A x \in S : f[x] = k
  PROVE  SumFunctionOnSet(f, S) = k * Cardinality(S)
<1> DEFINE Good == {s \in SUBSET S : SumFunctionOnSet(f, s) = k * Cardinality(s)}
<1>1. ASSUME NEW s \in SUBSET S, \A t \in SUBSET s : t # s => t \in Good
      PROVE  s \in Good
  <2>1. CASE s = {} BY <2>1, SumEmpty, FS_EmptySet
  <2>2. CASE s # {}
    <3>1. PICK x \in s : TRUE BY <2>2
    <3>2. IsFiniteSet(s) /\ IsFiniteSet(s \ {x}) /\ s \ {x} \in Good BY <1>1, <3>1, FS_Subset
    <3>3. SumFunctionOnSet(f, s) = k + SumFunctionOnSet(f, s \ {x}) BY <3>1, <3>2, SumOut
    <3>4. Cardinality(s) = Cardinality(s \ {x}) + 1 /\ Cardinality(s \ {x}) \in Nat
      <4>1. Cardinality(s) \in Nat BY <3>2, FS_CardinalityType
      <4> QED BY <3>1, <3>2, <4>1, FS_RemoveElement, FS_CardinalityType
    <3> QED BY <3>2, <3>3, <3>4
  <2> QED BY <2>1, <2>2
<1>2. \A s \in SUBSET S : s \in Good
  <2> HIDE DEF Good
  <2> QED BY <1>1, SubsetInduction
<1> QED BY <1>2

(* A table of amounts adds up to the same by rows and by columns.          *)
Transposed(f, g, S, T) == \A x \in S, y \in T : f[x][y] \in Int /\ g[y][x] = f[x][y]
SumsOf(sums, f, S, T) == \A x \in S : sums[x] = SumFunctionOnSet(f[x], T)
LEMMA SumSwap ==
  ASSUME NEW S, IsFiniteSet(S), NEW T, IsFiniteSet(T), NEW f, NEW g, Transposed(f, g, S, T),
         NEW rows, SumsOf(rows, f, S, T), NEW cols, SumsOf(cols, g, T, S)
  PROVE  SumFunctionOnSet(rows, S) = SumFunctionOnSet(cols, T)
<1> USE DEF Transposed, SumsOf
<1> DEFINE part(s) == [y \in T |-> SumFunctionOnSet(g[y], s)]
           Good == {s \in SUBSET S : SumFunctionOnSet(rows, s) = SumFunctionOnSet(part(s), T)}
<1>1. ASSUME NEW s \in SUBSET S, \A t \in SUBSET s : t # s => t \in Good
      PROVE  s \in Good
  <2>1. CASE s = {}
    <3>1. \A y \in T : part({})[y] = 0 BY SumEmpty
    <3> HIDE DEF part
    <3>2. SumFunctionOnSet(part({}), T) = 0 * Cardinality(T) BY <3>1, SumConstant
    <3>3. Cardinality(T) \in Nat BY FS_CardinalityType
    <3> QED BY <2>1, <3>2, <3>3, SumEmpty
  <2>2. CASE s # {}
    <3>1. PICK x \in s : TRUE BY <2>2
    <3> DEFINE t == s \ {x}
    <3>2. IsFiniteSet(s) /\ IsFiniteSet(t) /\ t \in Good BY <1>1, <3>1, FS_Subset
    <3>3. \A u \in S : rows[u] \in Int BY SumType
    <3>4. SumFunctionOnSet(rows, s) = rows[x] + SumFunctionOnSet(rows, t)
      BY <3>1, <3>2, <3>3, SumOut
    <3>5. ASSUME NEW y \in T
          PROVE  /\ f[x][y] \in Int /\ part(t)[y] \in Int
                 /\ part(s)[y] = f[x][y] + part(t)[y]
      <4> DEFINE c == g[y]
      <4>1. \A u \in s : c[u] \in Int /\ c[u] = f[u][y] BY <1>1
      <4>2. SumFunctionOnSet(c, s) = c[x] + SumFunctionOnSet(c, t)
        <5> HIDE DEF c
        <5>1. x \in s /\ IsFiniteSet(s) /\ \A u \in s : c[u] \in Int BY <3>1, <3>2, <4>1
        <5> QED BY <5>1, SumOut
      <4>3. SumFunctionOnSet(c, t) \in Int
        <5> HIDE DEF c
        <5> QED BY <3>2, <4>1, SumType
      <4> QED BY <3>1, <4>1, <4>2, <4>3
    <3> DEFINE fx == f[x]
               ps == part(s)
               pt == part(t)
    <3>6. \A y \in T : fx[y] \in Int /\ pt[y] \in Int /\ ps[y] = fx[y] + pt[y] BY <3>5
    <3>7. rows[x] = SumFunctionOnSet(fx, T) BY <3>1
    <3>8. SumFunctionOnSet(rows, t) = SumFunctionOnSet(pt, T) BY <3>2
    <3>9. SUFFICES SumFunctionOnSet(rows, s) = SumFunctionOnSet(ps, T)
      OBVIOUS
    <3> HIDE DEF fx, ps, pt, t
    <3>10. SumFunctionOnSet(ps, T) = SumFunctionOnSet(fx, T) + SumFunctionOnSet(pt, T)
      BY <3>6, SumAdd
    <3> QED BY <3>4, <3>7, <3>8, <3>10
  <2> QED BY <2>1, <2>2
<1>2. SumFunctionOnSet(rows, S) = SumFunctionOnSet(part(S), T)
  <2>1. \A s \in SUBSET S : s \in Good
    <3> HIDE DEF Good
    <3> QED BY <1>1, SubsetInduction
  <2> QED BY <2>1
<1>3. \A y \in T : cols[y] \in Int /\ cols[y] = part(S)[y]
  <2> TAKE y \in T
  <2>1. SumFunctionOnSet(g[y], S) \in Int BY SumType
  <2> QED BY <2>1
<1> HIDE DEF part
<1>4. SumFunctionOnSet(cols, T) = SumFunctionOnSet(part(S), T) BY <1>3, SumSame
<1> QED BY <1>2, <1>4

(* What is sorted by a key adds up key by key.                             *)
Keyed(S, key, K) == {x \in S : key[x] \in K}
WithKey(S, key, k) == {x \in S : key[x] = k}
LEMMA SumByKey ==
  ASSUME NEW S, IsFiniteSet(S), NEW f, \A x \in S : f[x] \in Int,
         NEW K, IsFiniteSet(K), NEW key,
         NEW g, \A k \in K : g[k] = SumFunctionOnSet(f, WithKey(S, key, k))
  PROVE  SumFunctionOnSet(g, K) = SumFunctionOnSet(f, Keyed(S, key, K))
<1> DEFINE with(s) == Keyed(S, key, s)
           Good == {s \in SUBSET K : SumFunctionOnSet(g, s) = SumFunctionOnSet(f, with(s))}
<1>0. \A s : IsFiniteSet(with(s)) /\ SumFunctionOnSet(f, with(s)) \in Int
  <2> TAKE s
  <2>1. IsFiniteSet(with(s)) BY FS_Subset DEF Keyed
  <2>2. \A x \in with(s) : f[x] \in Int BY DEF Keyed
  <2> HIDE DEF with
  <2> QED BY <2>1, <2>2, SumType
<1>1. ASSUME NEW s \in SUBSET K, \A t \in SUBSET s : t # s => t \in Good
      PROVE  s \in Good
  <2>1. CASE s = {}
    <3>1. with({}) = {} BY DEF Keyed
    <3> QED BY <2>1, <3>1, SumEmpty
  <2>2. CASE s # {}
    <3>1. PICK k \in s : TRUE BY <2>2
    <3> DEFINE t == s \ {k}
               one == WithKey(S, key, k)
    <3>2. IsFiniteSet(s) /\ t \in Good BY <1>1, <3>1, FS_Subset
    <3>3. \A j \in s : g[j] \in Int
      <4> TAKE j \in s
      <4>1. SumFunctionOnSet(f, with({j})) \in Int BY <1>0
      <4>2. with({j}) = WithKey(S, key, j) BY DEF Keyed, WithKey
      <4> QED BY <4>1, <4>2
    <3>4. SumFunctionOnSet(g, s) = g[k] + SumFunctionOnSet(g, t) BY <3>1, <3>2, <3>3, SumOut
    <3>5. one \in SUBSET with(s) /\ with(s) \ one = with(t) BY <3>1 DEF Keyed, WithKey
    <3>6. IsFiniteSet(with(s)) /\ \A x \in with(s) : f[x] \in Int BY <1>0 DEF Keyed
    <3>7. g[k] = SumFunctionOnSet(f, one) /\ SumFunctionOnSet(g, t) = SumFunctionOnSet(f, with(t))
      BY <3>1, <3>2
    <3>8. SUFFICES SumFunctionOnSet(g, s) = SumFunctionOnSet(f, with(s))
      OBVIOUS
    <3> HIDE DEF one, t, with
    <3>9. SumFunctionOnSet(f, with(s)) = SumFunctionOnSet(f, one) + SumFunctionOnSet(f, with(s) \ one)
      BY <3>5, <3>6, SumSplit
    <3> QED BY <3>4, <3>5, <3>7, <3>9
  <2> QED BY <2>1, <2>2
<1>2. \A s \in SUBSET K : s \in Good
  <2> HIDE DEF Good
  <2> QED BY <1>1, SubsetInduction
<1> QED BY <1>2

(* A finite set of integers has a greatest one.                            *)
LEMMA MaxExists ==
  ASSUME NEW S \in SUBSET Int, IsFiniteSet(S), S # {}
  PROVE  Max(S) \in S /\ \A x \in S : x <= Max(S)
<1> DEFINE Good == {s \in SUBSET S : s # {} => \E m \in s : \A x \in s : m >= x}
<1>1. ASSUME NEW s \in SUBSET S, \A t \in SUBSET s : t # s => t \in Good
      PROVE  s \in Good
  <2> SUFFICES ASSUME s # {} PROVE \E m \in s : \A x \in s : m >= x
    OBVIOUS
  <2>1. PICK y \in s : TRUE OBVIOUS
  <2>2. CASE s = {y} BY <2>2
  <2>3. CASE s # {y}
    <3>1. PICK m \in s \ {y} : \A x \in s \ {y} : m >= x
      <4>1. s \ {y} \in Good /\ s \ {y} # {} BY <1>1, <2>1, <2>3
      <4> QED BY <4>1
    <3>2. CASE m >= y BY <3>1, <3>2
    <3>3. CASE ~(m >= y)
      <4>1. \A x \in s : y >= x
        <5> TAKE x \in s
        <5>1. x \in Int /\ y \in Int /\ m \in Int BY <2>1, <3>1
        <5> QED BY <3>1, <3>3, <5>1
      <4> QED BY <2>1, <4>1
    <3> QED BY <3>2, <3>3
  <2> QED BY <2>2, <2>3
<1>2. \A s \in SUBSET S : s \in Good
  <2> HIDE DEF Good
  <2> QED BY <1>1, SubsetInduction
<1>3. \E m \in S : \A x \in S : m >= x BY <1>2
<1>4. Max(S) \in S /\ \A x \in S : Max(S) >= x BY <1>3 DEF Max
<1> QED BY <1>4

-----------------------------------------------------------------------------
(* The prize table *)

(* Every occupancy is in exactly one tier, an overfull room in the last.   *)
LEMMA TierExists ==
  ASSUME NEW seats \in Nat \ {0}, NEW n \in Nat
  PROVE  /\ TierOf(n, seats) \in 0..10 /\ Reaches(n, seats, TierOf(n, seats))
         /\ TierOf(n, seats) < 10 => ~Reaches(n, seats, TierOf(n, seats) + 1)
<1> DEFINE In(tier) == Reaches(n, seats, tier) /\ (tier < 10 => ~Reaches(n, seats, tier + 1))
<1>1. In(0) \/ In(1) \/ In(2) \/ In(3) \/ In(4) \/ In(5) \/ In(6) \/ In(7) \/ In(8) \/ In(9) \/ In(10)
  BY DEF Reaches
<1>2. \E tier \in 0..10 : In(tier)
  <2> HIDE DEF In
  <2> QED BY <1>1
<1> QED BY <1>2 DEF TierOf

LEMMA MultiplierIsNat ==
  ASSUME NEW seats \in Nat \ {0}, NEW n \in Nat
  PROVE  multiplierFor(n, seats) \in Nat
BY TierExists DEF multiplierFor

LEMMA FeesAreMoney ==
  ASSUME NEW level \in Levels, NEW plan \in SUBSCRIPTIONS
  PROVE  entryFeeCents(level, plan) \in Nat \ {0}
<1>1. CASE plan = "NONE"       BY <1>1 DEF entryFeeCents, ENTRY_FEE_BRL, BRL, Levels
<1>2. CASE plan = "MONTHLY"    BY <1>2 DEF entryFeeCents, ENTRY_FEE_BRL, BRL, Levels
<1>3. CASE plan = "QUARTERLY"  BY <1>3 DEF entryFeeCents, ENTRY_FEE_BRL, BRL, Levels
<1>4. CASE plan = "SEMIANNUAL" BY <1>4 DEF entryFeeCents, ENTRY_FEE_BRL, BRL, Levels
<1>5. CASE plan = "ANNUAL"     BY <1>5 DEF entryFeeCents, ENTRY_FEE_BRL, BRL, Levels
<1> QED BY <1>1, <1>2, <1>3, <1>4, <1>5 DEF SUBSCRIPTIONS

(* A percentage of an amount is part of it.                                *)
LEMMA PartOfTheWhole ==
  ASSUME NEW cents \in Nat, NEW pct \in 0..100
  PROVE  (cents * pct) \div 100 \in 0..cents
<1>1. cents * pct \in Nat /\ cents * pct <= cents * 100
  OBVIOUS
<1> DEFINE part == cents * pct
<1>2. part \in Nat /\ part <= cents * 100
  BY <1>1
<1> HIDE DEF part
<1>3. part \div 100 \in 0..cents
  BY <1>2
<1> QED BY <1>3 DEF part

(* settle() never pays out more than the payable share of what the players *)
(* of the room were charged, whatever the occupancy and the winner's plan: *)
(* the pool always covers the payout ("the house never overpays",          *)
(* tournament.service.ts:39).                                              *)
THEOREM HouseNeverOverpays ==
  ASSUME NEW level \in Levels, NEW collected \in Nat, NEW seats \in Nat \ {0}, NEW n \in Nat,
         NEW sharePct \in 0..100, NEW plan \in SUBSCRIPTIONS
  PROVE  LET pool == prizePoolCents(level, collected, n, seats, sharePct)
         IN /\ pool \in 0..collected /\ pool <= (collected * sharePct) \div 100
            /\ prizeShareCents(pool, plan) \in 0..pool
<1> DEFINE raw     == entryFeeCents(level, "NONE") * multiplierFor(n, seats)
           payable == (collected * sharePct) \div 100
           pool    == prizePoolCents(level, collected, n, seats, sharePct)
<1>1. raw \in Nat
  <2>1. entryFeeCents(level, "NONE") \in Nat
    BY FeesAreMoney DEF SUBSCRIPTIONS
  <2>2. multiplierFor(n, seats) \in Nat
    BY MultiplierIsNat
  <2> QED BY <2>1, <2>2
<1>2. payable \in 0..collected
  BY PartOfTheWhole
<1>3. pool = IF raw < payable THEN raw ELSE payable
  BY DEF prizePoolCents
<1> HIDE DEF raw, payable, pool
<1>4. pool \in 0..collected /\ pool <= payable
  BY <1>1, <1>2, <1>3
<1>5. PRIZE_SHARE_PCT[plan] \in 0..100
  BY DEF PRIZE_SHARE_PCT, BRL, SUBSCRIPTIONS
<1>6. prizeShareCents(pool, plan) \in 0..pool
  <2>1. pool \in Nat
    BY <1>4
  <2> QED BY <1>5, <2>1, PartOfTheWhole DEF prizeShareCents
<1> QED BY <1>4, <1>6 DEF pool, payable

(* The first tier that pays is a tenth of the seats.                       *)
LEMMA PaysFromATenth ==
  ASSUME NEW seats \in Nat \ {0}, NEW n \in Nat
  PROVE  multiplierFor(n, seats) > 0 <=> seats <= 10 * n
<1> DEFINE tier == TierOf(n, seats)
<1>1. tier \in 0..10 /\ Reaches(n, seats, tier) /\ (tier < 10 => ~Reaches(n, seats, tier + 1))
  BY TierExists
<1>2. multiplierFor(n, seats) = 20 * tier
  BY DEF multiplierFor
<1> HIDE DEF tier
<1>3. CASE tier = 0
  BY <1>1, <1>2, <1>3 DEF Reaches
<1>4. CASE tier \in 1..10
  <2>1. tier * seats >= seats
    BY <1>4
  <2>2. tier * seats <= 10 * n
    BY <1>1 DEF Reaches
  <2> QED BY <1>2, <1>4, <2>1, <2>2
<1> QED BY <1>1, <1>3, <1>4

(* A room with at least minPlayersThatWinSomething() players has a prize:  *)
(* no window runs for a prize of nothing (scheduled-rooms.service.ts:83).  *)
THEOREM EnoughPlayersForAPrize ==
  ASSUME NEW seats \in Nat \ {0}
  PROVE  /\ minPlayersThatWinSomething(seats) \in 1..seats
         /\ \A n \in Nat : n >= minPlayersThatWinSomething(seats) => multiplierFor(n, seats) > 0
<1> DEFINE tenth == (seats + 9) \div 10
           First(m) == multiplierFor(m, seats) > 0 /\ \A j \in 1..m - 1 : multiplierFor(j, seats) = 0
           least == minPlayersThatWinSomething(seats)
<1>1. tenth \in 1..seats /\ seats <= 10 * tenth /\ \A j \in 1..tenth - 1 : 10 * j < seats
  OBVIOUS
<1>2. \A j \in 1..tenth - 1 : multiplierFor(j, seats) = 0
  <2> TAKE j \in 1..tenth - 1
  <2>1. j \in Nat /\ 10 * j < seats
    BY <1>1
  <2>2. multiplierFor(j, seats) \in Nat /\ ~(multiplierFor(j, seats) > 0)
    BY <2>1, MultiplierIsNat, PaysFromATenth
  <2> QED BY <2>2
<1>3. multiplierFor(tenth, seats) > 0
  <2>1. tenth \in Nat
    BY <1>1
  <2> QED BY <1>1, <2>1, PaysFromATenth
<1>4. least \in 1..seats /\ First(least)
  <2>1. \E m \in 1..seats : First(m)
    <3> HIDE DEF tenth
    <3> QED BY <1>1, <1>2, <1>3
  <2>2. \E m \in 1..seats : multiplierFor(m, seats) > 0
    BY <2>1
  <2>3. least = CHOOSE m \in 1..seats : First(m)
    BY <2>2 DEF minPlayersThatWinSomething
  <2> HIDE DEF First, least
  <2> QED BY <2>1, <2>3
<1> HIDE DEF least
<1>5. seats <= 10 * least
  <2>1. least \in Nat
    BY <1>4
  <2> QED BY <1>4, <2>1, PaysFromATenth
<1>6. ASSUME NEW n \in Nat, n >= least PROVE multiplierFor(n, seats) > 0
  <2>1. seats <= 10 * n BY <1>4, <1>5, <1>6
  <2> QED BY <2>1, PaysFromATenth
<1> QED BY <1>4, <1>6 DEF least
=============================================================================
