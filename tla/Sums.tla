-------------------------------- MODULE Sums --------------------------------
(***************************************************************************)
(* Sums over finite sets, as the conservation laws of Exchange, Charter    *)
(* and Homes have them: SumFunctionOnSet(f, S), of module Functions, is    *)
(* the sum of f[x] for x in S.  It is defined by recursion on the set,     *)
(* taking out one element after another; what is shown here is that the    *)
(* recursion has a value, and that the order doesn't matter.  Induction is *)
(* by the least counterexample.                                            *)
(***************************************************************************)
EXTENDS Integers, FiniteSets, Functions, FiniteSetTheorems, WellFoundedInduction, TLAPS

(* A set of natural numbers has a least one. *)
LEMMA LeastOf ==
    ASSUME NEW T \in SUBSET Nat, T # {}
    PROVE  \E n \in T : \A m \in T : n <= m
<1>1. PICK n \in T : \A m \in T : <<m, n>> \notin OpToRel(<, Nat)
      BY NatLessThanWellFounded, WFMin, Zenon
<1>2. ASSUME NEW m \in T
      PROVE  n <= m
  <2>1. n \in Nat /\ m \in Nat
        OBVIOUS
  <2>2. ~(m < n)
        BY <1>1, <2>1 DEF OpToRel
  <2> QED BY <2>1, <2>2
<1> QED BY <1>2

(* The element the sum takes out next. *)
First(s) == CHOOSE x \in s : TRUE

(* What the sum over s is, by the sums g over smaller sets. *)
Unfolded(f, g, s) == IF s = {} THEN 0 ELSE f[First(s)] + g[s \ {First(s)}]

(* g has the sums over all subsets of S. *)
SumsOf(f, g, S) == g = [s \in SUBSET S |-> Unfolded(f, g, s)]

LEMMA FirstIn == ASSUME NEW s, s # {} PROVE First(s) \in s
BY DEF First

(* SumFunctionOnSet, in these words. *)
LEMMA SumIs ==
    ASSUME NEW f, NEW S
    PROVE  SumFunctionOnSet(f, S) =
               (CHOOSE g : SumsOf(f, g, S))[S]
BY DEF SumsOf, SumFunctionOnSet, FoldFunctionOnSet, MapThenFoldSet, Unfolded, First

Smaller(S, n) == {s \in SUBSET S : Cardinality(s) <= n}

(* What is left when one is taken out is smaller. *)
LEMMA TakenOut ==
    ASSUME NEW S, IsFiniteSet(S), NEW s \in SUBSET S, s # {}
    PROVE  /\ First(s) \in s /\ First(s) \in S
           /\ s \ {First(s)} \in SUBSET S
           /\ IsFiniteSet(s) /\ Cardinality(s) \in Nat
           /\ Cardinality(s \ {First(s)}) = Cardinality(s) - 1
           /\ Cardinality(s) > 0
<1>1. First(s) \in s
      BY FirstIn
<1>2. IsFiniteSet(s)
      BY FS_Subset
<1>3. Cardinality(s \ {First(s)}) = Cardinality(s) - 1
      BY <1>1, <1>2, FS_RemoveElement
<1>4. Cardinality(s) \in Nat /\ Cardinality(s) # 0
      BY <1>2, FS_CardinalityType, FS_EmptySet
<1> QED BY <1>1, <1>2, <1>3, <1>4

(* The recursion has a value... *)
LEMMA Summable ==
    ASSUME NEW S, IsFiniteSet(S), NEW f, \A x \in S : f[x] \in Int
    PROVE  \E g \in [SUBSET S -> Int] : SumsOf(f, g, S)
<1> DEFINE Upto(n, g) == \A s \in Smaller(S, n) : g[s] = Unfolded(f, g, s)
           bad == {n \in Nat : ~\E g \in [Smaller(S, n) -> Int] : Upto(n, g)}
<1>1. bad = {}
  <2> SUFFICES ASSUME bad # {} PROVE FALSE
      OBVIOUS
  <2>1. PICK n \in bad : \A m \in bad : n <= m
        BY LeastOf
  <2>2. n \in Nat
        OBVIOUS
  <2>3. CASE n = 0
    <3> DEFINE g == [s \in Smaller(S, 0) |-> 0]
    <3>1. ASSUME NEW s \in Smaller(S, 0)
          PROVE  s = {}
      <4>1. s \in SUBSET S /\ Cardinality(s) <= 0
            BY DEF Smaller
      <4>2. s # {} => Cardinality(s) \in Nat /\ Cardinality(s) > 0
            BY <4>1, TakenOut
      <4> QED BY <4>1, <4>2
    <3>2. Upto(0, g) /\ g \in [Smaller(S, 0) -> Int]
          BY <3>1 DEF Unfolded
    <3> QED BY <2>3, <3>2
  <2>4. CASE n # 0
    <3>1. n - 1 \in Nat /\ n - 1 \notin bad
          BY <2>1, <2>2, <2>4
    <3>2. PICK g \in [Smaller(S, n - 1) -> Int] : Upto(n - 1, g)
          BY <3>1
    <3> DEFINE h == [s \in Smaller(S, n) |-> Unfolded(f, g, s)]
    <3>3. ASSUME NEW s \in Smaller(S, n), s # {}
          PROVE  s \ {First(s)} \in Smaller(S, n - 1) /\ First(s) \in S
      <4>1. s \in SUBSET S /\ Cardinality(s) <= n
            BY DEF Smaller
      <4>2. Cardinality(s \ {First(s)}) = Cardinality(s) - 1 /\ Cardinality(s) \in Nat
            BY <3>3, <4>1, TakenOut
      <4>3. s \ {First(s)} \in SUBSET S /\ First(s) \in S
            BY <3>3, <4>1, TakenOut
      <4> QED BY <2>2, <4>1, <4>2, <4>3 DEF Smaller
    <3>4. ASSUME NEW s \in Smaller(S, n - 1)
          PROVE  s \in Smaller(S, n)
      <4>1. s \in SUBSET S /\ Cardinality(s) <= n - 1 /\ Cardinality(s) \in Nat
            BY FS_Subset, FS_CardinalityType DEF Smaller
      <4> QED BY <2>2, <4>1 DEF Smaller
    <3>5. h \in [Smaller(S, n) -> Int]
      <4> SUFFICES ASSUME NEW s \in Smaller(S, n) PROVE Unfolded(f, g, s) \in Int
          OBVIOUS
      <4>1. CASE s = {}
            BY <4>1 DEF Unfolded
      <4>2. CASE s # {}
        <5>1. f[First(s)] \in Int /\ g[s \ {First(s)}] \in Int
              BY <3>3, <4>2
        <5> QED BY <4>2, <5>1 DEF Unfolded
      <4> QED BY <4>1, <4>2
    <3>6. ASSUME NEW s \in Smaller(S, n)
          PROVE  h[s] = Unfolded(f, h, s)
      <4>1. CASE s = {}
            BY <4>1 DEF Unfolded
      <4>2. CASE s # {}
        <5> DEFINE t == s \ {First(s)}
        <5>1. t \in Smaller(S, n - 1) /\ t \in Smaller(S, n)
              BY <3>3, <3>4, <4>2
        <5> HIDE DEF t
        <5>2. h[t] = g[t]
              BY <3>2, <5>1
        <5> QED BY <4>2, <5>2 DEF Unfolded, t
      <4> QED BY <4>1, <4>2
    <3>7. Upto(n, h)
          BY <3>6
    <3> HIDE DEF h, Upto
    <3> QED BY <3>5, <3>7
  <2> QED BY <2>3, <2>4
<1>2. Cardinality(S) \in Nat
      BY FS_CardinalityType
<1>3. PICK g \in [Smaller(S, Cardinality(S)) -> Int] : Upto(Cardinality(S), g)
      BY <1>1, <1>2
<1>4. Smaller(S, Cardinality(S)) = SUBSET S
      BY FS_Subset DEF Smaller
<1>5. SumsOf(f, g, S)
      BY <1>3, <1>4 DEF SumsOf
<1> QED BY <1>3, <1>4, <1>5

(* ...and one only, whatever it is the sum over a subset of. *)
LEMMA SumsAgree ==
    ASSUME NEW S, IsFiniteSet(S), NEW T \in SUBSET S, NEW f, NEW g, NEW h,
           SumsOf(f, g, S), SumsOf(f, h, T)
    PROVE  \A s \in SUBSET T : g[s] = h[s]
<1> DEFINE differ == {s \in SUBSET T : g[s] # h[s]}
           bad == {Cardinality(s) : s \in differ}
<1> SUFFICES ASSUME bad # {} PROVE FALSE
    OBVIOUS
<1>1. bad \in SUBSET Nat
      BY FS_Subset, FS_CardinalityType
<1>2. PICK n \in bad : \A m \in bad : n <= m
      BY <1>1, LeastOf
<1>3. PICK s \in differ : n = Cardinality(s)
      OBVIOUS
<1>4. s \in SUBSET T /\ s \in SUBSET S /\ g[s] # h[s]
      OBVIOUS
<1>5. g[s] = Unfolded(f, g, s) /\ h[s] = Unfolded(f, h, s)
      BY <1>4 DEF SumsOf
<1>6. s # {}
      BY <1>4, <1>5 DEF Unfolded
<1> DEFINE t == s \ {First(s)}
<1>7. t \in SUBSET T /\ Cardinality(t) = n - 1 /\ n \in Nat /\ Cardinality(t) \in Nat
  <2>1. t \in SUBSET T /\ t \in SUBSET S
        BY <1>4
  <2> QED BY <1>3, <1>4, <1>6, <2>1, TakenOut, FS_Subset, FS_CardinalityType
<1>8. g[t] = h[t]
  <2>1. Cardinality(t) \notin bad
        BY <1>2, <1>7
  <2>2. t \notin differ
        BY <2>1
  <2> QED BY <1>7, <2>2
<1> QED BY <1>4, <1>5, <1>6, <1>8 DEF Unfolded

(* The sum, one element taken out. *)
LEMMA SumUnfolds ==
    ASSUME NEW S, IsFiniteSet(S), NEW f, \A x \in S : f[x] \in Int
    PROVE  /\ SumFunctionOnSet(f, S) \in Int
           /\ S = {} => SumFunctionOnSet(f, S) = 0
           /\ S # {} => SumFunctionOnSet(f, S) =
                           f[First(S)] + SumFunctionOnSet(f, S \ {First(S)})
<1> DEFINE sum(T) == CHOOSE g : SumsOf(f, g, T)
<1>1. ASSUME NEW T \in SUBSET S
      PROVE  /\ SumsOf(f, sum(T), T) /\ sum(T)[T] = SumFunctionOnSet(f, T)
             /\ IsFiniteSet(T) /\ T \in SUBSET T
  <2>1. IsFiniteSet(T) /\ \A x \in T : f[x] \in Int
        BY FS_Subset
  <2>2. \E g : SumsOf(f, g, T)
        BY <2>1, Summable
  <2>3. SumsOf(f, sum(T), T)
        BY <2>2
  <2>4. sum(T)[T] = SumFunctionOnSet(f, T)
        BY SumIs
  <2> HIDE DEF sum
  <2> QED BY <2>1, <2>3, <2>4
<1>2. SumFunctionOnSet(f, S) \in Int
  <2>1. PICK g \in [SUBSET S -> Int] : SumsOf(f, g, S)
        BY Summable
  <2>2. SumsOf(f, sum(S), S) /\ sum(S)[S] = SumFunctionOnSet(f, S)
        BY <1>1
  <2>3. sum(S)[S] = g[S]
    <3> HIDE DEF sum
    <3> QED BY <2>1, <2>2, SumsAgree
  <2> QED BY <2>1, <2>2, <2>3
<1>3. SumFunctionOnSet(f, S) = Unfolded(f, sum(S), S)
  <2>1. SumsOf(f, sum(S), S) /\ sum(S)[S] = SumFunctionOnSet(f, S)
        BY <1>1
  <2> HIDE DEF sum
  <2> QED BY <2>1 DEF SumsOf
<1>4. ASSUME S # {}
      PROVE  sum(S)[S \ {First(S)}] = SumFunctionOnSet(f, S \ {First(S)})
  <2> DEFINE T == S \ {First(S)}
  <2>1. T \in SUBSET S
        OBVIOUS
  <2> HIDE DEF T, sum
  <2>2. SumsOf(f, sum(S), S) /\ SumsOf(f, sum(T), T) /\ sum(T)[T] = SumFunctionOnSet(f, T)
        BY <1>1, <2>1
  <2>3. sum(S)[T] = sum(T)[T]
        BY <2>1, <2>2, SumsAgree
  <2>4. sum(S)[T] = SumFunctionOnSet(f, T)
        BY <2>2, <2>3
  <2> QED BY <2>4 DEF T
<1> HIDE DEF sum
<1> QED BY <1>2, <1>3, <1>4 DEF Unfolded

(* Induction over the subsets of a finite set: what holds of a set if it holds of those
   with one element less holds of all. *)
LEMMA SetInduction ==
    ASSUME NEW S, IsFiniteSet(S), NEW P \in SUBSET SUBSET S,
           \A s \in SUBSET S : (\A x \in s : s \ {x} \in P) => s \in P
    PROVE  \A s \in SUBSET S : s \in P
<1> DEFINE bad == {Cardinality(s) : s \in (SUBSET S) \ P}
<1> SUFFICES ASSUME bad # {} PROVE FALSE
    OBVIOUS
<1>1. bad \in SUBSET Nat
      BY FS_Subset, FS_CardinalityType
<1>2. PICK n \in bad : \A m \in bad : n <= m
      BY <1>1, LeastOf
<1>3. PICK s \in (SUBSET S) \ P : n = Cardinality(s)
      OBVIOUS
<1>4. PICK x \in s : s \ {x} \notin P
      OBVIOUS
<1>5. IsFiniteSet(s) /\ Cardinality(s) \in Nat
      BY FS_Subset, FS_CardinalityType
<1>6. Cardinality(s \ {x}) = n - 1 /\ n \in Nat
      BY <1>3, <1>5, FS_RemoveElement
<1>7. Cardinality(s \ {x}) \in bad
      BY <1>4
<1> HIDE DEF bad
<1> QED BY <1>2, <1>6, <1>7

-----------------------------------------------------------------------------
(* A sum of numbers is one, and over no elements 0. *)
LEMMA SumType ==
    ASSUME NEW S, IsFiniteSet(S), NEW f, \A x \in S : f[x] \in Int
    PROVE  SumFunctionOnSet(f, S) \in Int
BY SumUnfolds

LEMMA SumEmpty ==
    ASSUME NEW f
    PROVE  SumFunctionOnSet(f, {}) = 0
BY SumUnfolds, FS_EmptySet

(* Any element may be the one taken out. *)
LEMMA SumTakes ==
    ASSUME NEW S, IsFiniteSet(S), NEW f, \A x \in S : f[x] \in Int, NEW x \in S
    PROVE  SumFunctionOnSet(f, S) = f[x] + SumFunctionOnSet(f, S \ {x})
<1> DEFINE sum(s) == SumFunctionOnSet(f, s)
           P == {s \in SUBSET S : \A y \in s : sum(s) = f[y] + sum(s \ {y})}
<1>1. ASSUME NEW s \in SUBSET S, \A y \in s : s \ {y} \in P, NEW y \in s
      PROVE  sum(s) = f[y] + sum(s \ {y})
  <2> DEFINE c == First(s)
  <2>1. c \in s
        BY FirstIn
  <2>2. IsFiniteSet(s) /\ \A z \in s : f[z] \in Int
        BY FS_Subset
  <2>3. sum(s) = f[c] + sum(s \ {c})
        BY <2>1, <2>2, SumUnfolds
  <2>4. CASE y = c
        BY <2>3, <2>4
  <2>5. CASE y # c
    <3>1. sum(s \ {c}) = f[y] + sum((s \ {c}) \ {y})
          BY <1>1, <2>1, <2>5
    <3>2. sum(s \ {y}) = f[c] + sum((s \ {y}) \ {c})
          BY <1>1, <2>1, <2>5
    <3>3. sum((s \ {c}) \ {y}) = sum((s \ {y}) \ {c})
      <4>1. (s \ {c}) \ {y} = (s \ {y}) \ {c}
            OBVIOUS
      <4> QED BY <4>1, Zenon
    <3>4. sum((s \ {y}) \ {c}) \in Int
      <4>1. (s \ {y}) \ {c} \in SUBSET s
            OBVIOUS
      <4> QED BY <2>2, <4>1, FS_Subset, SumType
    <3>5. f[c] \in Int /\ f[y] \in Int
          BY <2>1, <2>2
    <3> HIDE DEF c, sum
    <3> QED BY <2>3, <3>1, <3>2, <3>3, <3>4, <3>5
  <2> QED BY <2>4, <2>5
<1>2. \A s \in SUBSET S : (\A y \in s : s \ {y} \in P) => s \in P
      BY <1>1
<1>3. S \in P
  <2> HIDE DEF P
  <2>1. P \in SUBSET SUBSET S
        BY DEF P
  <2> QED BY <1>2, <2>1, SetInduction
<1> QED BY <1>3

LEMMA SumAdds ==
    ASSUME NEW S, IsFiniteSet(S), NEW f, NEW x, x \notin S, \A y \in S \cup {x} : f[y] \in Int
    PROVE  SumFunctionOnSet(f, S \cup {x}) = SumFunctionOnSet(f, S) + f[x]
<1>1. IsFiniteSet(S \cup {x}) /\ (S \cup {x}) \ {x} = S
      BY FS_AddElement
<1>2. SumFunctionOnSet(f, S) \in Int /\ f[x] \in Int
      BY SumType
<1>3. SumFunctionOnSet(f, S \cup {x}) = f[x] + SumFunctionOnSet(f, (S \cup {x}) \ {x})
      BY <1>1, SumTakes
<1>4. SumFunctionOnSet(f, (S \cup {x}) \ {x}) = SumFunctionOnSet(f, S)
      BY <1>1, Zenon
<1> QED BY <1>2, <1>3, <1>4

(* The sum of sums. *)
LEMMA SumPlus ==
    ASSUME NEW S, IsFiniteSet(S), NEW f, NEW g, NEW h,
           \A x \in S : f[x] \in Int /\ g[x] \in Int /\ h[x] = f[x] + g[x]
    PROVE  SumFunctionOnSet(h, S) = SumFunctionOnSet(f, S) + SumFunctionOnSet(g, S)
<1> DEFINE P == {s \in SUBSET S : SumFunctionOnSet(h, s) =
                                     SumFunctionOnSet(f, s) + SumFunctionOnSet(g, s)}
<1>1. ASSUME NEW s \in SUBSET S, \A y \in s : s \ {y} \in P
      PROVE  s \in P
  <2>1. CASE s = {}
        BY <2>1, SumEmpty
  <2>2. CASE s # {}
    <3>1. PICK y \in s : TRUE
          BY <2>2
    <3>2. IsFiniteSet(s) /\ IsFiniteSet(s \ {y})
          BY FS_Subset
    <3>3. /\ SumFunctionOnSet(f, s) = f[y] + SumFunctionOnSet(f, s \ {y})
          /\ SumFunctionOnSet(g, s) = g[y] + SumFunctionOnSet(g, s \ {y})
          /\ SumFunctionOnSet(h, s) = h[y] + SumFunctionOnSet(h, s \ {y})
          BY <3>2, SumTakes
    <3>4. SumFunctionOnSet(f, s \ {y}) \in Int /\ SumFunctionOnSet(g, s \ {y}) \in Int
          BY <3>2, SumType
    <3>5. SumFunctionOnSet(h, s \ {y}) =
              SumFunctionOnSet(f, s \ {y}) + SumFunctionOnSet(g, s \ {y})
          BY <1>1
    <3>6. f[y] \in Int /\ g[y] \in Int /\ h[y] = f[y] + g[y]
          OBVIOUS
    <3>7. SumFunctionOnSet(h, s) = SumFunctionOnSet(f, s) + SumFunctionOnSet(g, s)
          BY <3>3, <3>4, <3>5, <3>6
    <3> QED BY <3>7
  <2> QED BY <2>1, <2>2
<1>2. S \in P
  <2> HIDE DEF P
  <2>1. P \in SUBSET SUBSET S
        BY DEF P
  <2> QED BY <1>1, <2>1, SetInduction
<1> QED BY <1>2

(* Only the values over the set matter. *)
LEMMA SumSame ==
    ASSUME NEW S, IsFiniteSet(S), NEW f, NEW g, \A x \in S : f[x] \in Int /\ g[x] = f[x]
    PROVE  SumFunctionOnSet(g, S) = SumFunctionOnSet(f, S)
<1> DEFINE z == [x \in S |-> 0]
<1>1. SumFunctionOnSet(z, S) = SumFunctionOnSet(z, S) + SumFunctionOnSet(z, S)
      BY SumPlus
<1>2. SumFunctionOnSet(z, S) \in Int
      BY SumType
<1>3. SumFunctionOnSet(g, S) = SumFunctionOnSet(f, S) + SumFunctionOnSet(z, S)
  <2>1. \A x \in S : f[x] \in Int /\ z[x] \in Int /\ g[x] = f[x] + z[x]
        OBVIOUS
  <2> QED BY <2>1, SumPlus
<1>4. SumFunctionOnSet(f, S) \in Int
      BY SumType
<1>5. ASSUME NEW a \in Int, NEW b \in Int, NEW c, a = a + a, c = b + a
      PROVE  c = b
      BY <1>5
<1> HIDE DEF z
<1> QED BY <1>1, <1>2, <1>3, <1>4, <1>5, Zenon

(* One value changed. *)
ChangesAt(f, g, S, x) ==
    x \in S /\ \A y \in S : f[y] \in Int /\ g[y] \in Int /\ (y # x => g[y] = f[y])

LEMMA SumChanges ==
    ASSUME NEW S, IsFiniteSet(S), NEW f, NEW g, NEW x, ChangesAt(f, g, S, x)
    PROVE  /\ SumFunctionOnSet(f, S) \in Int
           /\ SumFunctionOnSet(g, S) = SumFunctionOnSet(f, S) + g[x] - f[x]
<1> USE DEF ChangesAt
<1>1. /\ SumFunctionOnSet(f, S) = f[x] + SumFunctionOnSet(f, S \ {x})
      /\ SumFunctionOnSet(g, S) = g[x] + SumFunctionOnSet(g, S \ {x})
      BY SumTakes
<1>2. IsFiniteSet(S \ {x})
      BY FS_Subset
<1>3. SumFunctionOnSet(g, S \ {x}) = SumFunctionOnSet(f, S \ {x})
      BY <1>2, SumSame
<1>4. SumFunctionOnSet(f, S \ {x}) \in Int /\ f[x] \in Int /\ g[x] \in Int
      BY <1>2, SumType
<1> QED BY <1>1, <1>3, <1>4

(* Two sets that share nothing. *)
LEMMA SumUnion ==
    ASSUME NEW S, NEW T, IsFiniteSet(S), IsFiniteSet(T), S \cap T = {}, NEW f,
           \A x \in S \cup T : f[x] \in Int
    PROVE  SumFunctionOnSet(f, S \cup T) = SumFunctionOnSet(f, S) + SumFunctionOnSet(f, T)
<1> DEFINE sum(s) == SumFunctionOnSet(f, s)
           P == {s \in SUBSET T : sum(S \cup s) = sum(S) + sum(s)}
<1>1. sum(S) \in Int
      BY SumType
<1>2. ASSUME NEW s \in SUBSET T, \A y \in s : s \ {y} \in P
      PROVE  s \in P
  <2>1. CASE s = {}
    <3>1. sum(S \cup s) = sum(S)
      <4>1. S \cup s = S
            BY <2>1
      <4> QED BY <4>1, Zenon
    <3>2. sum(s) = 0
          BY <2>1, SumEmpty
    <3> HIDE DEF sum
    <3> QED BY <1>1, <3>1, <3>2
  <2>2. CASE s # {}
    <3>1. PICK y \in s : TRUE
          BY <2>2
    <3>2. IsFiniteSet(s) /\ IsFiniteSet(s \ {y}) /\ IsFiniteSet(S \cup s)
          BY FS_Subset, FS_Union
    <3>3. sum(s) = f[y] + sum(s \ {y})
          BY <3>2, SumTakes
    <3>4. sum(S \cup s) = f[y] + sum((S \cup s) \ {y})
          BY <3>2, SumTakes
    <3>5. sum((S \cup s) \ {y}) = sum(S \cup (s \ {y}))
      <4>1. (S \cup s) \ {y} = S \cup (s \ {y})
            OBVIOUS
      <4> QED BY <4>1, Zenon
    <3>6. sum(S \cup (s \ {y})) = sum(S) + sum(s \ {y})
          BY <1>2
    <3>7. sum(s \ {y}) \in Int /\ f[y] \in Int
          BY <3>2, SumType
    <3>8. sum(S \cup s) = sum(S) + sum(s)
      <4> HIDE DEF sum
      <4> QED BY <1>1, <3>3, <3>4, <3>5, <3>6, <3>7
    <3> QED BY <3>8
  <2> QED BY <2>1, <2>2
<1>3. T \in P
  <2> HIDE DEF P
  <2>1. P \in SUBSET SUBSET T
        BY DEF P
  <2> QED BY <1>2, <2>1, SetInduction
<1> QED BY <1>3

LEMMA ImageFinite ==
    ASSUME NEW S, IsFiniteSet(S), NEW b
    PROVE  IsFiniteSet({b[x] : x \in S})
<1> DEFINE T == {b[x] : x \in S}
           f == [x \in S |-> b[x]]
<1>1. f \in Surjection(S, T)
      BY DEF Surjection
<1> HIDE DEF f, T
<1>2. IsFiniteSet(T)
      BY <1>1, FS_Surjection
<1> QED BY <1>2 DEF T

(* The same values under other names: moved from S by b, one to one. *)
LEMMA SumMoves ==
    ASSUME NEW S, IsFiniteSet(S), NEW f, NEW g, NEW b,
           \A x \in S : f[x] \in Int /\ g[b[x]] = f[x],
           \A x, y \in S : b[x] = b[y] => x = y
    PROVE  SumFunctionOnSet(g, {b[x] : x \in S}) = SumFunctionOnSet(f, S)
<1> DEFINE img(s) == {b[x] : x \in s}
           P == {s \in SUBSET S : SumFunctionOnSet(g, img(s)) = SumFunctionOnSet(f, s)}
<1>1. ASSUME NEW s \in SUBSET S, \A y \in s : s \ {y} \in P
      PROVE  s \in P
  <2>1. CASE s = {}
    <3>1. img(s) = {}
          BY <2>1
    <3>2. SumFunctionOnSet(g, img(s)) = SumFunctionOnSet(g, {})
          BY <3>1, Zenon
    <3> QED BY <2>1, <3>2, SumEmpty
  <2>2. CASE s # {}
    <3>1. PICK y \in s : TRUE
          BY <2>2
    <3>2. IsFiniteSet(s) /\ IsFiniteSet(img(s))
          BY FS_Subset, ImageFinite
    <3>3. \A z \in img(s) : g[z] \in Int
          OBVIOUS
    <3>4. SumFunctionOnSet(f, s) = f[y] + SumFunctionOnSet(f, s \ {y})
          BY <3>2, SumTakes
    <3>5. SumFunctionOnSet(g, img(s)) = g[b[y]] + SumFunctionOnSet(g, img(s) \ {b[y]})
      <4>1. b[y] \in img(s)
            OBVIOUS
      <4> HIDE DEF img
      <4> QED BY <3>2, <3>3, <4>1, SumTakes
    <3>6. SumFunctionOnSet(g, img(s) \ {b[y]}) = SumFunctionOnSet(g, img(s \ {y}))
      <4>1. img(s) \ {b[y]} = img(s \ {y})
            OBVIOUS
      <4> QED BY <4>1, Zenon
    <3>7. SumFunctionOnSet(g, img(s \ {y})) = SumFunctionOnSet(f, s \ {y})
          BY <1>1
    <3>8. g[b[y]] = f[y]
          OBVIOUS
    <3>9. SumFunctionOnSet(g, img(s)) = SumFunctionOnSet(f, s)
      <4> HIDE DEF img
      <4> QED BY <3>4, <3>5, <3>6, <3>7, <3>8
    <3> QED BY <3>9
  <2> QED BY <2>1, <2>2
<1>2. S \in P
  <2> HIDE DEF P
  <2>1. P \in SUBSET SUBSET S
        BY DEF P
  <2> QED BY <1>1, <2>1, SetInduction
<1> QED BY <1>2

(* The same value everywhere. *)
LEMMA SumConstant ==
    ASSUME NEW S, IsFiniteSet(S), NEW f, NEW c \in Int, \A x \in S : f[x] = c
    PROVE  SumFunctionOnSet(f, S) = Cardinality(S) * c
<1> DEFINE P == {s \in SUBSET S : SumFunctionOnSet(f, s) = Cardinality(s) * c}
<1>1. ASSUME NEW s \in SUBSET S, \A y \in s : s \ {y} \in P
      PROVE  s \in P
  <2>1. CASE s = {}
        BY <2>1, SumEmpty, FS_EmptySet
  <2>2. CASE s # {}
    <3>1. PICK y \in s : TRUE
          BY <2>2
    <3>2. IsFiniteSet(s) /\ Cardinality(s) \in Nat
          BY FS_Subset, FS_CardinalityType
    <3>3. SumFunctionOnSet(f, s) = f[y] + SumFunctionOnSet(f, s \ {y}) /\ f[y] = c
          BY <3>2, SumTakes
    <3>4. SumFunctionOnSet(f, s \ {y}) = Cardinality(s \ {y}) * c
          BY <1>1
    <3>5. Cardinality(s \ {y}) = Cardinality(s) - 1
          BY <3>2, FS_RemoveElement
    <3>6. ASSUME NEW n \in Nat
          PROVE  c + (n - 1) * c = n * c
          OBVIOUS
    <3>7. SumFunctionOnSet(f, s) = Cardinality(s) * c
          BY <3>2, <3>3, <3>4, <3>5, <3>6
    <3> QED BY <3>7
  <2> QED BY <2>1, <2>2
<1>2. S \in P
  <2> HIDE DEF P
  <2>1. P \in SUBSET SUBSET S
        BY DEF P
  <2> QED BY <1>1, <2>1, SetInduction
<1> QED BY <1>2

(* Of values not below 0 the sum isn't either. *)
LEMMA SumNat ==
    ASSUME NEW S, IsFiniteSet(S), NEW f, \A x \in S : f[x] \in Nat
    PROVE  SumFunctionOnSet(f, S) \in Nat
<1> DEFINE P == {s \in SUBSET S : SumFunctionOnSet(f, s) \in Nat}
<1>1. ASSUME NEW s \in SUBSET S, \A y \in s : s \ {y} \in P
      PROVE  s \in P
  <2>1. CASE s = {}
        BY <2>1, SumEmpty
  <2>2. CASE s # {}
    <3>1. PICK y \in s : TRUE
          BY <2>2
    <3>2. IsFiniteSet(s)
          BY FS_Subset
    <3>3. SumFunctionOnSet(f, s) = f[y] + SumFunctionOnSet(f, s \ {y}) /\ f[y] \in Nat
          BY <3>2, SumTakes
    <3>4. SumFunctionOnSet(f, s \ {y}) \in Nat
          BY <1>1
    <3>5. SumFunctionOnSet(f, s) \in Nat
          BY <3>3, <3>4
    <3> QED BY <3>5
  <2> QED BY <2>1, <2>2
<1>2. S \in P
  <2> HIDE DEF P
  <2>1. P \in SUBSET SUBSET S
        BY DEF P
  <2> QED BY <1>1, <2>1, SetInduction
<1> QED BY <1>2

(* One more put in at place k of a list of n: the others keep their order. *)
Shift(k, n) == [i \in 1..n |-> IF i < k THEN i ELSE i + 1]

LEMMA ShiftIs ==
    ASSUME NEW n \in Nat, NEW k \in 1..n + 1
    PROVE  /\ \A i, j \in 1..n : Shift(k, n)[i] = Shift(k, n)[j] => i = j
           /\ \A i \in 1..n : Shift(k, n)[i] \in 1..n + 1 /\ Shift(k, n)[i] # k
           /\ \A j \in (1..n + 1) \ {k} : \E i \in 1..n : Shift(k, n)[i] = j
           /\ {Shift(k, n)[i] : i \in 1..n} \cup {k} = 1..n + 1
<1>1. \A i, j \in 1..n : Shift(k, n)[i] = Shift(k, n)[j] => i = j
      BY DEF Shift
<1>2. \A i \in 1..n : Shift(k, n)[i] \in 1..n + 1 /\ Shift(k, n)[i] # k
      BY DEF Shift
<1>3. ASSUME NEW j \in (1..n + 1) \ {k}
      PROVE  \E i \in 1..n : Shift(k, n)[i] = j
  <2>1. CASE j < k
    <3>1. j \in 1..n /\ Shift(k, n)[j] = j
          BY <2>1 DEF Shift
    <3> QED BY <3>1
  <2>2. CASE j > k
    <3>1. j - 1 \in 1..n /\ Shift(k, n)[j - 1] = j
          BY <2>2 DEF Shift
    <3> QED BY <3>1
  <2> QED BY <2>1, <2>2
<1>4. {Shift(k, n)[i] : i \in 1..n} \cup {k} = 1..n + 1
      BY <1>2, <1>3
<1> QED BY <1>1, <1>2, <1>3, <1>4

ShiftsTo(f, g, n, k) ==
    /\ n \in Nat /\ k \in 1..n + 1 /\ g[k] \in Int
    /\ \A i \in 1..n : f[i] \in Int /\ g[Shift(k, n)[i]] = f[i]

LEMMA SumShifts ==
    ASSUME NEW n, NEW k, NEW f, NEW g, ShiftsTo(f, g, n, k)
    PROVE  /\ SumFunctionOnSet(f, 1..n) \in Int
           /\ SumFunctionOnSet(g, 1..n + 1) = SumFunctionOnSet(f, 1..n) + g[k]
<1> USE DEF ShiftsTo
<1> DEFINE b == Shift(k, n)
           S == 1..n
           T == 1..n + 1
           img == {b[i] : i \in S}
<1>1. IsFiniteSet(S) /\ IsFiniteSet(T)
  <2>1. n + 1 \in Int /\ n \in Int /\ 1 \in Int
        OBVIOUS
  <2> QED BY <2>1, FS_Interval
<1>2. \A i, j \in S : b[i] = b[j] => i = j
      BY ShiftIs
<1>3. \A i \in S : f[i] \in Int /\ g[b[i]] = f[i]
      OBVIOUS
<1>4. ASSUME NEW j \in T, j # k
       PROVE  \E i \in S : b[i] = j
  <2>1. j \in (1..n + 1) \ {k}
        BY <1>4
  <2>2. \A m \in (1..n + 1) \ {k} : \E i \in 1..n : Shift(k, n)[i] = m
        BY ShiftIs
  <2> QED BY <2>1, <2>2, Zenon DEF S, b
<1>5. \A i \in S : b[i] \in T /\ b[i] # k
       BY ShiftIs
<1>6. k \in T
       OBVIOUS
<1>7. ASSUME NEW j \in T
      PROVE  g[j] \in Int
  <2>1. CASE j = k
        BY <2>1
  <2>2. CASE j # k
    <3>1. PICK i \in S : b[i] = j
          BY <1>4, <2>2
    <3> QED BY <1>3, <3>1
  <2> QED BY <2>1, <2>2
<1> HIDE DEF b, S, T
<1>8. img = T \ {k} /\ k \in T
      BY <1>4, <1>5, <1>6
<1>9. SumFunctionOnSet(g, img) = SumFunctionOnSet(f, S)
      BY <1>1, <1>2, <1>3, SumMoves
<1>10. SumFunctionOnSet(g, T) = g[k] + SumFunctionOnSet(g, T \ {k})
      BY <1>1, <1>8, <1>7, SumTakes
<1>11. SumFunctionOnSet(g, T \ {k}) = SumFunctionOnSet(g, img)
  <2> HIDE DEF img
  <2> QED BY <1>8, Zenon
<1>12. SumFunctionOnSet(f, S) \in Int
      BY <1>1, <1>3, SumType
<1>13. SumFunctionOnSet(g, T) = SumFunctionOnSet(f, S) + g[k]
  <2>1. ASSUME NEW x \in Int, NEW y \in Int PROVE x + y = y + x
        OBVIOUS
  <2>2. SumFunctionOnSet(g, T) = g[k] + SumFunctionOnSet(f, S)
        BY <1>9, <1>10, <1>11, Zenon
  <2> QED BY <1>12, <2>1, <2>2, Zenon
<1> QED BY <1>12, <1>13 DEF S, T

(* So do those of them that some set picks out: one more, or none, is picked. *)
PicksAlike(S, T, n, k) ==
    /\ n \in Nat /\ k \in 1..n + 1 /\ S \in SUBSET (1..n) /\ T \in SUBSET (1..n + 1)
    /\ \A i \in 1..n : i \in S <=> Shift(k, n)[i] \in T

LEMMA CountShifts ==
    ASSUME NEW n, NEW k, NEW S, NEW T, PicksAlike(S, T, n, k)
    PROVE  /\ IsFiniteSet(S) /\ IsFiniteSet(T) /\ Cardinality(S) \in Nat
           /\ k \in T => Cardinality(T) = Cardinality(S) + 1
           /\ k \notin T => Cardinality(T) = Cardinality(S)
<1> USE DEF PicksAlike
<1> DEFINE b == [i \in S |-> Shift(k, n)[i]]
           img == T \ {k}
<1>1. IsFiniteSet(S) /\ IsFiniteSet(T) /\ IsFiniteSet(img)
  <2>1. n + 1 \in Int /\ n \in Int /\ 1 \in Int
        OBVIOUS
  <2>2. IsFiniteSet(1..n) /\ IsFiniteSet(1..n + 1)
        BY <2>1, FS_Interval
  <2> QED BY <2>2, FS_Subset
<1>2. b \in Bijection(S, img)
  <2>1. \A i \in S : b[i] \in img
        BY ShiftIs
  <2>2. \A i, j \in S : b[i] = b[j] => i = j
        BY ShiftIs
  <2>3. ASSUME NEW j \in img
        PROVE  \E i \in S : b[i] = j
    <3>1. PICK i \in 1..n : Shift(k, n)[i] = j
          BY ShiftIs, ZenonT(60)
    <3>2. i \in S /\ b[i] = j
          BY <3>1
    <3> QED BY <3>2
  <2>4. b \in [S -> img]
        BY <2>1
  <2> HIDE DEF b, img
  <2> QED BY <2>2, <2>3, <2>4 DEF Bijection, Injection, Surjection, IsInjective
<1>3. Cardinality(S) = Cardinality(img) /\ Cardinality(S) \in Nat
  <2> HIDE DEF img
  <2>1. ExistsBijection(S, img)
        BY <1>2 DEF ExistsBijection
  <2> QED BY <1>1, <2>1, FS_Bijection, FS_CardinalityType
<1>4. ASSUME k \in T
      PROVE  Cardinality(T) = Cardinality(S) + 1
  <2>1. Cardinality(img) = Cardinality(T) - 1 /\ Cardinality(T) \in Nat
        BY <1>1, <1>4, FS_RemoveElement, FS_CardinalityType
  <2> QED BY <1>3, <2>1
<1>5. ASSUME k \notin T
      PROVE  Cardinality(T) = Cardinality(S)
  <2>1. img = T
        BY <1>5
  <2> QED BY <1>3, <2>1, Zenon
<1> HIDE DEF img, b
<1> QED BY <1>1, <1>3, <1>4, <1>5, Zenon

(* Over a larger set, with nothing added. *)
LEMMA SumPick ==
    ASSUME NEW T, IsFiniteSet(T), NEW S \in SUBSET T, NEW f, NEW g,
           \A x \in S : f[x] \in Int /\ g[x] = f[x], \A x \in T \ S : g[x] = 0
    PROVE  SumFunctionOnSet(g, T) = SumFunctionOnSet(f, S)
<1>1. IsFiniteSet(S) /\ IsFiniteSet(T \ S) /\ S \cup (T \ S) = T /\ S \cap (T \ S) = {}
      BY FS_Subset
<1>2. SumFunctionOnSet(g, S) = SumFunctionOnSet(f, S)
      BY <1>1, SumSame
<1>3. SumFunctionOnSet(g, T \ S) = Cardinality(T \ S) * 0
      BY <1>1, SumConstant
<1>4. \A x \in S \cup (T \ S) : g[x] \in Int
      OBVIOUS
<1>5. SumFunctionOnSet(g, S \cup (T \ S)) = SumFunctionOnSet(g, S) + SumFunctionOnSet(g, T \ S)
      BY <1>1, <1>4, SumUnion
<1>6. Cardinality(T \ S) \in Nat
      BY <1>1, FS_CardinalityType
<1>7. SumFunctionOnSet(f, S) \in Int
      BY <1>1, SumType
<1>8. SumFunctionOnSet(g, T) = SumFunctionOnSet(g, S) + SumFunctionOnSet(g, T \ S)
      BY <1>1, <1>5, Zenon
<1> QED BY <1>2, <1>3, <1>6, <1>7, <1>8

(* What each of K has of it, summed over K: key says whose each of S is. *)
Keyed(f, g, key, K, S) ==
    /\ \A x \in S : f[x] \in Int /\ key[x] \in K
    /\ \A p \in K : g[p] = SumFunctionOnSet(f, {x \in S : key[x] = p})

LEMMA SumByKey ==
    ASSUME NEW K, IsFiniteSet(K), NEW S, IsFiniteSet(S), NEW f, NEW g, NEW key,
           Keyed(f, g, key, K, S)
    PROVE  /\ \A p \in K : g[p] \in Int
           /\ SumFunctionOnSet(g, K) = SumFunctionOnSet(f, S)
<1> DEFINE of(k) == {x \in S : key[x] \in k}
           P == {k \in SUBSET K : SumFunctionOnSet(g, k) = SumFunctionOnSet(f, of(k))}
<1>1. \A x \in S : f[x] \in Int /\ key[x] \in K
      BY DEF Keyed
<1>2. ASSUME NEW p \in K
      PROVE  /\ IsFiniteSet({x \in S : key[x] = p})
             /\ g[p] = SumFunctionOnSet(f, {x \in S : key[x] = p}) /\ g[p] \in Int
  <2>1. IsFiniteSet({x \in S : key[x] = p})
        BY FS_Subset
  <2>2. g[p] = SumFunctionOnSet(f, {x \in S : key[x] = p})
        BY DEF Keyed
  <2> QED BY <1>1, <2>1, <2>2, SumType
<1>3. \A k \in SUBSET K : IsFiniteSet(of(k)) /\ SumFunctionOnSet(f, of(k)) \in Int
  <2> TAKE k \in SUBSET K
  <2>1. IsFiniteSet(of(k))
        BY FS_Subset
  <2> QED BY <1>1, <2>1, SumType
<1>4. ASSUME NEW k \in SUBSET K, \A p \in k : k \ {p} \in P
      PROVE  k \in P
  <2>1. CASE k = {}
    <3>1. of(k) = {}
          BY <2>1
    <3>2. SumFunctionOnSet(g, k) = 0 /\ SumFunctionOnSet(f, of(k)) = 0
          BY <2>1, <3>1, SumEmpty, Zenon
    <3> HIDE DEF of
    <3> QED BY <3>2
  <2>2. CASE k # {}
    <3>1. PICK p \in k : TRUE
          BY <2>2
    <3> DEFINE mine == {x \in S : key[x] = p}
               rest == of(k \ {p})
    <3>2. IsFiniteSet(k)
          BY FS_Subset
    <3>3. SumFunctionOnSet(g, k) = g[p] + SumFunctionOnSet(g, k \ {p})
          BY <1>2, <3>2, SumTakes
    <3>4. SumFunctionOnSet(g, k \ {p}) = SumFunctionOnSet(f, rest)
          BY <1>4
    <3>5. rest \cup mine = of(k) /\ rest \cap mine = {} /\ rest \subseteq S /\ mine \subseteq S
          OBVIOUS
    <3>6. IsFiniteSet(mine) /\ IsFiniteSet(rest) /\ SumFunctionOnSet(f, rest) \in Int
          BY <1>2, <1>3
    <3>7. g[p] = SumFunctionOnSet(f, mine) /\ g[p] \in Int
          BY <1>2
    <3> HIDE DEF mine, rest, of
    <3>8. SumFunctionOnSet(f, rest \cup mine) =
              SumFunctionOnSet(f, rest) + SumFunctionOnSet(f, mine)
          BY <1>1, <3>5, <3>6, SumUnion
    <3>9. SumFunctionOnSet(f, of(k)) = SumFunctionOnSet(f, rest) + SumFunctionOnSet(f, mine)
          BY <3>5, <3>8, Zenon
    <3>10. SumFunctionOnSet(g, k) = SumFunctionOnSet(f, of(k))
          BY <3>3, <3>4, <3>6, <3>7, <3>9
    <3> QED BY <3>10
  <2> QED BY <2>1, <2>2
<1>5. K \in P
  <2> HIDE DEF P
  <2>1. P \in SUBSET SUBSET K
        BY DEF P
  <2> QED BY <1>4, <2>1, SetInduction
<1>6. of(K) = S
      BY <1>1
<1>7. SumFunctionOnSet(g, K) = SumFunctionOnSet(f, of(K))
      BY <1>5
<1> HIDE DEF of
<1>8. SumFunctionOnSet(g, K) = SumFunctionOnSet(f, S)
      BY <1>6, <1>7, Zenon
<1> QED BY <1>2, <1>8
=============================================================================
