------------------------- MODULE SystemRatesProofs --------------------------
(***************************************************************************)
(* Proofs that the system-wide rates of SystemRates are what the machine   *)
(* did, for any number of cores and interfaces, any width of the counters  *)
(* and any number of scans.                                                *)
(***************************************************************************)
EXTENDS SystemRates, ProcFilesProofs

-----------------------------------------------------------------------------
(* Sums over finite sets.                                                  *)

(* Induction, for a set of numbers in the place of a predicate. *)
LEMMA AllNumbers ==
  ASSUME NEW R, 0 \in R, \A n \in Nat : n \in R => n + 1 \in R
  PROVE  Nat \subseteq R
<1>. SUFFICES ASSUME Nat \ R # {} PROVE FALSE
  OBVIOUS
<1>1. IsWellFoundedOn(OpToRel(<, Nat), Nat)
  BY NatLessThanWellFounded
<1>2. PICK n \in Nat \ R : \A m \in Nat \ R : ~ (<<m, n>> \in OpToRel(<, Nat))
  BY <1>1, WFMin
<1>3. \A m \in Nat \ R : ~ (m < n)
  BY <1>2 DEF OpToRel
<1>4. n # 0 /\ n - 1 \in Nat /\ n - 1 < n /\ (n - 1) + 1 = n
  OBVIOUS
<1>. QED  BY <1>3, <1>4

(* A sum over a finite set, one element at a time. *)
Unfolded(f, T, g) == IF T = {} THEN 0 ELSE LET x == CHOOSE x \in T : TRUE IN f[x] + g[T \ {x}]
Adds(f, S, g) == g = [T \in SUBSET S |-> Unfolded(f, T, g)]

LEMMA SumIs ==
  ASSUME NEW f, NEW S
  PROVE SumFunctionOnSet(f, S) = (CHOOSE g : Adds(f, S, g))[S]
BY DEF SumFunctionOnSet, FoldFunctionOnSet, MapThenFoldSet, Adds, Unfolded

AddsUpto(f, S, n, g) ==
  /\ g = [T \in SUBSET S |-> g[T]]
  /\ \A T \in SUBSET S : Cardinality(T) <= n => g[T] = Unfolded(f, T, g)

LEMMA AdderExists ==
  ASSUME NEW f, NEW S, IsFiniteSet(S)
  PROVE  \E g : Adds(f, S, g)
<1>. DEFINE R == {n \in Nat : \E g : AddsUpto(f, S, n, g)}
<1>1. \A T \in SUBSET S : IsFiniteSet(T) /\ Cardinality(T) \in Nat
  BY FS_Subset, FS_CardinalityType
<1>2. 0 \in R
  <2>. DEFINE g == [T \in SUBSET S |-> 0]
  <2>1. \A T \in SUBSET S : Cardinality(T) <= 0 => T = {}
    BY <1>1, FS_EmptySet
  <2>2. AddsUpto(f, S, 0, g)
    BY <2>1 DEF AddsUpto, Unfolded
  <2>. HIDE DEF g
  <2>. QED  BY <2>2
<1>3. ASSUME NEW n \in Nat, n \in R PROVE n + 1 \in R
  <2>1. PICK g : AddsUpto(f, S, n, g)
    BY <1>3
  <2>. DEFINE h == [T \in SUBSET S |-> Unfolded(f, T, g)]
  <2>2. h = [T \in SUBSET S |-> h[T]]
    OBVIOUS
  <2>3. ASSUME NEW T \in SUBSET S, Cardinality(T) <= n + 1 PROVE h[T] = Unfolded(f, T, h)
    <3>1. CASE T = {}
      BY <3>1 DEF Unfolded
    <3>2. CASE T # {}
      <4>. DEFINE x == CHOOSE x \in T : TRUE
                  U == T \ {x}
      <4>1. x \in T /\ U \in SUBSET S
        BY <3>2
      <4>2. Cardinality(U) <= n
        <5>1. Cardinality(U) = Cardinality(T) - 1 /\ Cardinality(T) \in Nat
          BY <1>1, <4>1, FS_RemoveElement
        <5>. HIDE DEF U
        <5>. QED  BY <2>3, <5>1
      <4>3. g[U] = Unfolded(f, U, g)
        BY <2>1, <4>1, <4>2 DEF AddsUpto
      <4>4. h[U] = g[U]
        BY <4>1, <4>3
      <4>5. h[T] = f[x] + g[U] /\ Unfolded(f, T, h) = f[x] + h[U]
        BY <3>2 DEF Unfolded
      <4>. QED  BY <4>4, <4>5
    <3>. QED  BY <3>1, <3>2
  <2>. HIDE DEF h
  <2>4. AddsUpto(f, S, n + 1, h)
    BY <2>2, <2>3 DEF AddsUpto
  <2>. QED  BY <2>4
<1>4. Cardinality(S) \in R
  <2>. HIDE DEF R
  <2>. QED  BY <1>1, <1>2, <1>3, AllNumbers
<1>5. PICK g : AddsUpto(f, S, Cardinality(S), g)
  BY <1>4
<1>6. \A T \in SUBSET S : Cardinality(T) <= Cardinality(S)
  BY FS_Subset
<1>7. \A T \in SUBSET S : g[T] = Unfolded(f, T, g)
  BY <1>5, <1>6 DEF AddsUpto
<1>8. g = [T \in SUBSET S |-> Unfolded(f, T, g)]
  BY <1>5, <1>7 DEF AddsUpto
<1>. QED  BY <1>8 DEF Adds

(* Induction over a finite set, for a set of its subsets. *)
LEMMA AllSubsets ==
  ASSUME NEW S, IsFiniteSet(S), NEW P, {} \in P,
         \A T \in SUBSET S : \A x \in S \ T : T \in P => T \cup {x} \in P
  PROVE  \A T \in SUBSET S : T \in P
<1>. DEFINE R == {n \in Nat : \A T \in SUBSET S : Cardinality(T) <= n => T \in P}
<1>1. \A T \in SUBSET S : IsFiniteSet(T) /\ Cardinality(T) \in Nat
  BY FS_Subset, FS_CardinalityType
<1>2. 0 \in R
  <2>. SUFFICES ASSUME NEW T \in SUBSET S, Cardinality(T) <= 0 PROVE T \in P
    OBVIOUS
  <2>1. Cardinality(T) = 0 /\ IsFiniteSet(T)
    BY <1>1
  <2>. QED  BY <2>1, FS_EmptySet
<1>3. ASSUME NEW n \in Nat, n \in R PROVE n + 1 \in R
  <2>. SUFFICES ASSUME NEW T \in SUBSET S, Cardinality(T) <= n + 1 PROVE T \in P
    OBVIOUS
  <2>1. CASE T = {}
    BY <2>1
  <2>2. CASE T # {}
    <3>1. PICK x \in T : TRUE
      BY <2>2
    <3>. DEFINE U == T \ {x}
    <3>2. U \in SUBSET S /\ x \in S \ U /\ U \cup {x} = T
      BY <3>1
    <3>3. Cardinality(U) = Cardinality(T) - 1 /\ Cardinality(T) \in Nat
      BY <1>1, <3>1, FS_RemoveElement
    <3>. HIDE DEF U
    <3>4. Cardinality(U) <= n
      BY <3>3
    <3>5. U \in P
      BY <1>3, <3>2, <3>4
    <3>. QED  BY <3>2, <3>5
  <2>. QED  BY <2>1, <2>2
<1>4. Nat \subseteq R
  <2>. HIDE DEF R
  <2>. QED  BY <1>2, <1>3, AllNumbers
<1>. SUFFICES ASSUME NEW T \in SUBSET S PROVE T \in P
  OBVIOUS
<1>5. Cardinality(T) \in R /\ Cardinality(T) <= Cardinality(T)
  BY <1>1, <1>4
<1>. QED  BY <1>5

LEMMA AddersAgree ==
  ASSUME NEW f, NEW S, NEW V, IsFiniteSet(S), NEW g, NEW h, Adds(f, S, g), Adds(f, V, h), V \subseteq S
  PROVE  \A T \in SUBSET V : g[T] = h[T]
<1>. DEFINE R == {n \in Nat : \A T \in SUBSET V : Cardinality(T) <= n => g[T] = h[T]}
<1>1. \A T \in SUBSET V : IsFiniteSet(T) /\ Cardinality(T) \in Nat
  BY FS_Subset, FS_CardinalityType
<1>2. \A T \in SUBSET V : g[T] = Unfolded(f, T, g) /\ h[T] = Unfolded(f, T, h)
  BY DEF Adds
<1>3. 0 \in R
  <2>1. \A T \in SUBSET V : Cardinality(T) <= 0 => T = {}
    BY <1>1, FS_EmptySet
  <2>. QED  BY <1>2, <2>1 DEF Unfolded
<1>4. ASSUME NEW n \in Nat, n \in R PROVE n + 1 \in R
  <2>. SUFFICES ASSUME NEW T \in SUBSET V, Cardinality(T) <= n + 1 PROVE g[T] = h[T]
    OBVIOUS
  <2>1. CASE T = {}
    BY <1>2, <2>1 DEF Unfolded
  <2>2. CASE T # {}
    <3>. DEFINE x == CHOOSE x \in T : TRUE
                U == T \ {x}
    <3>1. x \in T /\ U \in SUBSET V
      BY <2>2
    <3>2. Cardinality(U) <= n
      <4>1. Cardinality(U) = Cardinality(T) - 1 /\ Cardinality(T) \in Nat
        BY <1>1, <3>1, FS_RemoveElement
      <4>. HIDE DEF U
      <4>. QED  BY <4>1
    <3>3. g[U] = h[U]
      BY <1>4, <3>1, <3>2
    <3>4. Unfolded(f, T, g) = f[x] + g[U] /\ Unfolded(f, T, h) = f[x] + h[U]
      BY <2>2 DEF Unfolded
    <3>. QED  BY <1>2, <3>3, <3>4
  <2>. QED  BY <2>1, <2>2
<1>5. Nat \subseteq R
  <2>. HIDE DEF R
  <2>. QED  BY <1>3, <1>4, AllNumbers
<1>. SUFFICES ASSUME NEW T \in SUBSET V PROVE g[T] = h[T]
  OBVIOUS
<1>6. Cardinality(T) \in R /\ Cardinality(T) <= Cardinality(T)
  BY <1>1, <1>5
<1>. QED  BY <1>6

(* The fold unfolded once. *)
LEMMA SumStep ==
  ASSUME NEW f, NEW S, IsFiniteSet(S)
  PROVE  SumFunctionOnSet(f, S) =
           IF S = {} THEN 0
           ELSE LET x == CHOOSE x \in S : TRUE IN f[x] + SumFunctionOnSet(f, S \ {x})
<1>1. PICK g : Adds(f, S, g) /\ SumFunctionOnSet(f, S) = g[S]
  BY SumIs, AdderExists
<1>2. g[S] = Unfolded(f, S, g)
  BY <1>1 DEF Adds
<1>3. CASE S = {}
  BY <1>1, <1>2, <1>3 DEF Unfolded
<1>4. CASE S # {}
  <2>. DEFINE x == CHOOSE x \in S : TRUE
              U == S \ {x}
  <2>1. IsFiniteSet(U)
    BY FS_Subset
  <2>2. PICK h : Adds(f, U, h) /\ SumFunctionOnSet(f, U) = h[U]
    BY <2>1, SumIs, AdderExists
  <2>3. g[U] = h[U]
    <3>1. U \subseteq S
      OBVIOUS
    <3>. HIDE DEF U
    <3>. QED  BY <1>1, <2>2, <3>1, AddersAgree
  <2>. QED  BY <1>1, <1>2, <1>4, <2>2, <2>3 DEF Unfolded
<1>. QED  BY <1>3, <1>4

(* The order of the elements does not matter. *)
LEMMA SumApart ==
  ASSUME NEW f, NEW S, IsFiniteSet(S), \A x \in S : f[x] \in Int
  PROVE  \A T \in SUBSET S :
           /\ SumFunctionOnSet(f, T) \in Int
           /\ \A x \in T : SumFunctionOnSet(f, T) = f[x] + SumFunctionOnSet(f, T \ {x})
<1>. DEFINE Good(T) == /\ SumFunctionOnSet(f, T) \in Int
                       /\ \A x \in T : SumFunctionOnSet(f, T) = f[x] + SumFunctionOnSet(f, T \ {x})
            R == {n \in Nat : \A T \in SUBSET S : Cardinality(T) <= n => Good(T)}
<1>1. \A T \in SUBSET S : IsFiniteSet(T) /\ Cardinality(T) \in Nat
  BY FS_Subset, FS_CardinalityType
<1>2. \A T \in SUBSET S : SumFunctionOnSet(f, T) =
           IF T = {} THEN 0
           ELSE LET x == CHOOSE x \in T : TRUE IN f[x] + SumFunctionOnSet(f, T \ {x})
  BY <1>1, SumStep
<1>3. 0 \in R
  <2>. SUFFICES ASSUME NEW T \in SUBSET S, Cardinality(T) <= 0 PROVE Good(T)
    OBVIOUS
  <2>1. T = {}
    BY <1>1, FS_EmptySet
  <2>2. SumFunctionOnSet(f, T) = 0
    BY <1>2, <2>1
  <2>. QED  BY <2>1, <2>2
<1>4. ASSUME NEW n \in Nat, n \in R PROVE n + 1 \in R
  <2>. SUFFICES ASSUME NEW T \in SUBSET S, Cardinality(T) <= n + 1 PROVE Good(T)
    OBVIOUS
  <2>1. CASE T = {}
    BY <1>2, <2>1
  <2>2. CASE T # {}
    <3>. DEFINE c == CHOOSE x \in T : TRUE
    <3>1. c \in T /\ f[c] \in Int /\ SumFunctionOnSet(f, T) = f[c] + SumFunctionOnSet(f, T \ {c})
      BY <1>2, <2>2
    <3>. HIDE DEF c
    <3>2. ASSUME NEW x \in T
          PROVE  /\ Cardinality(T \ {x}) <= n /\ T \ {x} \in SUBSET S
                 /\ Good(T \ {x})
      <4>1. Cardinality(T \ {x}) = Cardinality(T) - 1 /\ Cardinality(T) \in Nat
        BY <1>1, FS_RemoveElement
      <4>2. Cardinality(T \ {x}) <= n
        BY <4>1
      <4>. HIDE DEF Good
      <4>. QED  BY <1>4, <4>2
    <3>3. SumFunctionOnSet(f, T) \in Int
      <4>1. SumFunctionOnSet(f, T \ {c}) \in Int
        BY <3>1, <3>2
      <4>. QED  BY <3>1, <4>1
    <3>4. ASSUME NEW x \in T, x # c
          PROVE  SumFunctionOnSet(f, T) = f[x] + SumFunctionOnSet(f, T \ {x})
      <4>1. (T \ {c}) \ {x} = (T \ {x}) \ {c}
        OBVIOUS
      <4>2. SumFunctionOnSet(f, T \ {c}) = f[x] + SumFunctionOnSet(f, (T \ {c}) \ {x})
        BY <3>1, <3>2, <3>4
      <4>3. SumFunctionOnSet(f, T \ {x}) = f[c] + SumFunctionOnSet(f, (T \ {x}) \ {c})
        BY <3>1, <3>2, <3>4
      <4>4. /\ f[x] \in Int /\ f[c] \in Int
            /\ SumFunctionOnSet(f, (T \ {c}) \ {x}) \in Int
        <5>1. Cardinality((T \ {c}) \ {x}) <= n
          BY <1>1, <3>1, <3>2, FS_Subset
        <5>. QED  BY <1>4, <3>1, <5>1
      <4>5. \A a, b, d \in Int : a + (b + d) = b + (a + d)
        OBVIOUS
      <4>6. f[c] + (f[x] + SumFunctionOnSet(f, (T \ {c}) \ {x}))
              = f[x] + (f[c] + SumFunctionOnSet(f, (T \ {c}) \ {x}))
        BY <4>4, <4>5
      <4>. QED  BY <3>1, <4>1, <4>2, <4>3, <4>6
    <3>. QED  BY <3>1, <3>3, <3>4
  <2>. QED  BY <2>1, <2>2
<1>5. Nat \subseteq R
  <2>. HIDE DEF R
  <2>. QED  BY <1>3, <1>4, AllNumbers
<1>. SUFFICES ASSUME NEW T \in SUBSET S PROVE Good(T)
  OBVIOUS
<1>6. Cardinality(T) \in R /\ Cardinality(T) <= Cardinality(T)
  BY <1>1, <1>5
<1>. HIDE DEF Good
<1>. QED  BY <1>6

LEMMA SumWith ==
  ASSUME NEW f, NEW S, IsFiniteSet(S), \A x \in S : f[x] \in Int
  PROVE  /\ SumFunctionOnSet(f, {}) = 0
         /\ \A T \in SUBSET S :
              /\ SumFunctionOnSet(f, T) \in Int
              /\ \A x \in S \ T : SumFunctionOnSet(f, T \cup {x}) = f[x] + SumFunctionOnSet(f, T)
<1>1. SumFunctionOnSet(f, {}) = 0
  BY SumStep, FS_EmptySet
<1>2. ASSUME NEW T \in SUBSET S, NEW x \in S \ T
      PROVE  SumFunctionOnSet(f, T \cup {x}) = f[x] + SumFunctionOnSet(f, T)
  <2>1. T \cup {x} \in SUBSET S /\ x \in T \cup {x} /\ (T \cup {x}) \ {x} = T
    OBVIOUS
  <2>. QED  BY <2>1, SumApart
<1>. QED  BY <1>1, <1>2, SumApart

(* Sums of parts, and of wholes. *)
LEMMA SumOfSums ==
  ASSUME NEW S, IsFiniteSet(S), NEW f, NEW g, NEW h,
         \A x \in S : f[x] \in Int /\ g[x] \in Int /\ h[x] = f[x] + g[x]
  PROVE  SumFunctionOnSet(h, S) = SumFunctionOnSet(f, S) + SumFunctionOnSet(g, S)
<1>. DEFINE P == {T \in SUBSET S :
                    SumFunctionOnSet(h, T) = SumFunctionOnSet(f, T) + SumFunctionOnSet(g, T)}
<1>1. \A x \in S : h[x] \in Int
  OBVIOUS
<1>2. {} \in P
  BY <1>1, SumWith
<1>3. ASSUME NEW T \in SUBSET S, NEW x \in S \ T, T \in P
      PROVE  T \cup {x} \in P
  <2>1. /\ SumFunctionOnSet(f, T \cup {x}) = f[x] + SumFunctionOnSet(f, T)
        /\ SumFunctionOnSet(g, T \cup {x}) = g[x] + SumFunctionOnSet(g, T)
        /\ SumFunctionOnSet(h, T \cup {x}) = h[x] + SumFunctionOnSet(h, T)
        /\ SumFunctionOnSet(f, T) \in Int /\ SumFunctionOnSet(g, T) \in Int
    BY <1>1, SumWith
  <2>2. \A a, b, c, d \in Int : (a + b) + (c + d) = (a + c) + (b + d)
    OBVIOUS
  <2>3. SumFunctionOnSet(h, T) = SumFunctionOnSet(f, T) + SumFunctionOnSet(g, T)
    BY <1>3
  <2>4. SumFunctionOnSet(h, T \cup {x}) = SumFunctionOnSet(f, T \cup {x}) + SumFunctionOnSet(g, T \cup {x})
    BY <2>1, <2>2, <2>3
  <2>. QED  BY <2>4
<1>4. S \in P
  <2>. HIDE DEF P
  <2>. QED  BY <1>2, <1>3, AllSubsets
<1>. QED  BY <1>4

LEMMA SumsCompare ==
  ASSUME NEW S, IsFiniteSet(S), NEW f, NEW g,
         \A x \in S : f[x] \in Int /\ g[x] \in Int /\ f[x] <= g[x]
  PROVE  SumFunctionOnSet(f, S) <= SumFunctionOnSet(g, S)
<1>. DEFINE P == {T \in SUBSET S : SumFunctionOnSet(f, T) <= SumFunctionOnSet(g, T)}
<1>1. {} \in P
  BY SumWith
<1>2. ASSUME NEW T \in SUBSET S, NEW x \in S \ T, T \in P
      PROVE  T \cup {x} \in P
  <2>1. /\ SumFunctionOnSet(f, T \cup {x}) = f[x] + SumFunctionOnSet(f, T)
        /\ SumFunctionOnSet(g, T \cup {x}) = g[x] + SumFunctionOnSet(g, T)
        /\ SumFunctionOnSet(f, T) \in Int /\ SumFunctionOnSet(g, T) \in Int
    BY SumWith
  <2>2. \A a, b, c, d \in Int : a <= c /\ b <= d => a + b <= c + d
    OBVIOUS
  <2>3. SumFunctionOnSet(f, T) <= SumFunctionOnSet(g, T)
    BY <1>2
  <2>4. SumFunctionOnSet(f, T \cup {x}) <= SumFunctionOnSet(g, T \cup {x})
    BY <2>1, <2>2, <2>3
  <2>. QED  BY <2>4
<1>3. S \in P
  <2>. HIDE DEF P
  <2>. QED  BY <1>1, <1>2, AllSubsets
<1>. QED  BY <1>3

LEMMA SameSums ==
  ASSUME NEW S, IsFiniteSet(S), NEW f, NEW g, \A x \in S : f[x] \in Int /\ f[x] = g[x]
  PROVE  SumFunctionOnSet(f, S) = SumFunctionOnSet(g, S)
<1>1. SumFunctionOnSet(f, S) <= SumFunctionOnSet(g, S) /\ SumFunctionOnSet(g, S) <= SumFunctionOnSet(f, S)
  BY SumsCompare
<1>2. SumFunctionOnSet(f, S) \in Int /\ SumFunctionOnSet(g, S) \in Int
  BY SumWith
<1>. QED  BY <1>1, <1>2

LEMMA SumNatural ==
  ASSUME NEW S, IsFiniteSet(S), NEW f, \A x \in S : f[x] \in Nat
  PROVE  SumFunctionOnSet(f, S) \in Nat
<1>. DEFINE P == {T \in SUBSET S : SumFunctionOnSet(f, T) \in Nat}
<1>1. {} \in P
  BY SumWith
<1>2. ASSUME NEW T \in SUBSET S, NEW x \in S \ T, T \in P
      PROVE  T \cup {x} \in P
  <2>1. SumFunctionOnSet(f, T \cup {x}) = f[x] + SumFunctionOnSet(f, T)
    BY SumWith
  <2>. QED  BY <1>2, <2>1
<1>3. S \in P
  <2>. HIDE DEF P
  <2>. QED  BY <1>1, <1>2, AllSubsets
<1>. QED  BY <1>3

(* Summing along a list of different elements. *)
LEMMA SumAlong ==
  ASSUME NEW I, IsFiniteSet(I), NEW S, NEW order \in [I -> S],
         \A i, j \in I : order[i] = order[j] => i = j,
         NEW f, \A x \in S : f[x] \in Int,
         NEW g, \A i \in I : g[i] = f[order[i]],
         IsFiniteSet(S)
  PROVE  SumFunctionOnSet(g, I) = SumFunctionOnSet(f, {order[i] : i \in I})
<1>. DEFINE Met(T) == {order[i] : i \in T}
            P == {T \in SUBSET I : SumFunctionOnSet(g, T) = SumFunctionOnSet(f, Met(T))}
<1>1. \A i \in I : g[i] \in Int /\ order[i] \in S
  OBVIOUS
<1>2. {} \in P
  <2>1. Met({}) = {}
    OBVIOUS
  <2>2. SumFunctionOnSet(g, {}) = 0 /\ SumFunctionOnSet(f, {}) = 0
    BY <1>1, SumWith
  <2>. HIDE DEF Met
  <2>. QED  BY <2>1, <2>2
<1>3. ASSUME NEW T \in SUBSET I, NEW i \in I \ T, T \in P
      PROVE  T \cup {i} \in P
  <2>1. SumFunctionOnSet(g, T \cup {i}) = g[i] + SumFunctionOnSet(g, T)
    BY <1>1, SumWith
  <2>2. Met(T \cup {i}) = Met(T) \cup {order[i]} /\ order[i] \in S \ Met(T) /\ Met(T) \in SUBSET S
    OBVIOUS
  <2>3. SumFunctionOnSet(g, T) = SumFunctionOnSet(f, Met(T))
    BY <1>3
  <2>. HIDE DEF Met
  <2>4. SumFunctionOnSet(f, Met(T \cup {i})) = f[order[i]] + SumFunctionOnSet(f, Met(T))
    <3>1. SumFunctionOnSet(f, Met(T) \cup {order[i]}) = f[order[i]] + SumFunctionOnSet(f, Met(T))
      BY <2>2, SumWith
    <3>. QED  BY <2>2, <3>1
  <2>. QED  BY <2>1, <2>3, <2>4
<1>4. I \in P
  <2>. HIDE DEF P
  <2>. QED  BY <1>2, <1>3, AllSubsets
<1>. QED  BY <1>4

(* What counts for nothing may be left out. *)
LEMMA SumWithout ==
  ASSUME NEW S, IsFiniteSet(S), NEW f, \A x \in S : f[x] \in Int,
         NEW V \in SUBSET S, \A x \in S \ V : f[x] = 0
  PROVE  SumFunctionOnSet(f, S) = SumFunctionOnSet(f, V)
<1>. DEFINE W == S \ V
            P == {T \in SUBSET W : SumFunctionOnSet(f, V \cup T) = SumFunctionOnSet(f, V)}
<1>1. {} \in P
  <2>. V \cup {} = V
    OBVIOUS
  <2>. QED  OBVIOUS
<1>2. ASSUME NEW T \in SUBSET W, NEW x \in W \ T, T \in P
      PROVE  T \cup {x} \in P
  <2>1. V \cup (T \cup {x}) = (V \cup T) \cup {x} /\ V \cup T \in SUBSET S /\ x \in S \ (V \cup T)
    OBVIOUS
  <2>2. SumFunctionOnSet(f, (V \cup T) \cup {x}) = f[x] + SumFunctionOnSet(f, V \cup T)
    BY <2>1, SumWith
  <2>3. f[x] = 0 /\ SumFunctionOnSet(f, V \cup T) \in Int
    BY <2>1, SumWith
  <2>4. SumFunctionOnSet(f, V \cup (T \cup {x})) = SumFunctionOnSet(f, V \cup T)
    <3>1. \A a \in Int : 0 + a = a
      OBVIOUS
    <3>. HIDE DEF W
    <3>. QED  BY <2>1, <2>2, <2>3, <3>1
  <2>. QED  BY <1>2, <2>4
<1>3. IsFiniteSet(W)
  BY FS_Subset
<1>4. W \in P
  <2>. HIDE DEF P, W
  <2>1. \A T \in SUBSET W : \A x \in W \ T : T \in P => T \cup {x} \in P
    BY <1>2
  <2>2. \A T \in SUBSET W : T \in P
    BY <1>1, <1>3, <2>1, AllSubsets
  <2>. QED  BY <2>2
<1>5. V \cup W = S
  OBVIOUS
<1>. QED  BY <1>4, <1>5

-----------------------------------------------------------------------------
(* The sums a line of /proc/stat calls for.                                *)
LEMMA SumOfEight ==
  ASSUME NEW f, \A i \in 1 .. 8 : f[i] \in Int
  PROVE  SumFunctionOnSet(f, 1 .. 8) = f[1] + f[2] + f[3] + f[4] + f[5] + f[6] + f[7] + f[8]
<1>. DEFINE Sum(n) == SumFunctionOnSet(f, 1 .. n)
<1>1. IsFiniteSet(1 .. 8)
  <2>1. 8 \in Nat
    OBVIOUS
  <2>. QED  BY <2>1, UpTo
<1>a. \A T \in SUBSET (1 .. 8) :
        /\ SumFunctionOnSet(f, T) \in Int
        /\ \A i \in (1 .. 8) \ T : SumFunctionOnSet(f, T \cup {i}) = f[i] + SumFunctionOnSet(f, T)
  BY <1>1, SumWith
<1>2. Sum(0) = 0
  <2>1. 1 .. 0 = {}
    OBVIOUS
  <2>. QED  BY <1>1, <2>1, SumWith
<1>3. ASSUME NEW n \in 1 .. 8
      PROVE  Sum(n) = f[n] + Sum(n - 1) /\ Sum(n) \in Int
  <2>1. 1 .. n = (1 .. n - 1) \cup {n} /\ 1 .. n - 1 \in SUBSET (1 .. 8) /\ n \in (1 .. 8) \ (1 .. n - 1)
    OBVIOUS
  <2>2. 1 .. n \in SUBSET (1 .. 8)
    OBVIOUS
  <2>3. SumFunctionOnSet(f, (1 .. n - 1) \cup {n}) = f[n] + SumFunctionOnSet(f, 1 .. n - 1)
    BY <1>a, <2>1
  <2>4. SumFunctionOnSet(f, 1 .. n) \in Int
    BY <1>a, <2>2
  <2>. QED  BY <2>1, <2>3, <2>4
<1>. HIDE DEF Sum
<1>4. /\ Sum(1) = f[1] + Sum(0) /\ Sum(2) = f[2] + Sum(1) /\ Sum(3) = f[3] + Sum(2)
      /\ Sum(4) = f[4] + Sum(3) /\ Sum(5) = f[5] + Sum(4) /\ Sum(6) = f[6] + Sum(5)
      /\ Sum(7) = f[7] + Sum(6) /\ Sum(8) = f[8] + Sum(7)
  <2>1. \A n \in 1 .. 8 : Sum(n) = f[n] + Sum(n - 1)
    BY <1>3
  <2>2. /\ Sum(1) = f[1] + Sum(1 - 1) /\ Sum(2) = f[2] + Sum(2 - 1) /\ Sum(3) = f[3] + Sum(3 - 1)
        /\ Sum(4) = f[4] + Sum(4 - 1) /\ Sum(5) = f[5] + Sum(5 - 1) /\ Sum(6) = f[6] + Sum(6 - 1)
        /\ Sum(7) = f[7] + Sum(7 - 1) /\ Sum(8) = f[8] + Sum(8 - 1)
    BY <2>1
  <2>3. /\ 1 - 1 = 0 /\ 2 - 1 = 1 /\ 3 - 1 = 2 /\ 4 - 1 = 3 /\ 5 - 1 = 4 /\ 6 - 1 = 5
        /\ 7 - 1 = 6 /\ 8 - 1 = 7
    OBVIOUS
  <2>. QED  BY <2>2, <2>3
<1>5. /\ f[1] \in Int /\ f[2] \in Int /\ f[3] \in Int /\ f[4] \in Int
      /\ f[5] \in Int /\ f[6] \in Int /\ f[7] \in Int /\ f[8] \in Int
  OBVIOUS
<1>6. Sum(8) = f[1] + f[2] + f[3] + f[4] + f[5] + f[6] + f[7] + f[8]
  BY <1>2, <1>4, <1>5
<1>. QED  BY <1>6 DEF Sum

(* The total leaves guest time out, which user time has already, and idle  *)
(* and iowait are not busy.                                                *)
LEMMA ColumnsRead ==
  ASSUME NEW user \in Int, NEW idle \in Int, NEW iowait \in Int, NEW guest \in Int,
         NEW columns, columns = <<user, 0, 0, idle, iowait, 0, 0, 0, guest, 0>>
  PROVE  Total(columns) = user + idle + iowait /\ Busy(columns) = user
<1>. DEFINE f == [i \in 1 .. 8 |-> Column(columns, i)]
<1>1. /\ f[1] = user /\ f[2] = 0 /\ f[3] = 0 /\ f[4] = idle /\ f[5] = iowait
      /\ f[6] = 0 /\ f[7] = 0 /\ f[8] = 0
  BY DEF Column
<1>2. Column(columns, 4) = idle /\ Column(columns, 5) = iowait
  BY DEF Column
<1>. HIDE DEF f
<1>3. \A i \in 1 .. 8 : f[i] \in Int
  <2>1. \A i \in 1 .. 8 : i = 1 \/ i = 2 \/ i = 3 \/ i = 4 \/ i = 5 \/ i = 6 \/ i = 7 \/ i = 8
    OBVIOUS
  <2>. QED  BY <1>1, <2>1
<1>4. SumFunctionOnSet(f, 1 .. 8) = f[1] + f[2] + f[3] + f[4] + f[5] + f[6] + f[7] + f[8]
  BY <1>3, SumOfEight
<1>5. Total(columns) = user + idle + iowait
  <2>1. Total(columns) = SumFunctionOnSet(f, 1 .. 8)
    BY DEF Total, SumOf, f
  <2>. QED  BY <1>1, <1>4, <2>1
<1>. QED  BY <1>2, <1>5 DEF Busy

(* What a core did in the time between, kind by kind. *)
LEMMA SumOverKinds ==
  ASSUME NEW f, \A kind \in Kinds : f[kind] \in Int
  PROVE  /\ SumFunctionOnSet(f, {"run", "guest"}) = f["run"] + f["guest"]
         /\ SumFunctionOnSet(f, Kinds) = f["run"] + f["guest"] + f["idle"] + f["iowait"]
<1>1. IsFiniteSet(Kinds)
  <2>1. /\ IsFiniteSet({}) /\ IsFiniteSet({} \cup {"run"})
        /\ IsFiniteSet(({} \cup {"run"}) \cup {"guest"})
        /\ IsFiniteSet((({} \cup {"run"}) \cup {"guest"}) \cup {"idle"})
        /\ IsFiniteSet(((({} \cup {"run"}) \cup {"guest"}) \cup {"idle"}) \cup {"iowait"})
    BY FS_EmptySet, FS_AddElement
  <2>2. ((({} \cup {"run"}) \cup {"guest"}) \cup {"idle"}) \cup {"iowait"} = Kinds
    BY DEF Kinds
  <2>. QED  BY <2>1, <2>2
<1>a. /\ SumFunctionOnSet(f, {}) = 0
      /\ \A T \in SUBSET Kinds : \A x \in Kinds \ T :
           SumFunctionOnSet(f, T \cup {x}) = f[x] + SumFunctionOnSet(f, T)
  BY <1>1, SumWith
<1>2. /\ SumFunctionOnSet(f, {}) = 0
      /\ SumFunctionOnSet(f, {} \cup {"run"}) = f["run"] + SumFunctionOnSet(f, {})
      /\ SumFunctionOnSet(f, {"run"} \cup {"guest"}) = f["guest"] + SumFunctionOnSet(f, {"run"})
      /\ SumFunctionOnSet(f, {"run", "guest"} \cup {"idle"})
           = f["idle"] + SumFunctionOnSet(f, {"run", "guest"})
      /\ SumFunctionOnSet(f, {"run", "guest", "idle"} \cup {"iowait"})
           = f["iowait"] + SumFunctionOnSet(f, {"run", "guest", "idle"})
  <2>1. /\ {} \in SUBSET Kinds /\ "run" \in Kinds \ {}
        /\ {"run"} \in SUBSET Kinds /\ "guest" \in Kinds \ {"run"}
        /\ {"run", "guest"} \in SUBSET Kinds /\ "idle" \in Kinds \ {"run", "guest"}
        /\ {"run", "guest", "idle"} \in SUBSET Kinds /\ "iowait" \in Kinds \ {"run", "guest", "idle"}
    BY DEF Kinds
  <2>. QED  BY <1>a, <2>1
<1>3. /\ {} \cup {"run"} = {"run"} /\ {"run"} \cup {"guest"} = {"run", "guest"}
      /\ {"run", "guest"} \cup {"idle"} = {"run", "guest", "idle"}
      /\ {"run", "guest", "idle"} \cup {"iowait"} = Kinds
  BY DEF Kinds
<1>4. /\ f["run"] \in Int /\ f["guest"] \in Int /\ f["idle"] \in Int /\ f["iowait"] \in Int
  BY DEF Kinds
<1>5. SumFunctionOnSet(f, {"run"}) = f["run"]
  BY <1>2, <1>3, <1>4
<1>6. SumFunctionOnSet(f, {"run", "guest"}) = f["run"] + f["guest"]
  BY <1>2, <1>3, <1>4, <1>5
<1>7. SumFunctionOnSet(f, Kinds) = f["run"] + f["guest"] + f["idle"] + f["iowait"]
  <2>1. SumFunctionOnSet(f, {"run", "guest", "idle"}) = f["idle"] + (f["run"] + f["guest"])
    BY <1>2, <1>3, <1>6
  <2>2. SumFunctionOnSet(f, Kinds) = f["iowait"] + (f["idle"] + (f["run"] + f["guest"]))
    BY <1>2, <1>3, <2>1
  <2>3. \A a, b, c, d \in Int : d + (c + (a + b)) = a + b + c + d
    OBVIOUS
  <2>. QED  BY <1>4, <2>2, <2>3
<1>. QED  BY <1>6, <1>7

(* Percentages of whole numbers. *)
LEMMA Percent ==
  ASSUME NEW busy \in Nat, NEW total \in Nat
  PROVE  /\ Pct(busy, total) \in 0 .. 100
         /\ busy <= total => Pct(busy, total) = IF total = 0 THEN 0 ELSE (100 * busy) \div total
<1>1. CASE total = 0
  BY <1>1 DEF Pct
<1>2. CASE total # 0
  <2>. DEFINE share == (100 * busy) \div total
  <2>1. share \in Nat /\ (busy <= total => share <= 100)
    BY <1>2
  <2>. HIDE DEF share
  <2>2. {share, 100} \in SUBSET Int /\ share \in {share, 100} /\ 100 \in {share, 100}
    BY <2>1
  <2>3. Min({share, 100}) = IF share <= 100 THEN share ELSE 100
    <3>1. CASE share <= 100
      <4>1. \A n \in {share, 100} : share <= n
        BY <2>1, <3>1
      <4>. QED  BY <2>2, <3>1, <4>1, MinIs
    <3>2. CASE ~ (share <= 100)
      <4>1. \A n \in {share, 100} : 100 <= n
        BY <2>1, <3>2
      <4>. QED  BY <2>2, <3>2, <4>1, MinIs
    <3>. QED  BY <3>1, <3>2
  <2>4. Pct(busy, total) = Min({share, 100})
    BY <1>2 DEF Pct, share
  <2>5. Pct(busy, total) \in 0 .. 100
    BY <2>1, <2>3, <2>4
  <2>6. busy <= total => Pct(busy, total) = share
    BY <2>1, <2>3, <2>4
  <2>. QED  BY <1>2, <2>5, <2>6 DEF share
<1>. QED  BY <1>1, <1>2

-----------------------------------------------------------------------------
(* The machine as a scan sees it, and what the scan makes of it.           *)
Machine ==
  [ticks : [Cores -> [Kinds -> Nat]], slips : [Cores -> Nat], online : SUBSET Cores,
   carried : [Links -> Nat], offset : [Links -> Nat], present : SUBSET Links,
   net_read : BOOLEAN]

Seen(readable) ==
  [ticks |-> ticks, slips |-> slips, online |-> online, carried |-> carried,
   offset |-> offset, present |-> present, net_read |-> readable]

Columns(m, S) ==
  LET sum(kind) == SumFunctionOnSet([c \in Cores |-> m.ticks[c][kind]], S)
  IN <<sum("run") + sum("guest"), 0, 0, sum("idle"), sum("iowait") - SumFunctionOnSet(m.slips, S),
       0, 0, 0, sum("guest"), 0>>

CpuOf(m) ==
  LET cores == Ascending(m.online) IN
  [total   |-> Columns(m, Cores),
   per_cpu |-> [i \in DOMAIN cores |-> Columns(m, {cores[i]})]]

CounterOf(m, l) == (m.carried[l] - m.offset[l]) % Wrap

(* The bytes a scan finds on the interfaces that count. *)
Counted(m) ==
  IF m.net_read THEN SumFunctionOnSet([l \in Links |-> CounterOf(m, l)], m.present \ {"lo"}) ELSE 0

(* An interface that is not there received all it ever did before. *)
Wired(m) ==
  \A l \in Links : /\ m.offset[l] <= m.carried[l]
                   /\ l \notin m.present => m.offset[l] = m.carried[l]

(* Time and traffic only grow, and a counter that was started anew was     *)
(* started after all that was received before.                             *)
Since(was, now) ==
  /\ \A c \in Cores, kind \in Kinds : was.ticks[c][kind] <= now.ticks[c][kind]
  /\ \A l \in Links : /\ was.carried[l] <= now.carried[l]
                      /\ now.offset[l] = was.offset[l] \/ was.carried[l] <= now.offset[l]


-----------------------------------------------------------------------------
(* The share of the time between two scans that some cores were busy.      *)
SpentBetween(was, now, S, kinds) ==
  SumFunctionOnSet(
    [c \in Cores |-> SumFunctionOnSet([k \in Kinds |-> now.ticks[c][k] - was.ticks[c][k]], kinds)],
    S)

ShareBetween(was, now, S) ==
  LET total == SpentBetween(was, now, S, Kinds)
  IN IF total = 0 THEN 0
     ELSE (100 * SpentBetween(was, now, S, {"run", "guest"})) \div total

LEMMA CoresAreFinite ==
  ASSUME NEW S \in SUBSET Cores
  PROVE  IsFiniteSet(S)
BY SystemAssumption, FS_Subset

Times(m, kind) == [c \in Cores |-> m.ticks[c][kind]]

LEMMA ColumnsAdd ==
  ASSUME NEW m \in Machine, NEW S \in SUBSET Cores
  PROVE  LET sum(kind) == SumFunctionOnSet(Times(m, kind), S)
             slipped   == SumFunctionOnSet(m.slips, S)
         IN /\ \A kind \in Kinds : sum(kind) \in Int
            /\ slipped \in Int
            /\ Total(Columns(m, S)) = sum("run") + sum("guest") + sum("idle") + (sum("iowait") - slipped)
            /\ Busy(Columns(m, S)) = sum("run") + sum("guest")
<1>. DEFINE sum(kind) == SumFunctionOnSet(Times(m, kind), S)
            slipped   == SumFunctionOnSet(m.slips, S)
<1>1. IsFiniteSet(S)
  BY CoresAreFinite
<1>2. ASSUME NEW kind \in Kinds
      PROVE  sum(kind) \in Int
  <2>1. \A c \in S : Times(m, kind)[c] \in Int
    BY DEF Times, Machine
  <2>. QED  BY <1>1, <2>1, SumWith
<1>3. slipped \in Int
  <2>1. \A c \in S : m.slips[c] \in Int
    BY DEF Machine
  <2>. QED  BY <1>1, <2>1, SumWith
<1>4. Columns(m, S) =
        <<sum("run") + sum("guest"), 0, 0, sum("idle"), sum("iowait") - slipped, 0, 0, 0,
          sum("guest"), 0>>
  BY DEF Columns, Times
<1>5. "run" \in Kinds /\ "guest" \in Kinds /\ "idle" \in Kinds /\ "iowait" \in Kinds
  BY DEF Kinds
<1>. HIDE DEF sum, slipped
<1>6. /\ sum("run") + sum("guest") \in Int /\ sum("idle") \in Int
      /\ sum("iowait") - slipped \in Int /\ sum("guest") \in Int
  BY <1>2, <1>3, <1>5
<1>7. /\ Total(Columns(m, S)) = sum("run") + sum("guest") + sum("idle") + (sum("iowait") - slipped)
      /\ Busy(Columns(m, S)) = sum("run") + sum("guest")
  <2>1. PICK user \in Int, idle \in Int, iowait \in Int, guest \in Int :
          /\ user = sum("run") + sum("guest") /\ idle = sum("idle")
          /\ iowait = sum("iowait") - slipped /\ guest = sum("guest")
    BY <1>6
  <2>2. Columns(m, S) = <<user, 0, 0, idle, iowait, 0, 0, 0, guest, 0>>
    BY <1>4, <2>1
  <2>3. Total(Columns(m, S)) = user + idle + iowait /\ Busy(Columns(m, S)) = user
    BY <2>2, ColumnsRead
  <2>. QED  BY <2>1, <2>3
<1>. QED  BY <1>2, <1>3, <1>7 DEF sum, slipped

LEMMA TimeSpent ==
  ASSUME NEW was \in Machine, NEW now \in Machine, Since(was, now), NEW S \in SUBSET Cores
  PROVE  LET d(kind) == SumFunctionOnSet(Times(now, kind), S) - SumFunctionOnSet(Times(was, kind), S)
         IN /\ \A kind \in Kinds : d(kind) \in Nat
            /\ SpentBetween(was, now, S, {"run", "guest"}) = d("run") + d("guest")
            /\ SpentBetween(was, now, S, Kinds) = d("run") + d("guest") + d("idle") + d("iowait")
<1>. DEFINE diff(kind) == [c \in Cores |-> now.ticks[c][kind] - was.ticks[c][kind]]
            D(kind)    == SumFunctionOnSet(diff(kind), S)
            d(kind)    == SumFunctionOnSet(Times(now, kind), S) - SumFunctionOnSet(Times(was, kind), S)
<1>1. IsFiniteSet(S)
  BY CoresAreFinite
<1>2. \A c \in Cores, kind \in Kinds :
        now.ticks[c][kind] \in Nat /\ was.ticks[c][kind] \in Nat /\ was.ticks[c][kind] <= now.ticks[c][kind]
  BY DEF Machine, Since
<1>3. ASSUME NEW kind \in Kinds
      PROVE  D(kind) \in Nat /\ d(kind) = D(kind)
  <2>1. \A c \in S : /\ Times(was, kind)[c] \in Int /\ diff(kind)[c] \in Nat
                     /\ Times(now, kind)[c] = Times(was, kind)[c] + diff(kind)[c]
    BY <1>2 DEF Times
  <2>2. D(kind) \in Nat
    <3>. HIDE DEF diff
    <3>. QED  BY <1>1, <2>1, SumNatural
  <2>3. SumFunctionOnSet(Times(now, kind), S) = SumFunctionOnSet(Times(was, kind), S) + D(kind)
    <3>. HIDE DEF diff
    <3>1. \A c \in S : Times(was, kind)[c] \in Int /\ diff(kind)[c] \in Int
      BY <2>1
    <3>. QED  BY <1>1, <2>1, <3>1, SumOfSums
  <2>4. SumFunctionOnSet(Times(was, kind), S) \in Int
    BY <1>1, <2>1, SumWith
  <2>5. \A a, b \in Int : (a + b) - a = b
    OBVIOUS
  <2>. HIDE DEF D
  <2>. QED  BY <2>2, <2>3, <2>4, <2>5
<1>4. "run" \in Kinds /\ "guest" \in Kinds /\ "idle" \in Kinds /\ "iowait" \in Kinds
  BY DEF Kinds
<1>. DEFINE spent(c)  == [k \in Kinds |-> now.ticks[c][k] - was.ticks[c][k]]
            busy      == [c \in Cores |-> SumFunctionOnSet(spent(c), {"run", "guest"})]
            whole     == [c \in Cores |-> SumFunctionOnSet(spent(c), Kinds)]
            waiting   == [c \in Cores |-> diff("idle")[c] + diff("iowait")[c]]
<1>5. ASSUME NEW c \in Cores
      PROVE  /\ \A kind \in Kinds : diff(kind)[c] \in Int
             /\ busy[c] = diff("run")[c] + diff("guest")[c]
             /\ whole[c] = busy[c] + waiting[c]
  <2>1. \A kind \in Kinds : spent(c)[kind] = diff(kind)[c] /\ diff(kind)[c] \in Int
    BY <1>2
  <2>2. busy[c] = SumFunctionOnSet(spent(c), {"run", "guest"}) /\ whole[c] = SumFunctionOnSet(spent(c), Kinds)
    OBVIOUS
  <2>3. waiting[c] = diff("idle")[c] + diff("iowait")[c]
    OBVIOUS
  <2>. HIDE DEF spent, diff, busy, whole, waiting
  <2>4. \A kind \in Kinds : spent(c)[kind] \in Int
    BY <2>1
  <2>5. /\ SumFunctionOnSet(spent(c), {"run", "guest"}) = spent(c)["run"] + spent(c)["guest"]
        /\ SumFunctionOnSet(spent(c), Kinds)
             = spent(c)["run"] + spent(c)["guest"] + spent(c)["idle"] + spent(c)["iowait"]
    BY <2>4, SumOverKinds
  <2>6. \A x, y, z, w \in Int : x + y + z + w = (x + y) + (z + w)
    OBVIOUS
  <2>7. whole[c] = (spent(c)["run"] + spent(c)["guest"]) + (spent(c)["idle"] + spent(c)["iowait"])
    BY <1>4, <2>2, <2>4, <2>5, <2>6
  <2>. QED  BY <1>4, <2>1, <2>2, <2>3, <2>5, <2>7
<1>6. /\ SpentBetween(was, now, S, {"run", "guest"}) = SumFunctionOnSet(busy, S)
      /\ SpentBetween(was, now, S, Kinds) = SumFunctionOnSet(whole, S)
  BY DEF SpentBetween
<1>7. SumFunctionOnSet(busy, S) = D("run") + D("guest")
  <2>. HIDE DEF diff, busy
  <2>1. \A c \in S : /\ diff("run")[c] \in Int /\ diff("guest")[c] \in Int
                     /\ busy[c] = diff("run")[c] + diff("guest")[c]
    BY <1>4, <1>5
  <2>. QED  BY <1>1, <2>1, SumOfSums
<1>8. SumFunctionOnSet(waiting, S) = D("idle") + D("iowait")
  <2>1. \A c \in S : waiting[c] = diff("idle")[c] + diff("iowait")[c]
    OBVIOUS
  <2>. HIDE DEF diff, waiting
  <2>2. \A c \in S : diff("idle")[c] \in Int /\ diff("iowait")[c] \in Int
    BY <1>4, <1>5
  <2>. QED  BY <1>1, <2>1, <2>2, SumOfSums
<1>9. SumFunctionOnSet(whole, S) = SumFunctionOnSet(busy, S) + SumFunctionOnSet(waiting, S)
  <2>1. \A c \in S : waiting[c] = diff("idle")[c] + diff("iowait")[c]
    OBVIOUS
  <2>. HIDE DEF diff, busy, whole, waiting
  <2>2. \A c \in S : busy[c] \in Int /\ waiting[c] \in Int /\ whole[c] = busy[c] + waiting[c]
    BY <1>4, <1>5, <2>1
  <2>. QED  BY <1>1, <2>2, SumOfSums
<1>. HIDE DEF D, d, busy, whole, waiting
<1>10. /\ d("run") = D("run") /\ d("guest") = D("guest") /\ d("idle") = D("idle") /\ d("iowait") = D("iowait")
       /\ D("run") \in Nat /\ D("guest") \in Nat /\ D("idle") \in Nat /\ D("iowait") \in Nat
  BY <1>3, <1>4
<1>11. \A x, y, z, w \in Int : (x + y) + (z + w) = x + y + z + w
  OBVIOUS
<1>12. SpentBetween(was, now, S, Kinds) = d("run") + d("guest") + d("idle") + d("iowait")
  BY <1>6, <1>7, <1>8, <1>9, <1>10, <1>11
<1>13. SpentBetween(was, now, S, {"run", "guest"}) = d("run") + d("guest")
  BY <1>6, <1>7, <1>10
<1>14. \A kind \in Kinds : d(kind) \in Nat
  BY <1>3
<1>. QED  BY <1>12, <1>13, <1>14 DEF d

(* A percentage made of any two lines is one. *)
LEMMA PctInRange ==
  ASSUME NEW was \in Machine, NEW now \in Machine, NEW S \in SUBSET Cores, NEW V \in SUBSET Cores
  PROVE  CpuPct(Columns(now, S), Columns(was, V)) \in 0 .. 100
<1>. DEFINE busy  == SaturatingSub(Busy(Columns(now, S)), Busy(Columns(was, V)))
            total == SaturatingSub(Total(Columns(now, S)), Total(Columns(was, V)))
<1>1. ASSUME NEW m \in Machine, NEW U \in SUBSET Cores
      PROVE  Busy(Columns(m, U)) \in Int /\ Total(Columns(m, U)) \in Int
  <2>. DEFINE sum(kind) == SumFunctionOnSet(Times(m, kind), U)
              slipped   == SumFunctionOnSet(m.slips, U)
  <2>1. /\ \A kind \in Kinds : sum(kind) \in Int
        /\ slipped \in Int
        /\ Total(Columns(m, U)) = sum("run") + sum("guest") + sum("idle") + (sum("iowait") - slipped)
        /\ Busy(Columns(m, U)) = sum("run") + sum("guest")
    BY ColumnsAdd
  <2>2. "run" \in Kinds /\ "guest" \in Kinds /\ "idle" \in Kinds /\ "iowait" \in Kinds
    BY DEF Kinds
  <2>. HIDE DEF sum, slipped
  <2>. QED  BY <2>1, <2>2
<1>2. \A x, y \in Int : SaturatingSub(x, y) \in Nat
  BY DEF SaturatingSub
<1>3. busy \in Nat /\ total \in Nat
  BY <1>1, <1>2
<1>4. CpuPct(Columns(now, S), Columns(was, V)) = Pct(busy, total)
  BY DEF CpuPct
<1>. HIDE DEF busy, total
<1>5. Pct(busy, total) \in 0 .. 100
  BY <1>3, Percent
<1>. QED  BY <1>4, <1>5

(* Made of two lines of the same cores it is the share of time they were   *)
(* busy, unless their iowait went back.                                    *)
LEMMA SharesAreRead ==
  ASSUME NEW was \in Machine, NEW now \in Machine, NEW S \in SUBSET Cores,
         Since(was, now), \A c \in S : now.slips[c] = was.slips[c]
  PROVE  CpuPct(Columns(now, S), Columns(was, S)) = ShareBetween(was, now, S)
<1>. DEFINE sum(m, kind) == SumFunctionOnSet(Times(m, kind), S)
            slipped(m)   == SumFunctionOnSet(m.slips, S)
            busy  == SaturatingSub(Busy(Columns(now, S)), Busy(Columns(was, S)))
            total == SaturatingSub(Total(Columns(now, S)), Total(Columns(was, S)))
            d(kind) == sum(now, kind) - sum(was, kind)
<1>1. ASSUME NEW m \in {was, now}
      PROVE  /\ \A kind \in Kinds : sum(m, kind) \in Int
             /\ slipped(m) \in Int
             /\ Total(Columns(m, S)) =
                  sum(m, "run") + sum(m, "guest") + sum(m, "idle") + (sum(m, "iowait") - slipped(m))
             /\ Busy(Columns(m, S)) = sum(m, "run") + sum(m, "guest")
  BY ColumnsAdd
<1>2. "run" \in Kinds /\ "guest" \in Kinds /\ "idle" \in Kinds /\ "iowait" \in Kinds
  BY DEF Kinds
<1>3. CpuPct(Columns(now, S), Columns(was, S)) = Pct(busy, total)
  BY DEF CpuPct
<1>. HIDE DEF sum, slipped
<1>4. busy \in Nat /\ total \in Nat
  <2>1. /\ Busy(Columns(now, S)) \in Int /\ Busy(Columns(was, S)) \in Int
        /\ Total(Columns(now, S)) \in Int /\ Total(Columns(was, S)) \in Int
    BY <1>1, <1>2
  <2>. QED  BY <2>1 DEF SaturatingSub
<1>5. Pct(busy, total) = ShareBetween(was, now, S)
  <2>1. /\ \A kind \in Kinds : d(kind) \in Nat
        /\ SpentBetween(was, now, S, {"run", "guest"}) = d("run") + d("guest")
        /\ SpentBetween(was, now, S, Kinds) = d("run") + d("guest") + d("idle") + d("iowait")
    BY TimeSpent DEF sum
  <2>2. slipped(now) = slipped(was)
    <3>1. \A c \in S : now.slips[c] \in Int /\ now.slips[c] = was.slips[c]
      BY DEF Machine
    <3>. QED  BY <3>1, CoresAreFinite, SameSums DEF slipped
  <2>3. /\ d("run") \in Nat /\ d("guest") \in Nat /\ d("idle") \in Nat /\ d("iowait") \in Nat
        /\ sum(now, "run") \in Int /\ sum(now, "guest") \in Int
        /\ sum(now, "idle") \in Int /\ sum(now, "iowait") \in Int
        /\ sum(was, "run") \in Int /\ sum(was, "guest") \in Int
        /\ sum(was, "idle") \in Int /\ sum(was, "iowait") \in Int
        /\ slipped(was) \in Int
    BY <1>1, <1>2, <2>1
  <2>4. busy = d("run") + d("guest")
    <3>1. /\ Busy(Columns(now, S)) = sum(now, "run") + sum(now, "guest")
          /\ Busy(Columns(was, S)) = sum(was, "run") + sum(was, "guest")
      BY <1>1
    <3>. QED  BY <2>3, <3>1 DEF SaturatingSub
  <2>5. total = d("run") + d("guest") + d("idle") + d("iowait")
    <3>1. /\ Total(Columns(now, S)) = sum(now, "run") + sum(now, "guest") + sum(now, "idle")
                                        + (sum(now, "iowait") - slipped(was))
          /\ Total(Columns(was, S)) = sum(was, "run") + sum(was, "guest") + sum(was, "idle")
                                        + (sum(was, "iowait") - slipped(was))
      BY <1>1, <2>2
    <3>2. \A r, g, i, w, p, h, j, v, s \in Int :
            (r + g + i + (w - s)) - (p + h + j + (v - s)) = (r - p) + (g - h) + (i - j) + (w - v)
      OBVIOUS
    <3>3. Total(Columns(now, S)) - Total(Columns(was, S))
            = d("run") + d("guest") + d("idle") + d("iowait")
      BY <2>3, <3>1, <3>2
    <3>4. Total(Columns(now, S)) \in Int /\ Total(Columns(was, S)) \in Int
      BY <2>3, <3>1
    <3>. HIDE DEF d
    <3>5. Total(Columns(now, S)) - Total(Columns(was, S)) \in Nat
      BY <2>3, <3>3
    <3>6. \A x, y \in Int : x - y \in Nat => SaturatingSub(x, y) = x - y
      BY DEF SaturatingSub
    <3>. QED  BY <3>3, <3>4, <3>5, <3>6
  <2>. HIDE DEF busy, total, d
  <2>6. busy <= total
    BY <2>3, <2>4, <2>5
  <2>7. Pct(busy, total) = IF total = 0 THEN 0 ELSE (100 * busy) \div total
    BY <1>4, <2>6, Percent
  <2>. QED  BY <2>1, <2>4, <2>5, <2>7 DEF ShareBetween
<1>. QED  BY <1>3, <1>5

-----------------------------------------------------------------------------
(* What the parsers find in the files.                                     *)
LEMMA AscendingType ==
  ASSUME NEW S \in SUBSET Int, IsFiniteSet(S)
  PROVE  /\ Cardinality(S) \in Nat
         /\ Ascending(S) \in [1 .. Cardinality(S) -> S]
<1>. DEFINE n    == Cardinality(S)
            rank == [i \in S |-> Rank(S, i)]
<1>1. n \in Nat
  BY FS_CardinalityType
<1>2. IsFiniteSet(1 .. n) /\ Cardinality(1 .. n) = n
  BY <1>1, UpTo
<1>3. ASSUME NEW i \in S
      PROVE  rank[i] \in 1 .. n
  <2>. DEFINE below == {j \in S : j <= i}
  <2>1. below \subseteq S /\ i \in below
    OBVIOUS
  <2>. HIDE DEF below
  <2>2. IsFiniteSet(below) /\ Cardinality(below) <= n
    BY <2>1, FS_Subset
  <2>3. Cardinality(below) \in Nat /\ (Cardinality(below) = 0 <=> below = {})
    BY <2>2, FS_CardinalityType, FS_EmptySet
  <2>4. Cardinality(below) \in 1 .. n
    BY <1>1, <2>1, <2>2, <2>3
  <2>. QED  BY <2>4 DEF Rank, below
<1>4. ASSUME NEW i \in S, NEW j \in S, i < j
      PROVE  rank[i] # rank[j]
  <2>. DEFINE upto(k) == {m \in S : m <= k}
  <2>1. upto(i) \subseteq upto(j) /\ j \in upto(j) /\ j \notin upto(i) /\ upto(j) \subseteq S
    <3>1. i \in Int /\ j \in Int /\ \A m \in S : m \in Int
      OBVIOUS
    <3>2. \A m \in S : m <= i => m <= j
      BY <1>4, <3>1
    <3>3. j <= j /\ ~ (j <= i)
      BY <1>4, <3>1
    <3>. QED  BY <3>2, <3>3
  <2>. HIDE DEF upto
  <2>2. IsFiniteSet(upto(j))
    BY <2>1, FS_Subset
  <2>3. Cardinality(upto(i)) # Cardinality(upto(j))
    BY <2>1, <2>2, FS_Subset
  <2>. QED  BY <2>3 DEF Rank, upto
<1>5. rank \in Injection(S, 1 .. n)
  <2>1. rank \in [S -> 1 .. n]
    BY <1>3
  <2>2. \A i, j \in S : i < j \/ i = j \/ j < i
    OBVIOUS
  <2>. HIDE DEF rank
  <2>3. \A i, j \in S : rank[i] = rank[j] => i = j
    BY <1>4, <2>2
  <2>4. DOMAIN rank = S
    BY <2>1
  <2>. QED  BY <2>1, <2>3, <2>4 DEF Injection, IsInjective
<1>6. rank \in Surjection(S, 1 .. n)
  <2>. HIDE DEF rank
  <2>. QED  BY <1>2, <1>5, FS_Injection
<1>7. \A k \in 1 .. n : \E i \in S : Rank(S, i) = k
  <2>1. \A k \in 1 .. n : \E i \in S : rank[i] = k
    <3>. HIDE DEF rank
    <3>. QED  BY <1>6 DEF Surjection
  <2>. QED  BY <2>1
<1>. QED  BY <1>1, <1>7 DEF Ascending

(* The sequence of a set is a numbering of it. *)
LEMMA Numbered ==
  ASSUME NEW S, IsFiniteSet(S)
  PROVE  LET n == Cardinality(S)
             order == SetToSeq(S)
         IN /\ n \in Nat
            /\ order \in [1 .. n -> S]
            /\ \A i, j \in 1 .. n : order[i] = order[j] => i = j
            /\ \A x \in S : \E i \in 1 .. n : order[i] = x
<1>. DEFINE n     == Cardinality(S)
            order == SetToSeq(S)
<1>1. n \in Nat
  BY FS_CardinalityType
<1>2. IsFiniteSet(1 .. n) /\ Cardinality(1 .. n) = n
  BY <1>1, UpTo
<1>3. ExistsBijection(1 .. n, S)
  BY <1>2, FS_SameCardinalityBij
<1>4. \E f \in [1 .. n -> S] : IsInjective(f)
  BY <1>3 DEF ExistsBijection, Bijection, Injection
<1>5. order \in [1 .. n -> S] /\ IsInjective(order)
  BY <1>4 DEF SetToSeq
<1>. HIDE DEF order
<1>6. order \in Surjection(1 .. n, S)
  <2>1. order \in Injection(1 .. n, S)
    BY <1>5 DEF Injection
  <2>. QED  BY <1>2, <2>1, FS_Injection
<1>7. \A i, j \in 1 .. n : order[i] = order[j] => i = j
  BY <1>5 DEF IsInjective
<1>8. \A x \in S : \E i \in 1 .. n : order[i] = x
  BY <1>6 DEF Surjection
<1>. QED  BY <1>1, <1>5, <1>7, <1>8 DEF order

(* /proc/stat is read as the columns of all cores and of each core on      *)
(* line, in ascending order.                                               *)
LEMMA StatParsed ==
  ASSUME NEW readable, Seen(readable) \in Machine
  PROVE  ParseProcStat(StatFile) = CpuOf(Seen(readable))
<1>. DEFINE cores == Ascending(online)
            n     == Cardinality(online)
            head  == [label |-> "cpu", columns |-> CpuColumns(Cores)]
            line(i) == [label |-> "cpuN", columns |-> CpuColumns({cores[i]})]
            tail  == [i \in 1 .. n |-> line(i)]
            T     == {head} \cup {line(i) : i \in 1 .. n}
            file  == <<head>> \o tail
<1>1. n \in Nat /\ cores \in [1 .. n -> online]
  <2>1. online \in SUBSET Cores
    BY DEF Machine, Seen
  <2>2. online \in SUBSET Int /\ IsFiniteSet(online)
    BY <2>1, SystemAssumption, CoresAreFinite
  <2>. QED  BY <2>2, AscendingType
<1>2. StatFile = file
  <2>1. DOMAIN cores = 1 .. n
    BY <1>1
  <2>. QED  BY <2>1 DEF StatFile
<1>3. <<head>> \in Seq(T) /\ Len(<<head>>) = 1 /\ <<head>>[1] = head
  OBVIOUS
<1>4. tail \in Seq(T) /\ Len(tail) = n /\ \A i \in 1 .. n : tail[i] = line(i)
  <2>1. tail \in [1 .. n -> T]
    OBVIOUS
  <2>. HIDE DEF T, line
  <2>. QED  BY <1>1, <2>1
<1>15. /\ head.label = "cpu" /\ head.columns = CpuColumns(Cores) /\ ~ IsCore(head)
       /\ \A i : /\ line(i).label = "cpuN" /\ line(i).columns = CpuColumns({cores[i]})
                 /\ IsCore(line(i)) /\ line(i).label # "cpu"
  BY DEF IsCore
<1>. HIDE DEF cores, n, T, tail
<1>5. /\ Len(file) = 1 + n /\ file \in Seq(T)
      /\ file[1] = head
      /\ \A i \in 1 .. n : file[1 + i] = line(i)
  <2>. HIDE DEF head, line
  <2>. QED  BY <1>1, <1>3, <1>4, Joined
<1>. HIDE DEF file, head, line
<1>6. DOMAIN file = 1 .. 1 + n
  BY <1>5
<1>7. \A i \in 1 .. 1 + n : i = 1 \/ \E k \in 1 .. n : i = 1 + k
  <2>1. \A i \in 1 .. 1 + n : i # 1 => i - 1 \in 1 .. n /\ i = 1 + (i - 1)
    BY <1>1
  <2>. QED  BY <2>1
<1>8. {i \in 1 .. Len(file) : file[i].label = "cpu"} = {1} /\ Max({1}) = 1
  <2>1. {i \in 1 .. Len(file) : file[i].label = "cpu"} = {1}
    <3>1. file[1].label = "cpu" /\ \A k \in 1 .. n : file[1 + k].label # "cpu"
      BY <1>5, <1>15
    <3>2. 1 \in 1 .. 1 + n
      BY <1>1
    <3>. QED  BY <1>5, <1>7, <3>1, <3>2
  <2>2. Max({1}) = 1
    <3>1. {1} \in SUBSET Int /\ 1 \in {1} /\ \A k \in {1} : k <= 1
      OBVIOUS
    <3>. QED  BY <3>1, MaxIs
  <2>. QED  BY <2>1, <2>2
<1>9. {i \in DOMAIN file : IsCore(file[i])} = 1 + 1 .. 1 + n
  <2>1. ~ IsCore(file[1]) /\ \A k \in 1 .. n : IsCore(file[1 + k])
    BY <1>5, <1>15
  <2>2. \A i \in 1 .. 1 + n : i # 1 <=> i \in 1 + 1 .. 1 + n
    BY <1>1
  <2>3. 1 + 1 .. 1 + n \subseteq 1 .. 1 + n
    BY <1>1
  <2>4. \A i \in 1 .. 1 + n : IsCore(file[i]) <=> i # 1
    <3>1. \A k \in 1 .. n : 1 + k # 1
      OBVIOUS
    <3>. QED  BY <1>7, <2>1, <3>1
  <2>. QED  BY <1>6, <2>2, <2>3, <2>4
<1>10. Passing(file, IsCore) = [k \in 1 .. n |-> line(k)]
  <2>1. Ascending(1 + 1 .. 1 + n) = [k \in 1 .. n |-> 1 + k]
    <3>1. 1 \in Int
      OBVIOUS
    <3>. QED  BY <1>1, <3>1, AscendingRun
  <2>2. Passing(file, IsCore) = [k \in 1 .. n |-> file[1 + k]]
    BY <1>9, <2>1 DEF Passing
  <2>. QED  BY <1>5, <2>2
<1>11. ParseProcStat(file) =
         [total |-> CpuColumns(Cores), per_cpu |-> [i \in 1 .. n |-> CpuColumns({cores[i]})]]
  <2>. DEFINE at   == SelectLastInSeq(file, LAMBDA l : l.label = "cpu")
              kept == Passing(file, IsCore)
  <2>1. ParseProcStat(file) =
          [total   |-> IF at = 0 THEN <<>> ELSE file[at].columns,
           per_cpu |-> [i \in DOMAIN kept |-> kept[i].columns]]
    BY DEF ParseProcStat
  <2>2. at = 1
    BY <1>8 DEF SelectLastInSeq
  <2>3. DOMAIN kept = 1 .. n /\ \A k \in 1 .. n : kept[k].columns = CpuColumns({cores[k]})
    BY <1>10, <1>15
  <2>4. file[1].columns = CpuColumns(Cores)
    BY <1>5, <1>15
  <2>. HIDE DEF at, kept
  <2>5. (IF at = 0 THEN <<>> ELSE file[at].columns) = CpuColumns(Cores)
    BY <2>2, <2>4
  <2>6. [i \in DOMAIN kept |-> kept[i].columns] = [i \in 1 .. n |-> CpuColumns({cores[i]})]
    BY <2>3
  <2>. QED  BY <2>1, <2>5, <2>6
<1>12. \A S : CpuColumns(S) = Columns(Seen(readable), S)
  BY DEF CpuColumns, Columns, Seen
<1>13. Ascending(Seen(readable).online) = cores /\ DOMAIN cores = 1 .. n
  BY <1>1 DEF cores, Seen
<1>14. CpuOf(Seen(readable)) =
         [total |-> Columns(Seen(readable), Cores),
          per_cpu |-> [i \in 1 .. n |-> Columns(Seen(readable), {cores[i]})]]
  BY <1>13 DEF CpuOf
<1>. QED  BY <1>2, <1>11, <1>12, <1>14

(* /proc/net/dev is read as the counter of each interface there is: the    *)
(* two header lines are left out.                                          *)
LEMMA NetParsed ==
  ASSUME NEW readable, Seen(readable) \in Machine
  PROVE  LET n     == Cardinality(present)
             links == SetToSeq(present)
         IN ParseNetDev(NetDevFile) =
              [i \in 1 .. n |-> [name |-> links[i], rx_bytes |-> Counter(links[i])]]
<1>. DEFINE n      == Cardinality(present)
            links  == SetToSeq(present)
            header == [label |-> "header", columns |-> <<>>]
            zeros  == [k \in 1 .. 15 |-> 0]
            line(i) == [label |-> links[i], columns |-> <<Counter(links[i])>> \o zeros]
            tail   == [i \in 1 .. n |-> line(i)]
            T      == {header} \cup {line(i) : i \in 1 .. n}
            file   == <<header, header>> \o tail
<1>1. n \in Nat /\ links \in [1 .. n -> present] /\ present \subseteq Links
  <2>1. present \in SUBSET Links
    BY DEF Machine, Seen
  <2>2. IsFiniteSet(present)
    BY <2>1, SystemAssumption, FS_Subset
  <2>. QED  BY <2>1, <2>2, Numbered
<1>2. NetDevFile = file
  <2>1. DOMAIN links = 1 .. n
    BY <1>1
  <2>. QED  BY <2>1 DEF NetDevFile
<1>3. ASSUME NEW i \in 1 .. n
      PROVE  Len(line(i).columns) = 16 /\ line(i).columns[1] = Counter(links[i]) /\ line(i).label = links[i]
  <2>1. links[i] \in Links
    BY <1>1
  <2>2. Counter(links[i]) \in Int
    <3>1. carried[links[i]] \in Nat /\ offset[links[i]] \in Nat /\ Wrap \in Nat \ {0}
      BY <2>1, SystemAssumption DEF Machine, Seen
    <3>. QED  BY <3>1 DEF Counter
  <2>. DEFINE first == <<Counter(links[i])>>
  <2>3. first \in Seq(Int) /\ Len(first) = 1 /\ first[1] = Counter(links[i])
    BY <2>2
  <2>4. zeros \in Seq(Int) /\ Len(zeros) = 15
    OBVIOUS
  <2>5. line(i).columns = first \o zeros /\ line(i).label = links[i]
    OBVIOUS
  <2>. HIDE DEF first, zeros, line
  <2>6. Len(first \o zeros) = 16 /\ (first \o zeros)[1] = Counter(links[i])
    <3>1. /\ Len(first \o zeros) = Len(first) + Len(zeros)
          /\ \A k \in 1 .. Len(first) : (first \o zeros)[k] = first[k]
      <4>1. first \in Seq(Int) /\ zeros \in Seq(Int)
        BY <2>3, <2>4
      <4>. QED  BY <4>1, Joined
    <3>2. 1 \in 1 .. 1 /\ 1 + 15 = 16
      OBVIOUS
    <3>. QED  BY <2>3, <2>4, <3>1, <3>2
  <2>. QED  BY <2>5, <2>6
<1>4. <<header, header>> \in Seq(T) /\ Len(<<header, header>>) = 2
  OBVIOUS
<1>5. tail \in Seq(T) /\ Len(tail) = n /\ \A i \in 1 .. n : tail[i] = line(i)
  <2>1. tail \in [1 .. n -> T]
    OBVIOUS
  <2>. HIDE DEF T, line
  <2>. QED  BY <1>1, <2>1
<1>. HIDE DEF header, zeros, line, T
<1>6. SubSeq(file, Headers + 1, Len(file)) = tail
  <2>. HIDE DEF tail
  <2>1. /\ file \in Seq(T) /\ Len(file) = 2 + Len(tail)
        /\ \A i \in 1 .. Len(tail) : file[2 + i] = tail[i]
    BY <1>4, <1>5, Joined
  <2>. HIDE DEF file
  <2>2. 2 \in Nat /\ 2 + Len(tail) <= Len(file)
    BY <1>5, <2>1
  <2>3. SubSeq(file, 2 + 1, 2 + Len(tail)) = tail
    BY <1>5, <2>1, <2>2, PartOf
  <2>. QED  BY <2>1, <2>3 DEF Headers
<1>. HIDE DEF file, tail
<1>7. {i \in DOMAIN tail : Len(tail[i].columns) >= 16} = 1 .. n
  <2>1. DOMAIN tail = 1 .. n
    BY <1>5
  <2>2. \A i \in 1 .. n : Len(tail[i].columns) = 16
    BY <1>3, <1>5
  <2>3. \A i \in 1 .. n : Len(tail[i].columns) >= 16
    <3>1. 16 >= 16
      OBVIOUS
    <3>. QED  BY <2>2, <3>1, Zenon
  <2>. QED  BY <2>1, <2>3
<1>8. Ascending(1 .. n) = [k \in 1 .. n |-> k]
  <2>1. Ascending(0 + 1 .. 0 + n) = [k \in 1 .. n |-> 0 + k]
    <3>1. 0 \in Int
      OBVIOUS
    <3>. HIDE DEF n
    <3>. QED  BY <1>1, <3>1, AscendingRun
  <2>. HIDE DEF n
  <2>. QED  BY <1>1, <2>1
<1>. DEFINE kept == Passing(tail, LAMBDA l : Len(l.columns) >= 16)
<1>9. kept = [k \in 1 .. n |-> tail[k]]
  BY <1>7, <1>8 DEF Passing
<1>10. ParseNetDev(file) =
         [i \in DOMAIN kept |-> [name |-> kept[i].label, rx_bytes |-> kept[i].columns[1]]]
  BY <1>6 DEF ParseNetDev
<1>11. /\ DOMAIN kept = 1 .. n
       /\ \A i \in 1 .. n : kept[i].label = links[i] /\ kept[i].columns[1] = Counter(links[i])
  <2>. HIDE DEF kept
  <2>. QED  BY <1>3, <1>5, <1>9
<1>. HIDE DEF kept
<1>12. [i \in DOMAIN kept |-> [name |-> kept[i].label, rx_bytes |-> kept[i].columns[1]]]
         = [i \in 1 .. n |-> [name |-> links[i], rx_bytes |-> Counter(links[i])]]
  BY <1>11
<1>. QED  BY <1>2, <1>10, <1>12

(* Interfaces add up in whatever order the file lists them. *)
LEMMA NetCounted ==
  ASSUME NEW readable \in BOOLEAN, Seen(readable) \in Machine
  PROVE  SumNet(IF readable THEN ParseNetDev(NetDevFile) ELSE <<>>) = Counted(Seen(readable))
<1>1. CASE ~ readable
  <2>. DEFINE f == [i \in DOMAIN <<>> |-> <<>>[i].rx_bytes]
  <2>1. {i \in DOMAIN <<>> : CountsAsNetwork(<<>>[i])} = {}
    OBVIOUS
  <2>2. SumNet(<<>>) = SumFunctionOnSet(f, {})
    BY <2>1 DEF SumNet
  <2>. HIDE DEF f
  <2>3. SumFunctionOnSet(f, {}) = 0
    BY SumStep, FS_EmptySet
  <2>. QED  BY <1>1, <2>2, <2>3 DEF Counted, Seen
<1>2. CASE readable
  <2>. DEFINE n     == Cardinality(present)
              links == SetToSeq(present)
              nets  == [i \in 1 .. n |-> [name |-> links[i], rx_bytes |-> Counter(links[i])]]
              f     == [l \in Links |-> CounterOf(Seen(readable), l)]
              g     == [i \in DOMAIN nets |-> nets[i].rx_bytes]
              I     == {i \in DOMAIN nets : CountsAsNetwork(nets[i])}
              order == [i \in I |-> links[i]]
              S     == present \ {"lo"}
  <2>1. present \in SUBSET Links /\ IsFiniteSet(present) /\ IsFiniteSet(S)
    <3>1. present \in SUBSET Links
      BY DEF Machine, Seen
    <3>. QED  BY <3>1, SystemAssumption, FS_Subset
  <2>2. /\ n \in Nat /\ links \in [1 .. n -> present]
        /\ \A i, j \in 1 .. n : links[i] = links[j] => i = j
        /\ \A l \in present : \E i \in 1 .. n : links[i] = l
    BY <2>1, Numbered
  <2>3. I = {i \in 1 .. n : links[i] # "lo"}
    BY DEF CountsAsNetwork
  <2>4. \A i \in 1 .. n : g[i] = Counter(links[i])
    OBVIOUS
  <2>5. \A l \in Links : f[l] = Counter(l) /\ f[l] \in Int
    <3>. SUFFICES ASSUME NEW l \in Links PROVE f[l] = Counter(l) /\ f[l] \in Int
      OBVIOUS
    <3>1. f[l] = Counter(l)
      BY DEF CounterOf, Counter, Seen
    <3>2. carried[l] \in Nat /\ offset[l] \in Nat /\ Wrap \in Nat \ {0}
      BY SystemAssumption DEF Machine, Seen
    <3>3. Counter(l) \in Int
      BY <3>2 DEF Counter
    <3>. QED  BY <3>1, <3>3
  <2>6. SumNet(nets) = SumFunctionOnSet(g, I)
    BY DEF SumNet
  <2>7. ParseNetDev(NetDevFile) = nets
    BY NetParsed
  <2>. HIDE DEF n, links, nets, f, g, I
  <2>8. IsFiniteSet(I)
    <3>1. IsFiniteSet(1 .. n)
      BY <2>2, UpTo
    <3>2. I \subseteq 1 .. n
      BY <2>3
    <3>. QED  BY <3>1, <3>2, FS_Subset
  <2>9. /\ order \in [I -> S]
        /\ \A i, j \in I : order[i] = order[j] => i = j
        /\ {order[i] : i \in I} = S
        /\ \A i \in I : order[i] = links[i] /\ links[i] \in Links
    <3>1. \A i \in I : i \in 1 .. n /\ links[i] \in present /\ links[i] # "lo" /\ links[i] \in Links
      BY <2>1, <2>2, <2>3
    <3>2. \A i \in I : order[i] = links[i] /\ order[i] \in S
      BY <3>1
    <3>3. order \in [I -> S]
      BY <3>2
    <3>4. \A i, j \in I : order[i] = order[j] => i = j
      BY <2>2, <3>1, <3>2
    <3>5. \A l \in S : \E i \in I : order[i] = l
      <4>1. \A l \in S : \E i \in 1 .. n : links[i] = l /\ links[i] # "lo"
        BY <2>2
      <4>. HIDE DEF order
      <4>. QED  BY <2>3, <3>2, <4>1
    <3>. HIDE DEF order, S
    <3>6. {order[i] : i \in I} = S
      BY <3>2, <3>5
    <3>. QED  BY <3>1, <3>2, <3>3, <3>4, <3>6
  <2>. HIDE DEF order, S
  <2>10. \A i \in I : g[i] = f[order[i]]
    BY <2>3, <2>4, <2>5, <2>9
  <2>11. \A l \in S : f[l] \in Int
    BY <2>1, <2>5 DEF S
  <2>12. SumFunctionOnSet(g, I) = SumFunctionOnSet(f, {order[i] : i \in I})
    BY <2>1, <2>8, <2>9, <2>10, <2>11, SumAlong
  <2>13. Counted(Seen(readable)) = SumFunctionOnSet(f, S)
    BY <1>2 DEF Counted, Seen, f, S
  <2>. QED  BY <1>2, <2>6, <2>7, <2>9, <2>12, <2>13
<1>. QED  BY <1>1, <1>2

-----------------------------------------------------------------------------
(* Bytes received between two scans. *)
ReceivedBetween(was, now) ==
  SumFunctionOnSet([l \in Links |-> now.carried[l] - was.carried[l]], Links \ {"lo"})

UndisturbedBetween(was, now) ==
  \A l \in Links \ {"lo"} :
    /\ l \in was.present <=> l \in now.present
    /\ was.offset[l] = now.offset[l]
    /\ l \in now.present =>
         (now.carried[l] - now.offset[l]) \div Wrap = (was.carried[l] - now.offset[l]) \div Wrap

Showing(m) == [l \in Links |-> IF l \in m.present THEN CounterOf(m, l) ELSE 0]

LEMMA Remainders ==
  ASSUME NEW a \in Nat, NEW b \in Nat, NEW w \in Nat \ {0}
  PROVE  /\ a % w \in Nat /\ a % w <= a
         /\ b <= a => a % w <= (b % w) + (a - b)
         /\ a \div w = b \div w => a % w = (b % w) + (a - b)
OBVIOUS

(* No counter grows by more than was received, even one started anew, and  *)
(* one that ran on in one width grew by just that.                         *)
LEMMA CounterGrows ==
  ASSUME NEW was \in Machine, NEW now \in Machine, Wired(was), Wired(now), Since(was, now),
         NEW l \in Links
  PROVE  /\ Showing(was)[l] \in Nat /\ Showing(now)[l] \in Nat
         /\ now.carried[l] - was.carried[l] \in Nat
         /\ Showing(now)[l] <= Showing(was)[l] + (now.carried[l] - was.carried[l])
         /\ UndisturbedBetween(was, now) /\ l # "lo" =>
              Showing(now)[l] = Showing(was)[l] + (now.carried[l] - was.carried[l])
<1>. DEFINE c == now.carried[l]  o == now.offset[l]  p == l \in now.present
            b == was.carried[l]  u == was.offset[l]  q == l \in was.present
            later == Showing(now)[l]
            before == Showing(was)[l]
<1>1. /\ c \in Nat /\ o \in Nat /\ b \in Nat /\ u \in Nat /\ Wrap \in Nat \ {0}
      /\ o <= c /\ u <= b /\ b <= c /\ (o = u \/ b <= o)
      /\ (~ p => o = c) /\ (~ q => u = b)
  BY SystemAssumption DEF Machine, Wired, Since
<1>2. /\ later = IF p THEN (c - o) % Wrap ELSE 0
      /\ before = IF q THEN (b - u) % Wrap ELSE 0
  BY DEF Showing, CounterOf
<1>3. UndisturbedBetween(was, now) /\ l # "lo" =>
        (p <=> q) /\ u = o /\ (p => (c - o) \div Wrap = (b - o) \div Wrap)
  BY DEF UndisturbedBetween
<1>. HIDE DEF c, o, p, b, u, q, later, before
<1>4. c - o \in Nat /\ b - u \in Nat /\ c - b \in Nat
  BY <1>1
<1>5. /\ (c - o) % Wrap \in Nat /\ (c - o) % Wrap <= c - o /\ (b - u) % Wrap \in Nat
  BY <1>1, <1>4, Remainders
<1>6. later \in Nat /\ before \in Nat
  BY <1>2, <1>5
<1>7. later <= before + (c - b)
  <2>1. CASE ~ p
    BY <1>1, <1>2, <1>6, <2>1
  <2>2. CASE p /\ b <= o
    BY <1>1, <1>2, <1>5, <1>6, <2>2
  <2>3. CASE p /\ o = u /\ q
    <3>1. b - u <= c - o /\ (c - o) - (b - u) = c - b
      BY <1>1, <2>3
    <3>2. (c - o) % Wrap <= ((b - u) % Wrap) + ((c - o) - (b - u))
      BY <1>1, <1>4, <3>1, Remainders
    <3>. QED  BY <1>2, <2>3, <3>1, <3>2
  <2>4. ~ q /\ o = u => b <= o
    BY <1>1
  <2>. QED  BY <1>1, <2>1, <2>2, <2>3, <2>4
<1>8. ASSUME UndisturbedBetween(was, now), l # "lo"
      PROVE  later = before + (c - b)
  <2>1. (p <=> q) /\ u = o /\ (p => (c - o) \div Wrap = (b - o) \div Wrap)
    BY <1>3, <1>8
  <2>2. CASE ~ p
    BY <1>1, <1>2, <2>1, <2>2
  <2>3. CASE p
    <3>1. (c - o) \div Wrap = (b - u) \div Wrap /\ (c - o) - (b - u) = c - b
      BY <1>1, <2>1, <2>3
    <3>2. (c - o) % Wrap = ((b - u) % Wrap) + ((c - o) - (b - u))
      BY <1>1, <1>4, <3>1, Remainders
    <3>. QED  BY <1>2, <2>1, <2>3, <3>1, <3>2
  <2>. QED  BY <2>2, <2>3
<1>. QED  BY <1>4, <1>6, <1>7, <1>8 DEF c, b, later, before

(* What a scan counts is what the interfaces other than lo show. *)
LEMMA CountedIs ==
  ASSUME NEW m \in Machine, \A l \in Links : Showing(m)[l] \in Nat, m.net_read
  PROVE  Counted(m) = SumFunctionOnSet(Showing(m), Links \ {"lo"})
<1>. DEFINE net == Links \ {"lo"}
            V   == m.present \ {"lo"}
            f   == [l \in Links |-> CounterOf(m, l)]
<1>1. V \in SUBSET net /\ IsFiniteSet(net) /\ IsFiniteSet(V)
  <2>1. V \subseteq net /\ net \subseteq Links
    BY DEF Machine
  <2>. HIDE DEF V, net
  <2>. QED  BY <2>1, SystemAssumption, FS_Subset
<1>2. /\ \A l \in V : Showing(m)[l] \in Int /\ Showing(m)[l] = f[l]
      /\ \A l \in net \ V : Showing(m)[l] = 0
      /\ \A l \in net : Showing(m)[l] \in Int
  BY <1>1 DEF Showing
<1>3. Counted(m) = SumFunctionOnSet(f, V)
  BY DEF Counted
<1>. HIDE DEF f, V, net
<1>4. SumFunctionOnSet(Showing(m), V) = SumFunctionOnSet(f, V)
  BY <1>1, <1>2, SameSums
<1>5. SumFunctionOnSet(Showing(m), net) = SumFunctionOnSet(Showing(m), V)
  BY <1>1, <1>2, SumWithout
<1>. QED  BY <1>3, <1>4, <1>5 DEF net

(* What two scans make of the traffic between them. *)
LEMMA TrafficBetween ==
  ASSUME NEW was \in Machine, NEW now \in Machine, Wired(was), Wired(now), Since(was, now)
  PROVE  LET rate == SaturatingSub(Counted(now), Counted(was)) IN
         /\ Counted(now) \in Nat
         /\ rate \in Nat
         /\ was.net_read =>
              /\ rate <= ReceivedBetween(was, now)
              /\ UndisturbedBetween(was, now) /\ now.net_read => rate = ReceivedBetween(was, now)
<1>. DEFINE net  == Links \ {"lo"}
            diff == [l \in Links |-> now.carried[l] - was.carried[l]]
            both == [l \in Links |-> Showing(was)[l] + diff[l]]
            old  == SumFunctionOnSet(Showing(was), net)
            new  == SumFunctionOnSet(Showing(now), net)
            got  == SumFunctionOnSet(diff, net)
<1>1. IsFiniteSet(net) /\ \A l \in net : l \in Links
  BY SystemAssumption, FS_Subset
<1>2. ASSUME NEW l \in Links
      PROVE  /\ Showing(was)[l] \in Nat /\ Showing(now)[l] \in Nat /\ diff[l] \in Nat
             /\ both[l] = Showing(was)[l] + diff[l]
             /\ Showing(now)[l] <= Showing(was)[l] + diff[l]
             /\ UndisturbedBetween(was, now) /\ l # "lo" =>
                  Showing(now)[l] = Showing(was)[l] + diff[l]
  BY CounterGrows
<1>3. /\ was.net_read => Counted(was) = old
      /\ now.net_read => Counted(now) = new
      /\ ~ now.net_read => Counted(now) = 0
      /\ ~ was.net_read => Counted(was) = 0
  BY <1>2, CountedIs DEF Counted
<1>4. ReceivedBetween(was, now) = got
  BY DEF ReceivedBetween
<1>. HIDE DEF diff, both
<1>5. /\ \A l \in net : Showing(was)[l] \in Nat /\ Showing(now)[l] \in Nat /\ diff[l] \in Nat
      /\ \A l \in net : /\ Showing(was)[l] \in Int /\ Showing(now)[l] \in Int /\ diff[l] \in Int
                        /\ both[l] \in Int
                        /\ both[l] = Showing(was)[l] + diff[l] /\ Showing(now)[l] <= both[l]
                        /\ UndisturbedBetween(was, now) => Showing(now)[l] = both[l]
  <2>. SUFFICES ASSUME NEW l \in net
                PROVE  /\ Showing(was)[l] \in Nat /\ Showing(now)[l] \in Nat /\ diff[l] \in Nat
                       /\ both[l] \in Int
                       /\ both[l] = Showing(was)[l] + diff[l] /\ Showing(now)[l] <= both[l]
                       /\ UndisturbedBetween(was, now) => Showing(now)[l] = both[l]
    OBVIOUS
  <2>1. l \in Links /\ l # "lo"
    BY <1>1
  <2>. QED  BY <1>2, <2>1
<1>. HIDE DEF net
<1>6. old \in Nat /\ new \in Nat /\ got \in Nat
  BY <1>1, <1>5, SumNatural
<1>7. SumFunctionOnSet(both, net) = old + got
  BY <1>1, <1>5, SumOfSums
<1>8. new <= old + got
  <2>1. SumFunctionOnSet(Showing(now), net) <= SumFunctionOnSet(both, net)
    BY <1>1, <1>5, SumsCompare
  <2>. QED  BY <1>7, <2>1
<1>9. UndisturbedBetween(was, now) => new = old + got
  <2>. SUFFICES ASSUME UndisturbedBetween(was, now) PROVE new = old + got
    OBVIOUS
  <2>1. \A l \in net : Showing(now)[l] \in Int /\ Showing(now)[l] = both[l]
    BY <1>5
  <2>2. SumFunctionOnSet(Showing(now), net) = SumFunctionOnSet(both, net)
    BY <1>1, <2>1, SameSums
  <2>. QED  BY <1>7, <2>2
<1>. HIDE DEF old, new, got
<1>10. Counted(now) \in Nat /\ Counted(was) \in Nat
  <2>1. now.net_read \in BOOLEAN /\ was.net_read \in BOOLEAN
    BY DEF Machine
  <2>. QED  BY <1>3, <1>6, <2>1
<1>11. \A x, y \in Nat : SaturatingSub(x, y) \in Nat
  BY DEF SaturatingSub
<1>12. ASSUME was.net_read
       PROVE  /\ SaturatingSub(Counted(now), Counted(was)) <= got
              /\ UndisturbedBetween(was, now) /\ now.net_read =>
                   SaturatingSub(Counted(now), Counted(was)) = got
  <2>1. Counted(was) = old
    BY <1>3, <1>12
  <2>2. CASE now.net_read
    <3>1. Counted(now) = new
      BY <1>3, <2>2
    <3>2. SaturatingSub(new, old) <= got
      BY <1>6, <1>8 DEF SaturatingSub
    <3>3. UndisturbedBetween(was, now) => SaturatingSub(new, old) = got
      BY <1>6, <1>9 DEF SaturatingSub
    <3>. QED  BY <2>1, <3>1, <3>2, <3>3
  <2>3. CASE ~ now.net_read
    <3>1. Counted(now) = 0
      BY <1>3, <2>3
    <3>2. SaturatingSub(0, old) = 0
      BY <1>6 DEF SaturatingSub
    <3>3. 0 <= got
      BY <1>6
    <3>. QED  BY <2>1, <2>3, <3>1, <3>2, <3>3
  <2>. QED  BY <2>2, <2>3
<1>. QED  BY <1>4, <1>10, <1>11, <1>12

-----------------------------------------------------------------------------
(* The later of two lines with a key is the one that counts. *)
LEMMA ValueIs ==
  ASSUME NEW T, NEW file \in Seq(T), NEW key, NEW at \in 1 .. Len(file),
         file[at].key = key, \A i \in at + 1 .. Len(file) : file[i].key # key
  PROVE  Value(file, key) = file[at].n
<1>. DEFINE I == {i \in 1 .. Len(file) : file[i].key = key}
<1>1. at \in I /\ I \in SUBSET Int
  OBVIOUS
<1>2. \A n \in I : n <= at
  OBVIOUS
<1>3. Max(I) = at
  BY <1>1, <1>2, MaxIs
<1>4. at # 0
  OBVIOUS
<1>5. SelectLastInSeq(file, LAMBDA line : line.key = key) = at
  BY <1>1, <1>3 DEF SelectLastInSeq
<1>. QED  BY <1>4, <1>5 DEF Value

LEMMA NoValue ==
  ASSUME NEW T, NEW file \in Seq(T), NEW key, \A i \in 1 .. Len(file) : file[i].key # key
  PROVE  Value(file, key) = 0
<1>1. {i \in 1 .. Len(file) : file[i].key = key} = {}
  OBVIOUS
<1>2. SelectLastInSeq(file, LAMBDA line : line.key = key) = 0
  BY <1>1 DEF SelectLastInSeq
<1>. QED  BY <1>2 DEF Value

(* What meminfo says can be handed out, or what it is taken for, can be. *)
LEMMA MemoryParsed ==
  ASSUME NEW free \in Nat, NEW cache \in Nat, NEW shared \in Nat, NEW used \in Nat,
         NEW reports \in BOOLEAN,
         memory.free = free, memory.cache = cache, memory.shared = shared, memory.used = used,
         memory.reports = reports
  PROVE  LET found == MemUsed(ParseMeminfo(MemFile)) IN
         /\ found \in Nat
         /\ found = IF reports /\ free + cache > 0 THEN shared + used ELSE used
<1>. DEFINE total  == free + cache + shared + used
            cached == cache + shared
            handed == free + cache
            t == [key |-> "MemTotal", n |-> total]
            f == [key |-> "MemFree", n |-> free]
            c == [key |-> "Cached", n |-> cached]
            a == [key |-> "MemAvailable", n |-> handed]
            T == {t, f, c, a}
<1>1. total \in Nat /\ cached \in Nat /\ handed \in Nat
  OBVIOUS
<1>2. MemFile = <<t, f, c>> \o IF reports THEN <<a>> ELSE <<>>
  BY DEF MemFile
<1>3. /\ t.key = "MemTotal" /\ f.key = "MemFree" /\ c.key = "Cached" /\ a.key = "MemAvailable"
      /\ t.n = total /\ f.n = free /\ c.n = cached /\ a.n = handed
  OBVIOUS
<1>. HIDE DEF t, f, c, a
<1>4. CASE reports
  <2>. DEFINE three == <<t, f, c>>
              one   == <<a>>
              file  == three \o one
  <2>1. MemFile = file
    BY <1>2, <1>4
  <2>2. /\ file \in Seq(T) /\ Len(file) = 4
        /\ file[1] = t /\ file[2] = f /\ file[3] = c /\ file[4] = a
    <3>1. /\ three \in Seq(T) /\ Len(three) = 3 /\ three[1] = t /\ three[2] = f /\ three[3] = c
          /\ one \in Seq(T) /\ Len(one) = 1 /\ one[1] = a
      OBVIOUS
    <3>. HIDE DEF three, one, T
    <3>2. /\ file \in Seq(T) /\ Len(file) = Len(three) + Len(one)
          /\ \A i \in 1 .. Len(three) : file[i] = three[i]
          /\ \A i \in 1 .. Len(one) : file[Len(three) + i] = one[i]
      <4>1. three \in Seq(T) /\ one \in Seq(T)
        BY <3>1
      <4>. QED  BY <4>1, Joined
    <3>3. 1 \in 1 .. 3 /\ 2 \in 1 .. 3 /\ 3 \in 1 .. 3 /\ 1 \in 1 .. 1 /\ 3 + 1 = 4
      OBVIOUS
    <3>. HIDE DEF file
    <3>. QED  BY <3>1, <3>2, <3>3
  <2>. HIDE DEF file, T
  <2>3. \A i \in 1 .. 4 : i = 1 \/ i = 2 \/ i = 3 \/ i = 4
    OBVIOUS
  <2>4. Value(file, "MemTotal") = total
    <3>1. 1 \in 1 .. Len(file) /\ \A i \in 1 + 1 .. Len(file) : i = 2 \/ i = 3 \/ i = 4
      BY <2>2
    <3>2. \A i \in 1 + 1 .. Len(file) : file[i].key # "MemTotal"
      BY <1>3, <2>2, <3>1
    <3>. QED  BY <1>3, <2>2, <3>1, <3>2, ValueIs
  <2>5. Value(file, "MemFree") = free
    <3>1. 2 \in 1 .. Len(file) /\ \A i \in 2 + 1 .. Len(file) : i = 3 \/ i = 4
      BY <2>2
    <3>2. \A i \in 2 + 1 .. Len(file) : file[i].key # "MemFree"
      BY <1>3, <2>2, <3>1
    <3>. QED  BY <1>3, <2>2, <3>1, <3>2, ValueIs
  <2>6. Value(file, "Cached") = cached
    <3>1. 3 \in 1 .. Len(file) /\ \A i \in 3 + 1 .. Len(file) : i = 4
      BY <2>2
    <3>2. \A i \in 3 + 1 .. Len(file) : file[i].key # "Cached"
      BY <1>3, <2>2, <3>1
    <3>. QED  BY <1>3, <2>2, <3>1, <3>2, ValueIs
  <2>7. Value(file, "MemAvailable") = handed
    <3>1. 4 \in 1 .. Len(file) /\ \A i \in 4 + 1 .. Len(file) : FALSE
      BY <2>2
    <3>. QED  BY <1>3, <2>2, <3>1, ValueIs
  <2>8. Value(file, "Buffers") = 0
    <3>1. \A i \in 1 .. Len(file) : i = 1 \/ i = 2 \/ i = 3 \/ i = 4
      BY <2>2
    <3>2. \A i \in 1 .. Len(file) : file[i].key # "Buffers"
      BY <1>3, <2>2, <3>1
    <3>. QED  BY <2>2, <3>2, NoValue
  <2>9. MemUsed(ParseMeminfo(file)) =
          SaturatingSub(total, IF handed = 0 /\ total > 0 THEN free + 0 + cached ELSE handed)
    <3>. HIDE DEF total, cached, handed
    <3>. QED  BY <2>4, <2>5, <2>6, <2>7, <2>8 DEF MemUsed, ParseMeminfo
  <2>10. /\ handed > 0 => MemUsed(ParseMeminfo(file)) = shared + used
         /\ handed = 0 => MemUsed(ParseMeminfo(file)) = used
         /\ handed > 0 \/ handed = 0
    <3>1. handed > 0 => SaturatingSub(total, handed) = shared + used
      BY DEF SaturatingSub
    <3>2. /\ handed = 0 /\ total > 0 => SaturatingSub(total, free + 0 + cached) = used
          /\ handed = 0 /\ ~ (total > 0) => SaturatingSub(total, handed) = used
      <4>1. handed = 0 => free = 0 /\ cache = 0
        OBVIOUS
      <4>. QED  BY <4>1 DEF SaturatingSub
    <3>3. (handed > 0 \/ handed = 0) /\ (handed > 0 => handed # 0)
      BY <1>1
    <3>. HIDE DEF total, handed, cached
    <3>. QED  BY <2>9, <3>1, <3>2, <3>3
  <2>11. /\ shared + used \in Nat /\ used \in Nat
         /\ free + cache > 0 <=> handed > 0
    BY <1>1
  <2>. DEFINE found == MemUsed(ParseMeminfo(file))
  <2>12. found \in Nat /\ found = IF free + cache > 0 THEN shared + used ELSE used
    <3>. HIDE DEF total, cached, handed, found
    <3>1. CASE handed > 0
      BY <2>10, <2>11, <3>1 DEF found
    <3>2. CASE handed = 0
      <4>1. ~ (handed > 0)
        BY <3>2
      <4>. QED  BY <2>10, <2>11, <3>2, <4>1 DEF found
    <3>. QED  BY <2>10, <3>1, <3>2
  <2>. HIDE DEF total, cached, handed
  <2>. QED  BY <1>4, <2>1, <2>12 DEF found
<1>5. CASE ~ reports
  <2>. DEFINE file == <<t, f, c>>
  <2>1. MemFile = file
    <3>1. <<t, f, c>> \o <<>> = <<t, f, c>>
      OBVIOUS
    <3>. QED  BY <1>2, <1>5, <3>1
  <2>2. /\ file \in Seq(T) /\ Len(file) = 3
        /\ file[1] = t /\ file[2] = f /\ file[3] = c
    OBVIOUS
  <2>. HIDE DEF file, T
  <2>4. Value(file, "MemTotal") = total
    <3>1. 1 \in 1 .. Len(file) /\ \A i \in 1 + 1 .. Len(file) : i = 2 \/ i = 3
      BY <2>2
    <3>2. \A i \in 1 + 1 .. Len(file) : file[i].key # "MemTotal"
      BY <1>3, <2>2, <3>1
    <3>. QED  BY <1>3, <2>2, <3>1, <3>2, ValueIs
  <2>5. Value(file, "MemFree") = free
    <3>1. 2 \in 1 .. Len(file) /\ \A i \in 2 + 1 .. Len(file) : i = 3
      BY <2>2
    <3>2. \A i \in 2 + 1 .. Len(file) : file[i].key # "MemFree"
      BY <1>3, <2>2, <3>1
    <3>. QED  BY <1>3, <2>2, <3>1, <3>2, ValueIs
  <2>6. Value(file, "Cached") = cached
    <3>1. 3 \in 1 .. Len(file) /\ \A i \in 3 + 1 .. Len(file) : FALSE
      BY <2>2
    <3>. QED  BY <1>3, <2>2, <3>1, ValueIs
  <2>7. Value(file, "MemAvailable") = 0 /\ Value(file, "Buffers") = 0
    <3>1. \A i \in 1 .. Len(file) : i = 1 \/ i = 2 \/ i = 3
      BY <2>2
    <3>2. \A i \in 1 .. Len(file) : file[i].key # "Buffers" /\ file[i].key # "MemAvailable"
      BY <1>3, <2>2, <3>1
    <3>. QED  BY <2>2, <3>2, NoValue
  <2>8. MemUsed(ParseMeminfo(file)) =
          SaturatingSub(total, IF total > 0 THEN free + 0 + cached ELSE 0)
    BY <2>4, <2>5, <2>6, <2>7 DEF MemUsed, ParseMeminfo
  <2>9. MemUsed(ParseMeminfo(file)) = used
    BY <1>1, <2>8 DEF SaturatingSub
  <2>. HIDE DEF total, cached, handed
  <2>. QED  BY <1>1, <1>5, <2>1, <2>9
<1>. QED  BY <1>1, <1>4, <1>5

-----------------------------------------------------------------------------
(* The inductive invariant: the machine and the sample held, and what is   *)
(* said of the rates, which are of the two last scans.                     *)

(* What the machine can be. *)
Sound ==
  /\ events \in 0 .. MaxEvents
  /\ memory \in Memories
  /\ ticks \in [Cores -> [Kinds -> 1 .. events + 1]]
  /\ slips \in [Cores -> Nat] /\ \A c \in Cores : slips[c] <= ticks[c]["iowait"]
  /\ online \in SUBSET Cores
  /\ carried \in [Links -> 1 .. events + 1]
  /\ offset \in [Links -> Nat]
  /\ present \in SUBSET Links
  /\ Wired(Seen(TRUE))

(* The sample held is of the machine as it was at the last scan. *)
Remembered ==
  sample # None =>
    /\ last \in Machine /\ Wired(last) /\ Since(last, Seen(TRUE))
    /\ sample.cpu = CpuOf(last)
    /\ SumNet(sample.nets) = Counted(last)

Typed ==
  /\ sample = None \/ DOMAIN sample = {"cpu", "mem", "nets"}
  /\ rates = None \/
       /\ rates.cpu_pct \in Nat
       /\ rates.per_cpu_pct \in Seq(Nat)
       /\ rates.mem_used \in Nat
       /\ rates.net_rx_bps \in Nat

Reported ==
  PercentsAreBounded /\ CpuIsBusyShare /\ CoresAreTheirOwn /\ NetRateIsTraffic /\ UsedCannotBeHandedOut

SInv == Sound /\ Remembered /\ Typed /\ Reported

LEMMA SeenMachine ==
  ASSUME Sound, NEW readable \in BOOLEAN
  PROVE  Seen(readable) \in Machine /\ Wired(Seen(readable))
<1>1. ticks \in [Cores -> [Kinds -> Nat]]
  <2>1. events \in Nat /\ 1 .. events + 1 \subseteq Nat
    BY SystemAssumption DEF Sound
  <2>2. ticks \in [Cores -> [Kinds -> 1 .. events + 1]]
    BY DEF Sound
  <2>. QED  BY <2>1, <2>2
<1>2. carried \in [Links -> Nat]
  <2>1. events \in Nat /\ 1 .. events + 1 \subseteq Nat
    BY SystemAssumption DEF Sound
  <2>2. carried \in [Links -> 1 .. events + 1]
    BY DEF Sound
  <2>. QED  BY <2>1, <2>2
<1>3. Seen(readable) \in Machine
  BY <1>1, <1>2 DEF Sound, Machine, Seen
<1>4. Wired(Seen(readable))
  BY DEF Sound, Wired, Seen
<1>. QED  BY <1>3, <1>4

LEMMA SinceThen ==
  ASSUME NEW a \in Machine, NEW b \in Machine, NEW c \in Machine, Since(a, b), Since(b, c)
  PROVE  Since(a, c)
<1>1. ASSUME NEW x \in Cores, NEW kind \in Kinds
      PROVE  a.ticks[x][kind] <= c.ticks[x][kind]
  <2>1. a.ticks[x][kind] \in Nat /\ b.ticks[x][kind] \in Nat /\ c.ticks[x][kind] \in Nat
    BY DEF Machine
  <2>2. a.ticks[x][kind] <= b.ticks[x][kind] /\ b.ticks[x][kind] <= c.ticks[x][kind]
    BY DEF Since
  <2>. QED  BY <2>1, <2>2
<1>2. ASSUME NEW l \in Links
      PROVE  a.carried[l] <= c.carried[l] /\ (c.offset[l] = a.offset[l] \/ a.carried[l] <= c.offset[l])
  <2>1. /\ a.carried[l] \in Nat /\ b.carried[l] \in Nat /\ c.carried[l] \in Nat
        /\ a.offset[l] \in Nat /\ b.offset[l] \in Nat /\ c.offset[l] \in Nat
    BY DEF Machine
  <2>2. /\ a.carried[l] <= b.carried[l] /\ b.carried[l] <= c.carried[l]
        /\ b.offset[l] = a.offset[l] \/ a.carried[l] <= b.offset[l]
        /\ c.offset[l] = b.offset[l] \/ b.carried[l] <= c.offset[l]
    BY DEF Since
  <2>. QED  BY <2>1, <2>2
<1>. QED  BY <1>1, <1>2 DEF Since

(* Of the machine's own steps. *)
MachineStep ==
  \/ \E c \in Cores : (\E kind \in Kinds : Tick(c, kind)) \/ SlipBack(c) \/ Plug(c)
  \/ \E l \in Links : Receive(l) \/ Rewire(l)

LEMMA MachineKeepsSound ==
  ASSUME Sound, MachineStep
  PROVE  Sound' /\ Since(Seen(TRUE), Seen(TRUE)') /\ UNCHANGED <<memory, sample, rates, then, last>>
<1>1. /\ events \in Nat /\ events < MaxEvents /\ events' = events + 1 /\ events' \in 0 .. MaxEvents
      /\ UNCHANGED <<memory, sample, rates, then, last>>
  <2>1. Happens /\ memory' = memory
    BY DEF MachineStep, Tick, SlipBack, Plug, Receive, Rewire
  <2>2. events \in 0 .. MaxEvents /\ MaxEvents \in Nat
    BY SystemAssumption DEF Sound
  <2>. QED  BY <2>1, <2>2 DEF Happens
<1>2. 1 .. events + 1 \subseteq 1 .. events' + 1 /\ 1 .. events + 1 \subseteq Nat
  BY <1>1
<1>3. /\ ticks \in [Cores -> [Kinds -> 1 .. events' + 1]]
      /\ carried \in [Links -> 1 .. events' + 1]
  <2>1. ticks \in [Cores -> [Kinds -> 1 .. events + 1]] /\ carried \in [Links -> 1 .. events + 1]
    BY DEF Sound
  <2>. QED  BY <1>2, <2>1
<1>4. /\ \A c \in Cores : /\ slips[c] \in Nat /\ slips[c] <= ticks[c]["iowait"]
                          /\ \A kind \in Kinds : ticks[c][kind] \in Nat /\ ticks[c][kind] <= events + 1
      /\ \A l \in Links : /\ carried[l] \in Nat /\ offset[l] \in Nat /\ carried[l] <= events + 1
                          /\ offset[l] <= carried[l] /\ (l \notin present => offset[l] = carried[l])
      /\ "iowait" \in Kinds
  <2>1. \A c \in Cores, kind \in Kinds : ticks[c][kind] \in 1 .. events + 1
    BY DEF Sound
  <2>2. \A l \in Links : carried[l] \in 1 .. events + 1
    BY DEF Sound
  <2>3. \A n \in 1 .. events + 1 : n \in Nat /\ n <= events + 1
    BY <1>1
  <2>. QED  BY <2>1, <2>2, <2>3 DEF Sound, Wired, Seen, Kinds
<1>5. ASSUME NEW c \in Cores, NEW kind \in Kinds, Tick(c, kind)
      PROVE  Sound' /\ Since(Seen(TRUE), Seen(TRUE)')
  <2>1. /\ ticks' = [ticks EXCEPT ![c][kind] = @ + 1]
        /\ UNCHANGED <<slips, online, carried, offset, present>>
    BY <1>5 DEF Tick
  <2>2. \A d \in Cores, k \in Kinds :
          ticks'[d][k] = IF d = c /\ k = kind THEN ticks[d][k] + 1 ELSE ticks[d][k]
    BY <1>3, <2>1
  <2>3. \A d \in Cores, k \in Kinds : ticks'[d][k] \in 1 .. events' + 1 /\ ticks[d][k] <= ticks'[d][k]
    <3>1. \A d \in Cores, k \in Kinds : ticks[d][k] \in 1 .. events + 1
      BY DEF Sound
    <3>2. \A n \in 1 .. events + 1 : /\ n + 1 \in 1 .. events' + 1 /\ n \in 1 .. events' + 1
                                     /\ n <= n /\ n <= n + 1
      BY <1>1
    <3>. QED  BY <2>2, <3>1, <3>2
  <2>4. ticks' \in [Cores -> [Kinds -> 1 .. events' + 1]]
    <3>1. ticks' \in [Cores -> [Kinds -> Int]]
      BY <1>3, <2>1
    <3>. QED  BY <2>3, <3>1
  <2>5. \A d \in Cores : slips[d] <= ticks'[d]["iowait"]
    <3>. SUFFICES ASSUME NEW d \in Cores PROVE slips[d] <= ticks'[d]["iowait"]
      OBVIOUS
    <3>1. /\ slips[d] \in Nat /\ slips[d] <= ticks[d]["iowait"] /\ ticks[d]["iowait"] \in Nat
          /\ ticks[d]["iowait"] <= ticks'[d]["iowait"] /\ ticks'[d]["iowait"] \in 1 .. events' + 1
      BY <1>4, <2>3
    <3>. QED  BY <1>1, <3>1
  <2>6. Sound'
    BY <1>1, <1>3, <2>1, <2>4, <2>5 DEF Sound, Wired, Seen
  <2>7. Since(Seen(TRUE), Seen(TRUE)')
    <3>1. \A l \in Links : carried[l] <= carried[l]
      BY <1>4
    <3>. QED  BY <2>1, <2>3, <3>1 DEF Since, Seen
  <2>. QED  BY <2>6, <2>7
<1>6. ASSUME NEW c \in Cores, SlipBack(c)
      PROVE  Sound' /\ Since(Seen(TRUE), Seen(TRUE)')
  <2>1. /\ slips[c] < ticks[c]["iowait"] /\ slips' = [slips EXCEPT ![c] = @ + 1]
        /\ UNCHANGED <<ticks, online, carried, offset, present>>
    BY <1>6 DEF SlipBack
  <2>2. slips' \in [Cores -> Nat] /\ \A d \in Cores : slips'[d] <= ticks'[d]["iowait"]
    <3>1. slips \in [Cores -> Nat]
      BY DEF Sound
    <3>2. slips[c] \in Nat /\ ticks[c]["iowait"] \in Nat
      BY <1>4
    <3>3. slips[c] + 1 \in Nat /\ slips[c] + 1 <= ticks[c]["iowait"]
      BY <2>1, <3>2
    <3>. QED  BY <1>4, <2>1, <3>1, <3>3
  <2>3. Sound'
    BY <1>1, <1>3, <2>1, <2>2 DEF Sound, Wired, Seen
  <2>4. Since(Seen(TRUE), Seen(TRUE)')
    <3>1. /\ \A l \in Links : carried[l] <= carried[l]
          /\ \A d \in Cores, kind \in Kinds : ticks[d][kind] <= ticks[d][kind]
      BY <1>4
    <3>. QED  BY <2>1, <3>1 DEF Since, Seen
  <2>. QED  BY <2>3, <2>4
<1>7. ASSUME NEW c \in Cores, Plug(c)
      PROVE  Sound' /\ Since(Seen(TRUE), Seen(TRUE)')
  <2>1. /\ online' = SymDiff(online, {c})
        /\ UNCHANGED <<ticks, slips, carried, offset, present>>
    BY <1>7 DEF Plug
  <2>2. online' \in SUBSET Cores
    BY <2>1 DEF Sound, SymDiff
  <2>3. Sound'
    BY <1>1, <1>3, <2>1, <2>2 DEF Sound, Wired, Seen
  <2>4. Since(Seen(TRUE), Seen(TRUE)')
    <3>1. /\ \A l \in Links : carried[l] <= carried[l]
          /\ \A d \in Cores, kind \in Kinds : ticks[d][kind] <= ticks[d][kind]
      BY <1>4
    <3>. QED  BY <2>1, <3>1 DEF Since, Seen
  <2>. QED  BY <2>3, <2>4
<1>8. ASSUME NEW l \in Links, Receive(l)
      PROVE  Sound' /\ Since(Seen(TRUE), Seen(TRUE)')
  <2>1. /\ l \in present /\ carried' = [carried EXCEPT ![l] = @ + 1]
        /\ UNCHANGED <<ticks, slips, online, offset, present>>
    BY <1>8 DEF Receive
  <2>2. \A k \in Links : /\ carried'[k] = IF k = l THEN carried[k] + 1 ELSE carried[k]
                         /\ carried'[k] \in 1 .. events' + 1
                         /\ carried[k] <= carried'[k] /\ offset[k] <= carried'[k]
    <3>. SUFFICES ASSUME NEW k \in Links
                  PROVE  /\ carried'[k] = IF k = l THEN carried[k] + 1 ELSE carried[k]
                         /\ carried'[k] \in 1 .. events' + 1
                         /\ carried[k] <= carried'[k] /\ offset[k] <= carried'[k]
      OBVIOUS
    <3>1. carried'[k] = IF k = l THEN carried[k] + 1 ELSE carried[k]
      BY <1>3, <2>1
    <3>2. carried[k] \in 1 .. events + 1
      BY DEF Sound
    <3>3. offset[k] \in Nat /\ offset[k] <= carried[k]
      BY <1>4
    <3>. QED  BY <1>1, <3>1, <3>2, <3>3
  <2>3. carried' \in [Links -> 1 .. events' + 1]
    <3>1. carried' \in [Links -> Int]
      BY <1>3, <2>1
    <3>. QED  BY <2>2, <3>1
  <2>4. \A k \in Links : k \notin present => offset[k] = carried'[k]
    BY <1>4, <2>1, <2>2
  <2>5. Sound'
    BY <1>1, <1>3, <2>1, <2>2, <2>3, <2>4 DEF Sound, Wired, Seen
  <2>6. Since(Seen(TRUE), Seen(TRUE)')
    <3>1. \A d \in Cores, kind \in Kinds : ticks[d][kind] <= ticks[d][kind]
      BY <1>4
    <3>. QED  BY <2>1, <2>2, <3>1 DEF Since, Seen
  <2>. QED  BY <2>5, <2>6
<1>9. ASSUME NEW l \in Links, Rewire(l)
      PROVE  Sound' /\ Since(Seen(TRUE), Seen(TRUE)')
  <2>1. /\ present' = SymDiff(present, {l}) /\ offset' = [offset EXCEPT ![l] = carried[l]]
        /\ UNCHANGED <<ticks, slips, online, carried>>
    BY <1>9 DEF Rewire
  <2>2. /\ offset' \in [Links -> Nat]
        /\ \A k \in Links : offset'[k] = IF k = l THEN carried[k] ELSE offset[k]
    <3>1. offset \in [Links -> Nat] /\ carried[l] \in Nat
      BY <1>4 DEF Sound
    <3>. QED  BY <2>1, <3>1
  <2>3. /\ present' \in SUBSET Links
        /\ \A k \in Links : k # l => (k \in present' <=> k \in present)
    BY <2>1 DEF Sound, SymDiff
  <2>4. \A k \in Links : /\ offset'[k] <= carried[k]
                         /\ k \notin present' => offset'[k] = carried[k]
                         /\ offset'[k] = offset[k] \/ carried[k] <= offset'[k]
    <3>1. \A k \in Links : carried[k] <= carried[k]
      BY <1>4
    <3>. QED  BY <1>4, <2>2, <2>3, <3>1
  <2>5. Sound'
    BY <1>1, <1>3, <2>1, <2>2, <2>3, <2>4 DEF Sound, Wired, Seen
  <2>6. Since(Seen(TRUE), Seen(TRUE)')
    <3>1. /\ \A k \in Links : carried[k] <= carried[k]
          /\ \A d \in Cores, kind \in Kinds : ticks[d][kind] <= ticks[d][kind]
      BY <1>4
    <3>. QED  BY <2>1, <2>4, <3>1 DEF Since, Seen
  <2>. QED  BY <2>5, <2>6
<1>. QED  BY <1>1, <1>5, <1>6, <1>7, <1>8, <1>9 DEF MachineStep

-----------------------------------------------------------------------------
LEMMA MinOfTwo ==
  ASSUME NEW a \in Nat, NEW b \in Nat
  PROVE  Min({a, b}) = IF a <= b THEN a ELSE b
<1>1. {a, b} \in SUBSET Int /\ a \in {a, b} /\ b \in {a, b}
  OBVIOUS
<1>2. CASE a <= b
  <2>1. \A n \in {a, b} : a <= n
    BY <1>2
  <2>. QED  BY <1>1, <1>2, <2>1, MinIs
<1>3. CASE ~ (a <= b)
  <2>1. \A n \in {a, b} : b <= n
    BY <1>3
  <2>. QED  BY <1>1, <1>3, <2>1, MinIs
<1>. QED  BY <1>2, <1>3

(* A scan remembers the machine as it is. *)
LEMMA ScanRemembers ==
  ASSUME SInv, NEW readable \in BOOLEAN, Scan(readable)
  PROVE  /\ Sound' /\ Remembered' /\ memory' = memory
         /\ then' = last /\ last' = Seen(readable)
         /\ sample'.cpu = CpuOf(last') /\ SumNet(sample'.nets) = Counted(last')
         /\ sample'.mem = ParseMeminfo(MemFile)
         /\ DOMAIN sample' = {"cpu", "mem", "nets"}
<1>1. UNCHANGED <<ticks, slips, online, carried, offset, present, memory, events>>
  BY DEF Scan, machineVars
<1>2. then' = last /\ last' = Seen(readable)
  BY DEF Scan, Seen
<1>3. Sound'
  BY <1>1 DEF SInv, Sound, Wired, Seen
<1>4. Sound
  BY DEF SInv
<1>5. Seen(readable) \in Machine /\ Wired(Seen(readable))
  BY <1>4, SeenMachine
<1>6. /\ sample'.cpu = ParseProcStat(StatFile)
      /\ sample'.mem = ParseMeminfo(MemFile)
      /\ sample'.nets = IF readable THEN ParseNetDev(NetDevFile) ELSE <<>>
      /\ DOMAIN sample' = {"cpu", "mem", "nets"}
  BY DEF Scan
<1>7. sample'.cpu = CpuOf(last') /\ SumNet(sample'.nets) = Counted(last')
  BY <1>2, <1>5, <1>6, StatParsed, NetCounted
<1>8. Since(last', Seen(TRUE)')
  <2>1. /\ \A c \in Cores, kind \in Kinds : ticks[c][kind] <= ticks[c][kind]
        /\ \A l \in Links : carried[l] <= carried[l]
    <3>1. /\ \A c \in Cores, kind \in Kinds : ticks[c][kind] \in Nat
          /\ \A l \in Links : carried[l] \in Nat
      BY <1>5 DEF Machine, Seen
    <3>. QED  BY <3>1
  <2>. QED  BY <1>1, <1>2, <2>1 DEF Since, Seen
<1>9. Remembered'
  BY <1>2, <1>5, <1>7, <1>8 DEF Remembered
<1>. QED  BY <1>1, <1>2, <1>3, <1>6, <1>7, <1>9

(* The percentages of the cores, and how many there are. *)
CorePcts(was, now) ==
  LET a == Ascending(now.online)  b == Ascending(was.online)
  IN PerCpuPct([i \in DOMAIN a |-> Columns(now, {a[i]})], [i \in DOMAIN b |-> Columns(was, {b[i]})])

Positions(was, now) == Min({Len(Ascending(now.online)), Len(Ascending(was.online))})

(* What the two samples are of, when there are two. *)
LEMMA ScanRates ==
  ASSUME SInv, NEW readable \in BOOLEAN, Scan(readable), rates' # None
  PROVE  /\ then' \in Machine /\ last' \in Machine
         /\ Wired(then') /\ Wired(last') /\ Since(then', last')
         /\ rates'.cpu_pct = CpuPct(Columns(last', Cores), Columns(then', Cores))
         /\ rates'.per_cpu_pct = CorePcts(then', last')
         /\ rates'.mem_used = MemUsed(ParseMeminfo(MemFile))
         /\ rates'.net_rx_bps = SaturatingSub(Counted(last'), Counted(then'))
<1>1. rates' = SystemRate(sample, sample') /\ sample # None
  BY DEF Scan
<1>2. /\ last \in Machine /\ Wired(last) /\ Since(last, Seen(TRUE))
      /\ sample.cpu = CpuOf(last)
      /\ SumNet(sample.nets) = Counted(last)
  BY <1>1 DEF SInv, Remembered
<1>3. /\ then' = last /\ last' = Seen(readable)
      /\ sample'.cpu = CpuOf(last') /\ SumNet(sample'.nets) = Counted(last')
      /\ sample'.mem = ParseMeminfo(MemFile)
  BY ScanRemembers
<1>4. Seen(readable) \in Machine /\ Wired(Seen(readable))
  BY SeenMachine DEF SInv
<1>5. Since(last, Seen(readable))
  BY <1>2 DEF Since, Seen
<1>6. /\ rates'.cpu_pct = CpuPct(sample'.cpu.total, sample.cpu.total)
      /\ rates'.per_cpu_pct = PerCpuPct(sample'.cpu.per_cpu, sample.cpu.per_cpu)
      /\ rates'.mem_used = MemUsed(sample'.mem)
      /\ rates'.net_rx_bps = SaturatingSub(SumNet(sample'.nets), SumNet(sample.nets))
  BY <1>1 DEF SystemRate
<1>7. \A m : /\ CpuOf(m).total = Columns(m, Cores)
             /\ CpuOf(m).per_cpu = [i \in DOMAIN Ascending(m.online) |->
                                      Columns(m, {Ascending(m.online)[i]})]
  BY DEF CpuOf
<1>8. rates'.per_cpu_pct = CorePcts(then', last')
  BY <1>2, <1>3, <1>6, <1>7 DEF CorePcts
<1>. QED  BY <1>2, <1>3, <1>4, <1>5, <1>6, <1>7, <1>8

(* One percentage for each position both samples have. *)
LEMMA PerCore ==
  ASSUME NEW was \in Machine, NEW now \in Machine
  PROVE  /\ Positions(was, now) \in Nat
         /\ CorePcts(was, now) \in [1 .. Positions(was, now) -> 0 .. 100]
         /\ \A i \in 1 .. Positions(was, now) :
              /\ Ascending(now.online)[i] \in Cores /\ Ascending(was.online)[i] \in Cores
              /\ CorePcts(was, now)[i] = CpuPct(Columns(now, {Ascending(now.online)[i]}),
                                                Columns(was, {Ascending(was.online)[i]}))
<1>. DEFINE a == Ascending(now.online)
            b == Ascending(was.online)
            pcts == CorePcts(was, now)
            m == Min({Len(a), Len(b)})
            x == [i \in DOMAIN a |-> Columns(now, {a[i]})]
            y == [i \in DOMAIN b |-> Columns(was, {b[i]})]
<1>1. ASSUME NEW S \in SUBSET Cores
      PROVE  Cardinality(S) \in Nat /\ Ascending(S) \in [1 .. Cardinality(S) -> S]
  <2>1. S \in SUBSET Int /\ IsFiniteSet(S)
    BY SystemAssumption, CoresAreFinite
  <2>. QED  BY <2>1, AscendingType
<1>2. PICK n \in Nat : a \in [1 .. n -> Cores]
  <2>1. now.online \in SUBSET Cores
    BY DEF Machine
  <2>2. Cardinality(now.online) \in Nat /\ a \in [1 .. Cardinality(now.online) -> now.online]
    BY <1>1, <2>1
  <2>. QED  BY <2>1, <2>2
<1>3. PICK k \in Nat : b \in [1 .. k -> Cores]
  <2>1. was.online \in SUBSET Cores
    BY DEF Machine
  <2>2. Cardinality(was.online) \in Nat /\ b \in [1 .. Cardinality(was.online) -> was.online]
    BY <1>1, <2>1
  <2>. QED  BY <2>1, <2>2
<1>4. /\ Len(a) = n /\ DOMAIN a = 1 .. n /\ Len(b) = k /\ DOMAIN b = 1 .. k
      /\ Len(x) = n /\ Len(y) = k
  BY <1>2, <1>3
<1>5. m \in Nat /\ m <= n /\ m <= k
  <2>1. m = IF n <= k THEN n ELSE k
    BY <1>4, MinOfTwo
  <2>. HIDE DEF m
  <2>. QED  BY <2>1
<1>6. pcts = [i \in 1 .. m |-> CpuPct(x[i], y[i])]
  BY <1>4 DEF PerCpuPct, CorePcts
<1>7. \A i \in 1 .. m : i \in 1 .. n /\ i \in 1 .. k
  <2>. HIDE DEF m
  <2>. QED  BY <1>5
<1>8. \A i \in 1 .. m : /\ a[i] \in Cores /\ b[i] \in Cores
                        /\ x[i] = Columns(now, {a[i]}) /\ y[i] = Columns(was, {b[i]})
  <2>. HIDE DEF m
  <2>. QED  BY <1>2, <1>3, <1>4, <1>7
<1>. HIDE DEF a, b, m, x, y, pcts
<1>9. \A i \in 1 .. m : pcts[i] = CpuPct(Columns(now, {a[i]}), Columns(was, {b[i]}))
  BY <1>6, <1>8
<1>10. \A i \in 1 .. m : pcts[i] \in 0 .. 100
  <2>. SUFFICES ASSUME NEW i \in 1 .. m PROVE pcts[i] \in 0 .. 100
    OBVIOUS
  <2>1. {a[i]} \in SUBSET Cores /\ {b[i]} \in SUBSET Cores
    BY <1>8
  <2>2. CpuPct(Columns(now, {a[i]}), Columns(was, {b[i]})) \in 0 .. 100
    BY <2>1, PctInRange
  <2>. QED  BY <1>9, <2>2
<1>11. pcts \in [1 .. m -> 0 .. 100]
  BY <1>6, <1>10
<1>12. Positions(was, now) = m
  BY DEF Positions, a, b, m
<1>. QED  BY <1>5, <1>8, <1>9, <1>11, <1>12 DEF a, b, pcts

(* After a scan the rates are what the properties say. *)
LEMMA ScanReports ==
  ASSUME SInv, NEW readable \in BOOLEAN, Scan(readable)
  PROVE  Typed' /\ Reported'
<1>1. DOMAIN sample' = {"cpu", "mem", "nets"} /\ memory' = memory
  BY ScanRemembers
<1>2. CASE rates' = None
  BY <1>1, <1>2 DEF Typed, Reported, PercentsAreBounded, CpuIsBusyShare, CoresAreTheirOwn,
                    NetRateIsTraffic, UsedCannotBeHandedOut
<1>3. CASE rates' # None
  <2>0. PICK was, now, a, b, pcts, m :
          /\ was = then' /\ now = last' /\ pcts = rates'.per_cpu_pct
          /\ a = Ascending(now.online) /\ b = Ascending(was.online) /\ m = Positions(was, now)
    OBVIOUS
  <2>1. /\ was \in Machine /\ now \in Machine
        /\ Wired(was) /\ Wired(now) /\ Since(was, now)
        /\ rates'.cpu_pct = CpuPct(Columns(now, Cores), Columns(was, Cores))
        /\ pcts = CorePcts(was, now)
        /\ rates'.mem_used = MemUsed(ParseMeminfo(MemFile))
        /\ rates'.net_rx_bps = SaturatingSub(Counted(now), Counted(was))
    <3>1. /\ then' \in Machine /\ last' \in Machine
          /\ Wired(then') /\ Wired(last') /\ Since(then', last')
          /\ rates'.cpu_pct = CpuPct(Columns(last', Cores), Columns(then', Cores))
          /\ rates'.per_cpu_pct = CorePcts(then', last')
          /\ rates'.mem_used = MemUsed(ParseMeminfo(MemFile))
          /\ rates'.net_rx_bps = SaturatingSub(Counted(last'), Counted(then'))
      BY <1>3, ScanRates
    <3>. QED  BY <2>0, <3>1
  <2>2. rates'.cpu_pct \in 0 .. 100
    BY <2>1, PctInRange
  <2>3. /\ m \in Nat
        /\ pcts \in [1 .. m -> 0 .. 100]
        /\ \A i \in 1 .. m :
             /\ a[i] \in Cores /\ b[i] \in Cores
             /\ pcts[i] = CpuPct(Columns(now, {a[i]}), Columns(was, {b[i]}))
    <3>1. /\ Positions(was, now) \in Nat
          /\ CorePcts(was, now) \in [1 .. Positions(was, now) -> 0 .. 100]
          /\ \A i \in 1 .. Positions(was, now) :
               /\ Ascending(now.online)[i] \in Cores /\ Ascending(was.online)[i] \in Cores
               /\ CorePcts(was, now)[i] = CpuPct(Columns(now, {Ascending(now.online)[i]}),
                                                 Columns(was, {Ascending(was.online)[i]}))
      BY <2>1, PerCore
    <3>2. m = Positions(was, now) /\ pcts = CorePcts(was, now)
          /\ a = Ascending(now.online) /\ b = Ascending(was.online)
      BY <2>0, <2>1
    <3>3. m \in Nat /\ pcts \in [1 .. m -> 0 .. 100]
      BY <3>1, <3>2
    <3>4. ASSUME NEW i \in 1 .. m
          PROVE  /\ a[i] \in Cores /\ b[i] \in Cores
                 /\ pcts[i] = CpuPct(Columns(now, {a[i]}), Columns(was, {b[i]}))
      BY <3>1, <3>2
    <3>. QED  BY <3>3, <3>4
  <2>4. /\ rates'.mem_used \in Nat
        /\ rates'.mem_used = IF memory.reports /\ memory.free + memory.cache > 0
                               THEN memory.shared + memory.used
                               ELSE memory.used
    <3>1. memory \in [free : Nat, cache : Nat, shared : Nat, used : Nat, reports : BOOLEAN]
      BY SystemAssumption DEF SInv, Sound
    <3>2. /\ memory.free \in Nat /\ memory.cache \in Nat /\ memory.shared \in Nat /\ memory.used \in Nat
          /\ memory.reports \in BOOLEAN
      BY <3>1
    <3>. QED  BY <2>1, <3>2, MemoryParsed
  <2>5. /\ rates'.net_rx_bps \in Nat
        /\ then'.net_read =>
             /\ rates'.net_rx_bps <= ReceivedBetween(then', last')
             /\ UndisturbedBetween(then', last') /\ last'.net_read =>
                  rates'.net_rx_bps = ReceivedBetween(then', last')
    BY <2>0, <2>1, TrafficBetween
  <2>6. Typed'
    <3>1. rates'.cpu_pct \in Nat
      BY <2>2
    <3>2. rates'.per_cpu_pct \in Seq(Nat)
      <4>1. pcts \in [1 .. m -> Nat]
        <5>1. \A p \in 0 .. 100 : p \in Nat
          OBVIOUS
        <5>. QED  BY <2>3, <5>1
      <4>. QED  BY <2>0, <2>3, <4>1
    <3>. QED  BY <1>1, <2>4, <2>5, <3>1, <3>2 DEF Typed
  <2>7. PercentsAreBounded'
    <3>1. \A p \in Range(rates'.per_cpu_pct) : p \in 0 .. 100
      <4>1. DOMAIN pcts = 1 .. m /\ \A i \in 1 .. m : pcts[i] \in 0 .. 100
        BY <2>3
      <4>2. \A p \in Range(pcts) : \E i \in 1 .. m : p = pcts[i]
        BY <4>1 DEF Range
      <4>3. rates'.per_cpu_pct = pcts
        BY <2>0
      <4>4. \A p \in Range(pcts) : p \in 0 .. 100
        <5>. SUFFICES ASSUME NEW p \in Range(pcts) PROVE p \in 0 .. 100
          OBVIOUS
        <5>1. PICK i \in 1 .. m : p = pcts[i]
          BY <4>2
        <5>2. pcts[i] \in 0 .. 100
          BY <4>1
        <5>. QED  BY <5>1, <5>2
      <4>. QED  BY <4>3, <4>4
    <3>2. \A p \in {rates'.cpu_pct} \cup Range(rates'.per_cpu_pct) : p \in 0 .. 100
      BY <2>2, <3>1
    <3>. QED  BY <3>2 DEF PercentsAreBounded
  <2>8. CpuIsBusyShare'
    <3>1. ASSUME \A c \in Cores : last'.slips[c] = then'.slips[c]
          PROVE  rates'.cpu_pct = ShareBetween(then', last', Cores)
      BY <2>0, <2>1, <3>1, SharesAreRead
    <3>2. BusyShare(Cores)' = ShareBetween(then', last', Cores)
      BY DEF BusyShare, Spent, ShareBetween, SpentBetween
    <3>3. Steady(Cores)' = \A c \in Cores : last'.slips[c] = then'.slips[c]
      BY DEF Steady
    <3>. QED  BY <3>1, <3>2, <3>3 DEF CpuIsBusyShare
  <2>9. CoresAreTheirOwn'
    <3>1. Len(pcts) = m /\ DOMAIN pcts = 1 .. m
      BY <2>3
    <3>2. ASSUME NEW i \in 1 .. m, a[i] = b[i], \A c \in {a[i]} : now.slips[c] = was.slips[c]
          PROVE  pcts[i] = ShareBetween(was, now, {a[i]})
      <4>1. {a[i]} \in SUBSET Cores
        BY <2>3
      <4>2. was \in Machine /\ now \in Machine /\ Wired(was) /\ Wired(now) /\ Since(was, now)
        BY <2>0, <2>1
      <4>3. CpuPct(Columns(now, {a[i]}), Columns(was, {a[i]})) = ShareBetween(was, now, {a[i]})
        BY <3>2, <4>1, <4>2, SharesAreRead
      <4>. QED  BY <2>3, <3>2, <4>3
    <3>3. \A S : BusyShare(S)' = ShareBetween(then', last', S)
      BY DEF BusyShare, Spent, ShareBetween, SpentBetween
    <3>4. \A S : Steady(S)' = \A c \in S : last'.slips[c] = then'.slips[c]
      BY DEF Steady
    <3>5. ASSUME NEW i \in 1 .. m, a[i] = b[i], Steady({a[i]})'
          PROVE  pcts[i] = BusyShare({a[i]})'
      <4>1. \A c \in {a[i]} : now.slips[c] = was.slips[c]
        BY <2>0, <3>4, <3>5
      <4>2. pcts[i] = ShareBetween(was, now, {a[i]})
        BY <3>2, <3>5, <4>1
      <4>. QED  BY <2>0, <3>3, <4>2
    <3>6. Ascending(last'.online) = a /\ Ascending(then'.online) = b /\ rates'.per_cpu_pct = pcts
          /\ m = Min({Len(a), Len(b)})
      BY <2>0 DEF Positions
    <3>. QED  BY <3>1, <3>5, <3>6 DEF CoresAreTheirOwn
  <2>10. NetRateIsTraffic'
    <3>1. Received' = ReceivedBetween(then', last')
      BY DEF Received, ReceivedBetween
    <3>2. Undisturbed' = UndisturbedBetween(then', last')
      BY DEF Undisturbed, UndisturbedBetween
    <3>. QED  BY <2>5, <3>1, <3>2 DEF NetRateIsTraffic
  <2>11. UsedCannotBeHandedOut'
    BY <1>1, <2>4 DEF UsedCannotBeHandedOut
  <2>. QED  BY <2>6, <2>7, <2>8, <2>9, <2>10, <2>11 DEF Reported
<1>. QED  BY <1>2, <1>3

(* Between scans nothing is reported anew. *)
LEMMA ReportStays ==
  ASSUME SInv, UNCHANGED <<memory, sample, rates, then, last>>
  PROVE  Typed' /\ Reported'
<1>1. Typed'
  BY DEF SInv, Typed
<1>2. PercentsAreBounded'
  BY DEF SInv, Reported, PercentsAreBounded
<1>3. CpuIsBusyShare'
  BY DEF SInv, Reported, CpuIsBusyShare, BusyShare, Spent, Steady
<1>4. CoresAreTheirOwn'
  <2>1. /\ \A S : BusyShare(S)' = BusyShare(S)
        /\ \A S : Steady(S)' = Steady(S)
    BY DEF BusyShare, Spent, Steady
  <2>2. CoresAreTheirOwn /\ rates' = rates /\ then' = then /\ last' = last
    BY DEF SInv, Reported
  <2>. QED  BY <2>1, <2>2 DEF CoresAreTheirOwn
<1>5. NetRateIsTraffic'
  BY DEF SInv, Reported, NetRateIsTraffic, Received, Undisturbed
<1>6. UsedCannotBeHandedOut'
  BY DEF SInv, Reported, UsedCannotBeHandedOut
<1>. QED  BY <1>1, <1>2, <1>3, <1>4, <1>5, <1>6 DEF Reported

LEMMA MachineRemembered ==
  ASSUME SInv, MachineStep
  PROVE  Remembered'
<1>1. Sound' /\ Since(Seen(TRUE), Seen(TRUE)') /\ UNCHANGED <<memory, sample, rates, then, last>>
  BY MachineKeepsSound DEF SInv
<1>2. ASSUME sample # None
      PROVE  /\ last' \in Machine /\ Wired(last') /\ Since(last', Seen(TRUE)')
             /\ sample'.cpu = CpuOf(last') /\ SumNet(sample'.nets) = Counted(last')
  <2>1. /\ last \in Machine /\ Wired(last) /\ Since(last, Seen(TRUE))
        /\ sample.cpu = CpuOf(last) /\ SumNet(sample.nets) = Counted(last)
    BY <1>2 DEF SInv, Remembered
  <2>2. Seen(TRUE) \in Machine
    BY SeenMachine DEF SInv
  <2>3. Seen(TRUE)' \in Machine
    <3>1. Seen(TRUE)' = [ticks |-> ticks', slips |-> slips', online |-> online', carried |-> carried',
                         offset |-> offset', present |-> present', net_read |-> TRUE]
      BY DEF Seen
    <3>2. events' \in Nat /\ 1 .. events' + 1 \subseteq Nat
      <4>1. events' \in 0 .. MaxEvents /\ MaxEvents \in Nat
        BY <1>1, SystemAssumption DEF Sound
      <4>2. \A n \in 0 .. MaxEvents : n \in Nat /\ 1 .. n + 1 \subseteq Nat
        BY <4>1
      <4>. QED  BY <4>1, <4>2
    <3>3. ticks' \in [Cores -> [Kinds -> Nat]] /\ carried' \in [Links -> Nat]
      <4>1. /\ ticks' \in [Cores -> [Kinds -> 1 .. events' + 1]]
            /\ carried' \in [Links -> 1 .. events' + 1]
        BY <1>1 DEF Sound
      <4>. QED  BY <3>2, <4>1
    <3>4. slips' \in [Cores -> Nat] /\ online' \in SUBSET Cores /\ offset' \in [Links -> Nat]
          /\ present' \in SUBSET Links
      BY <1>1 DEF Sound
    <3>5. TRUE \in BOOLEAN
      OBVIOUS
    <3>6. [ticks |-> ticks', slips |-> slips', online |-> online', carried |-> carried',
           offset |-> offset', present |-> present', net_read |-> TRUE] \in Machine
      BY ONLY <3>3, <3>4, <3>5 DEF Machine
    <3>. QED  BY ONLY <3>1, <3>6
  <2>4. Since(last, Seen(TRUE)')
    BY <1>1, <2>1, <2>2, <2>3, SinceThen
  <2>. QED  BY <1>1, <2>1, <2>4
<1>. QED  BY <1>1, <1>2 DEF Remembered

LEMMA SInvInit == Init => SInv
<1>. SUFFICES ASSUME Init PROVE SInv
  OBVIOUS
<1>1. /\ events = 0 /\ memory \in Memories /\ online = Cores /\ present = Links
      /\ sample = None /\ rates = None
      /\ ticks = [c \in Cores |-> [kind \in Kinds |-> 1]] /\ slips = [c \in Cores |-> 0]
      /\ carried = [l \in Links |-> 1] /\ offset = [l \in Links |-> 0]
  BY DEF Init
<1>2. 0 \in 0 .. MaxEvents /\ 1 \in 1 .. 0 + 1 /\ 0 \in Nat /\ 0 <= 1
  BY SystemAssumption
<1>3. "iowait" \in Kinds
  BY DEF Kinds
<1>4. Wired(Seen(TRUE))
  BY <1>1, <1>2 DEF Wired, Seen
<1>5. Sound
  BY <1>1, <1>2, <1>3, <1>4 DEF Sound
<1>6. Remembered /\ Typed /\ Reported
  BY <1>1 DEF Remembered, Typed, Reported, PercentsAreBounded, CpuIsBusyShare, CoresAreTheirOwn,
              NetRateIsTraffic, UsedCannotBeHandedOut
<1>. QED  BY <1>5, <1>6 DEF SInv

LEMMA SInvNext == SInv /\ [Next]_vars => SInv'
<1>. SUFFICES ASSUME SInv, [Next]_vars PROVE SInv'
  OBVIOUS
<1>1. CASE MachineStep
  <2>1. Sound' /\ UNCHANGED <<memory, sample, rates, then, last>>
    BY <1>1, MachineKeepsSound DEF SInv
  <2>2. Remembered'
    BY <1>1, MachineRemembered
  <2>3. Typed' /\ Reported'
    BY <2>1, ReportStays
  <2>. QED  BY <2>1, <2>2, <2>3 DEF SInv
<1>2. ASSUME NEW readable \in BOOLEAN, Scan(readable)
      PROVE  SInv'
  <2>1. Sound' /\ Remembered'
    BY <1>2, ScanRemembers
  <2>2. Typed' /\ Reported'
    BY <1>2, ScanReports
  <2>. QED  BY <2>1, <2>2 DEF SInv
<1>3. CASE UNCHANGED vars
  <2>1. UNCHANGED <<ticks, slips, online, carried, offset, present, memory, events,
                    sample, rates, then, last>>
    BY <1>3 DEF vars, machineVars
  <2>2. Sound'
    BY <2>1 DEF SInv, Sound, Wired, Seen
  <2>3. Remembered'
    <3>1. Seen(TRUE)' = Seen(TRUE)
      BY <2>1 DEF Seen
    <3>2. Remembered
      BY DEF SInv
    <3>. QED  BY <2>1, <3>1, <3>2 DEF Remembered
  <2>4. Typed' /\ Reported'
    BY <2>1, ReportStays
  <2>. QED  BY <2>2, <2>3, <2>4 DEF SInv
<1>. QED  BY <1>1, <1>2, <1>3 DEF Next, MachineStep

(* Every reachable state satisfies the inductive invariant. *)
THEOREM SystemInvariance == Spec => []SInv
BY SInvInit, SInvNext, PTL DEF Spec

LEMMA SInvTypes == SInv => TypeOK
<1>. SUFFICES ASSUME SInv PROVE TypeOK
  OBVIOUS
<1>1. events \in 0 .. MaxEvents /\ MaxEvents \in Nat
  BY SystemAssumption DEF SInv, Sound
<1>2. 1 .. events + 1 \subseteq 1 .. MaxEvents + 1
  BY <1>1
<1>3. ticks \in [Cores -> [Kinds -> 1 .. MaxEvents + 1]]
  <2>1. ticks \in [Cores -> [Kinds -> 1 .. events + 1]]
    BY DEF SInv, Sound
  <2>. QED  BY <1>2, <2>1
<1>4. \A c \in Cores : slips[c] \in 0 .. ticks[c]["iowait"]
  <2>. SUFFICES ASSUME NEW c \in Cores PROVE slips[c] \in 0 .. ticks[c]["iowait"]
    OBVIOUS
  <2>1. slips[c] \in Nat /\ slips[c] <= ticks[c]["iowait"]
    BY DEF SInv, Sound
  <2>2. ticks[c]["iowait"] \in 1 .. MaxEvents + 1
    BY <1>3 DEF Kinds
  <2>. QED  BY <2>1, <2>2
<1>5. \A l \in Links : carried[l] \in 1 .. MaxEvents + 1 /\ offset[l] \in 0 .. carried[l]
  <2>. SUFFICES ASSUME NEW l \in Links
                PROVE  carried[l] \in 1 .. MaxEvents + 1 /\ offset[l] \in 0 .. carried[l]
    OBVIOUS
  <2>1. carried[l] \in 1 .. events + 1 /\ offset[l] \in Nat
    BY DEF SInv, Sound
  <2>2. offset[l] <= carried[l]
    BY DEF SInv, Sound, Wired, Seen
  <2>. QED  BY <1>1, <2>1, <2>2
<1>. QED  BY <1>3, <1>4, <1>5 DEF SInv, Sound, Typed, TypeOK

-----------------------------------------------------------------------------
(* The machine and the rates are what they are declared to be: no rate is  *)
(* negative, whatever wraps, goes back or disappears (diff subtracts       *)
(* saturating).                                                            *)
THEOREM SystemTypes == Spec => []TypeOK
BY SystemInvariance, SInvTypes, PTL

(* No percentage of a snapshot leaves 0 .. 100 (pct clamps it).            *)
THEOREM PercentagesAre == Spec => []PercentsAreBounded
<1>1. SInv => PercentsAreBounded
  BY DEF SInv, Reported
<1>. QED  BY <1>1, SystemInvariance, PTL

(* cpu_pct is the share of the time the machine was busy, guest time       *)
(* counted once, for any number of cores on line or off (CpuTimes::total   *)
(* and busy).                                                              *)
THEOREM CpuIsBusy == Spec => []CpuIsBusyShare
<1>1. SInv => CpuIsBusyShare
  BY DEF SInv, Reported
<1>. QED  BY <1>1, SystemInvariance, PTL

(* A core's percentage is its own wherever both samples list it at that    *)
(* position, whichever cores came and went (diff zips the two).            *)
THEOREM CoresReported == Spec => []CoresAreTheirOwn
<1>1. SInv => CoresAreTheirOwn
  BY DEF SInv, Reported
<1>. QED  BY <1>1, SystemInvariance, PTL

(* The network rate never exceeds the traffic when the earlier sample read *)
(* net/dev, and is the traffic when no interface was disturbed (sum_net).  *)
THEOREM NetRateIsReal == Spec => []NetRateIsTraffic
<1>1. SInv => NetRateIsTraffic
  BY DEF SInv, Reported
<1>. QED  BY <1>1, SystemInvariance, PTL

(* What can be handed out is not counted as used, for any kernel and any   *)
(* state of the memory (parse_meminfo, MemInfo::used).                     *)
THEOREM UsedIsInUse == Spec => []UsedCannotBeHandedOut
<1>1. SInv => UsedCannotBeHandedOut
  BY DEF SInv, Reported
<1>. QED  BY <1>1, SystemInvariance, PTL

=============================================================================
