---------------------------- MODULE DataTheorems ----------------------------
(***************************************************************************)
(* Facts about the data that the models are built from: what the ends of a *)
(* sequence are after Append and Front, and what the sums of the community *)
(* modules come to, for any finite set and any function with integers on   *)
(* it.  The code adds up in loops over hash tables; the models add up with *)
(* SumFunctionOnSet, which takes an element away by CHOOSE and goes on     *)
(* with the rest.                                                          *)
(*                                                                         *)
(* The induction is on subsets of a finite set: were there one for which   *)
(* the statement is wrong, there would be a smallest one.                  *)
(***************************************************************************)
EXTENDS Integers, SequencesExt, SequenceTheorems, FiniteSetTheorems, TLAPS

\* What Front and Last return for a non-empty sequence.
LEMMA FrontLast ==
  ASSUME NEW S, NEW s \in Seq(S), s # << >>
  PROVE  /\ Len(s) \in Nat \ {0}
         /\ Last(s) = s[Len(s)] /\ Last(s) \in S
         /\ Front(s) \in Seq(S) /\ Len(Front(s)) = Len(s) - 1
         /\ \A i \in 1..(Len(s) - 1) : Front(s)[i] = s[i]
<1>1. Len(s) \in Nat \ {0}
  BY EmptySeq
<1>2. \A i \in 1..Len(s) : s[i] \in S
  BY ElementOfSeq
<1>3. /\ Front(s) \in Seq(S)
      /\ Len(Front(s)) = IF 1 <= Len(s) - 1 THEN Len(s) - 1 - 1 + 1 ELSE 0
      /\ \A i \in 1..(Len(s) - 1 - 1 + 1) : Front(s)[i] = s[1 + i - 1]
  BY <1>1, <1>2, SubSeqProperties DEF Front
<1>4. \A i \in 1..(Len(s) - 1) : Front(s)[i] = s[i]
  <2> TAKE i \in 1..(Len(s) - 1)
  <2>1. i \in 1..(Len(s) - 1 - 1 + 1) /\ 1 + i - 1 = i
    BY <1>1
  <2> QED
    BY <1>3, <2>1
<1>5. Last(s) = s[Len(s)] /\ Last(s) \in S
  BY <1>1, <1>2 DEF Last
<1>6. Len(Front(s)) = Len(s) - 1
  <2>1. CASE Len(s) = 1
    BY <1>3, <2>1
  <2>2. CASE Len(s) # 1
    <3>1. \A n \in Nat \ {0, 1} : 1 <= n - 1 /\ n - 1 - 1 + 1 = n - 1
      OBVIOUS
    <3> QED
      BY <1>1, <1>3, <2>2, <3>1
  <2> QED
    BY <2>1, <2>2
<1> QED
  BY <1>1, <1>3, <1>4, <1>5, <1>6

\* What Append returns.
LEMMA AppendLast ==
  ASSUME NEW S, NEW s \in Seq(S), NEW e \in S
  PROVE  /\ Append(s, e) \in Seq(S) /\ Append(s, e) # << >>
         /\ Len(Append(s, e)) = Len(s) + 1
         /\ Last(Append(s, e)) = e
         /\ \A i \in 1..Len(s) : Append(s, e)[i] = s[i]
         /\ Append(s, e)[Len(s) + 1] = e
BY DEF Last

-----------------------------------------------------------------------------
\* Among some subsets of a finite set there is a smallest one.
LEMMA SmallestSubset ==
  ASSUME NEW S, IsFiniteSet(S), NEW B \in SUBSET (SUBSET S), B # {}
  PROVE  \E s \in B : \A t \in B : t \subseteq s => t = s
<1>1. IsWellFoundedOn(StrictSubsetOrdering(S), FiniteSubsetsOf(S))
  BY FS_StrictSubsetOrderingWellFounded
<1>2. FiniteSubsetsOf(S) = SUBSET S
  BY FS_FiniteSubsetsOfFinite
<1>3. \E s \in B : \A t \in B : ~ (<<t, s>> \in StrictSubsetOrdering(S))
  BY <1>1, <1>2, WFMin
<1> QED
  BY <1>3 DEF StrictSubsetOrdering

\* g gives the sum of every subset of S, as SumFunctionOnSet computes it.
IsSums(g, fun, S) ==
  g = [s \in SUBSET S |->
         IF s = {} THEN 0
         ELSE fun[CHOOSE x \in s : TRUE] + g[s \ {CHOOSE x \in s : TRUE}]]

\* A sum is taken from a function that gives the sum of every subset.
LEMMA SumUnfolded ==
  ASSUME NEW fun, NEW S
  PROVE  SumFunctionOnSet(fun, S) = (CHOOSE g : IsSums(g, fun, S))[S]
BY DEF SumFunctionOnSet, FoldFunctionOnSet, MapThenFoldSet, IsSums

\* Two such functions agree wherever both are defined.
LEMMA SumsAgree ==
  ASSUME NEW fun, NEW S, NEW T, IsFiniteSet(S), NEW g, NEW h,
         IsSums(g, fun, S), IsSums(h, fun, T)
  PROVE  \A s \in SUBSET S : s \subseteq T => g[s] = h[s]
<1> DEFINE B == {s \in SUBSET S : s \subseteq T /\ g[s] # h[s]}
<1> SUFFICES ASSUME B # {}
             PROVE  FALSE
  OBVIOUS
<1>1. PICK s \in B : \A t \in B : t \subseteq s => t = s
  <2> HIDE DEF B
  <2>1. B \in SUBSET SUBSET S
    BY DEF B
  <2> QED
    BY <2>1, SmallestSubset
<1>2. s \in SUBSET S /\ s \in SUBSET T
  BY <1>1
<1>3. g[s] = IF s = {} THEN 0
         ELSE fun[CHOOSE x \in s : TRUE] + g[s \ {CHOOSE x \in s : TRUE}]
  BY <1>2 DEF IsSums
<1>4. h[s] = IF s = {} THEN 0
         ELSE fun[CHOOSE x \in s : TRUE] + h[s \ {CHOOSE x \in s : TRUE}]
  BY <1>2 DEF IsSums
<1>5. s # {}
  BY <1>1, <1>3, <1>4
<1> DEFINE rest == s \ {CHOOSE x \in s : TRUE}
<1>6. rest \subseteq s /\ rest # s
  BY <1>5
<1>7. g[rest] # h[rest]
  BY <1>1, <1>3, <1>4, <1>5
<1> QED
  BY <1>1, <1>2, <1>6, <1>7

\* There is such a function for every finite set.
LEMMA SumsExist ==
  ASSUME NEW fun, NEW S, IsFiniteSet(S)
  PROVE  \E g : IsSums(g, fun, S)
<1> DEFINE B == {T \in SUBSET S : \A g : ~ IsSums(g, fun, T)}
<1> SUFFICES ASSUME B # {}
             PROVE  FALSE
  OBVIOUS
<1>1. PICK T \in B : \A t \in B : t \subseteq T => t = T
  <2> HIDE DEF B
  <2>1. B \in SUBSET SUBSET S
    BY DEF B
  <2> QED
    BY <2>1, SmallestSubset
<1> DEFINE h(t) == CHOOSE g : IsSums(g, fun, t)
           rest(s) == s \ {CHOOSE x \in s : TRUE}
           g == [s \in SUBSET T |-> IF s = {} THEN 0
                   ELSE fun[CHOOSE x \in s : TRUE] + h(rest(s))[rest(s)]]
<1>2. \A t \in SUBSET T : t # T => IsSums(h(t), fun, t)
  BY <1>1
<1>3. \A s \in SUBSET T : s # {} => g[rest(s)] = h(rest(s))[rest(s)]
  <2> SUFFICES ASSUME NEW s \in SUBSET T, s # {}
               PROVE  g[rest(s)] = h(rest(s))[rest(s)]
    OBVIOUS
  <2> DEFINE t == rest(s)
  <2>1. t \in SUBSET T /\ t # T /\ IsFiniteSet(t)
    BY <1>1, FS_Subset
  <2>2. IsSums(h(t), fun, t)
    BY <1>2, <2>1
  <2> HIDE DEF t, h
  <2>3. h(t)[t] = IF t = {} THEN 0 ELSE fun[CHOOSE x \in t : TRUE] + h(t)[rest(t)]
    BY <2>2 DEF IsSums
  <2>4. g[t] = IF t = {} THEN 0 ELSE fun[CHOOSE x \in t : TRUE] + h(rest(t))[rest(t)]
    BY <2>1
  <2>5. ASSUME t # {}
        PROVE  h(t)[rest(t)] = h(rest(t))[rest(t)]
    <3>1. rest(t) \in SUBSET T /\ rest(t) # T /\ rest(t) \subseteq t /\ IsFiniteSet(rest(t))
      BY <2>1, <2>5, FS_Subset
    <3>2. IsSums(h(rest(t)), fun, rest(t))
      BY <1>2, <3>1
    <3> QED
      BY <2>2, <3>1, <3>2, SumsAgree
  <2> QED
    BY <2>3, <2>4, <2>5 DEF t
<1> HIDE DEF h
<1>4. ASSUME NEW s \in SUBSET T
      PROVE  g[s] = IF s = {} THEN 0 ELSE fun[CHOOSE x \in s : TRUE] + g[rest(s)]
  <2>1. g[s] = IF s = {} THEN 0
               ELSE fun[CHOOSE x \in s : TRUE] + h(rest(s))[rest(s)]
    OBVIOUS
  <2> HIDE DEF g
  <2> QED
    BY <2>1, <1>3
<1>5. g = [s \in SUBSET T |-> g[s]]
  OBVIOUS
<1> HIDE DEF g
<1>6. IsSums(g, fun, T)
  BY <1>4, <1>5 DEF IsSums
<1> QED
  BY <1>1, <1>6

\* The sum of nothing.
LEMMA SumOfNone ==
  ASSUME NEW fun
  PROVE  SumFunctionOnSet(fun, {}) = 0
<1> DEFINE g == CHOOSE h : IsSums(h, fun, {})
<1>1. IsSums(g, fun, {})
  BY SumsExist, FS_EmptySet
<1> HIDE DEF g
<1>2. g[{}] = 0
  BY <1>1 DEF IsSums
<1> QED
  BY <1>2, SumUnfolded DEF g

\* The definition of the sum, without the function of all sums.
LEMMA SumOfChosen ==
  ASSUME NEW fun, NEW S, IsFiniteSet(S), S # {}
  PROVE  LET x == CHOOSE y \in S : TRUE
         IN  SumFunctionOnSet(fun, S) = fun[x] + SumFunctionOnSet(fun, S \ {x})
<1> DEFINE x == CHOOSE y \in S : TRUE
           rest == S \ {x}
           g == CHOOSE h : IsSums(h, fun, S)
           k == CHOOSE h : IsSums(h, fun, rest)
<1>1. IsSums(g, fun, S)
  BY SumsExist
<1>2. IsFiniteSet(rest)
  BY FS_RemoveElement
<1>3. IsSums(k, fun, rest)
  BY <1>2, SumsExist
<1>4. SumFunctionOnSet(fun, S) = g[S] /\ SumFunctionOnSet(fun, rest) = k[rest]
  BY SumUnfolded
<1> HIDE DEF g, k
<1>5. g[S] = fun[x] + g[rest]
  BY <1>1 DEF IsSums
<1>6. g[rest] = k[rest]
  BY <1>1, <1>3, SumsAgree
<1> QED
  BY <1>4, <1>5, <1>6

\* A sum of integers is an integer.
LEMMA SumIsInt ==
  ASSUME NEW S, IsFiniteSet(S), NEW fun, \A x \in S : fun[x] \in Int
  PROVE  SumFunctionOnSet(fun, S) \in Int
<1> DEFINE B == {T \in SUBSET S : SumFunctionOnSet(fun, T) \notin Int}
<1> SUFFICES ASSUME B # {}
             PROVE  FALSE
  OBVIOUS
<1>1. PICK T \in B : \A t \in B : t \subseteq T => t = T
  <2> HIDE DEF B
  <2>1. B \in SUBSET SUBSET S
    BY DEF B
  <2> QED
    BY <2>1, SmallestSubset
<1>2. T # {}
  <2>1. SumFunctionOnSet(fun, {}) \in Int
    BY SumOfNone
  <2>2. SumFunctionOnSet(fun, T) \notin Int
    BY <1>1
  <2> QED
    BY <2>1, <2>2
<1>3. IsFiniteSet(T)
  BY <1>1, FS_Subset
<1> DEFINE x == CHOOSE y \in T : TRUE
<1>4. x \in T /\ SumFunctionOnSet(fun, T) = fun[x] + SumFunctionOnSet(fun, T \ {x})
  BY <1>2, <1>3, SumOfChosen
<1>5. SumFunctionOnSet(fun, T \ {x}) \in Int
  BY <1>1, <1>4
<1> QED
  BY <1>1, <1>4, <1>5

\* Whichever element is taken away first, the sum is the same: the order in
\* which a loop goes through a table does not matter.
THEOREM SumOfOneAndRest ==
  ASSUME NEW S, IsFiniteSet(S), NEW fun, \A y \in S : fun[y] \in Int, NEW x \in S
  PROVE  SumFunctionOnSet(fun, S) = fun[x] + SumFunctionOnSet(fun, S \ {x})
<1> DEFINE sum(T) == SumFunctionOnSet(fun, T)
           B == {T \in SUBSET S : \E y \in T : sum(T) # fun[y] + sum(T \ {y})}
<1> SUFFICES ASSUME B # {}
             PROVE  FALSE
  OBVIOUS
<1>1. PICK T \in B : \A t \in B : t \subseteq T => t = T
  <2> HIDE DEF B
  <2>1. B \in SUBSET SUBSET S
    BY DEF B
  <2> QED
    BY <2>1, SmallestSubset
<1>2. PICK y \in T : sum(T) # fun[y] + sum(T \ {y})
  BY <1>1
<1>3. IsFiniteSet(T)
  BY <1>1, FS_Subset
<1> DEFINE z == CHOOSE v \in T : TRUE
<1>4. z \in T /\ sum(T) = fun[z] + sum(T \ {z})
  BY <1>2, <1>3, SumOfChosen
<1> HIDE DEF z, sum
<1>5. y # z
  BY <1>2, <1>4
<1>6. sum(T \ {z}) = fun[y] + sum((T \ {z}) \ {y})
  <2>1. T \ {z} \in SUBSET S /\ T \ {z} \subseteq T /\ T \ {z} # T
    BY <1>1, <1>4
  <2>2. T \ {z} \notin B
    BY <1>1, <2>1
  <2> QED
    BY <1>5, <2>1, <2>2
<1>7. sum(T \ {y}) = fun[z] + sum((T \ {y}) \ {z})
  <2>1. T \ {y} \in SUBSET S /\ T \ {y} \subseteq T /\ T \ {y} # T
    BY <1>1, <1>2
  <2>2. T \ {y} \notin B
    BY <1>1, <2>1
  <2> QED
    BY <1>4, <1>5, <2>1, <2>2
<1>8. (T \ {z}) \ {y} = (T \ {y}) \ {z}
  OBVIOUS
<1>9. sum((T \ {y}) \ {z}) \in Int /\ fun[y] \in Int /\ fun[z] \in Int
  <2>1. (T \ {y}) \ {z} \in SUBSET S /\ y \in S /\ z \in S
    BY <1>1, <1>4
  <2>2. IsFiniteSet((T \ {y}) \ {z})
    BY <2>1, FS_Subset
  <2> QED
    BY <2>1, <2>2, SumIsInt DEF sum
<1> DEFINE r == sum((T \ {y}) \ {z})
<1>10. sum(T) = fun[z] + (fun[y] + r) /\ sum(T \ {y}) = fun[z] + r
  BY <1>4, <1>6, <1>7, <1>8
<1> HIDE DEF r
<1>11. fun[z] + (fun[y] + r) = fun[y] + (fun[z] + r)
  BY <1>9 DEF r
<1> QED
  BY <1>2, <1>10, <1>11

\* The sum depends on nothing but the values on the set.
THEOREM SumOfSame ==
  ASSUME NEW S, IsFiniteSet(S), NEW f, NEW g, \A x \in S : f[x] = g[x]
  PROVE  SumFunctionOnSet(f, S) = SumFunctionOnSet(g, S)
<1> DEFINE B == {T \in SUBSET S : SumFunctionOnSet(f, T) # SumFunctionOnSet(g, T)}
<1> SUFFICES ASSUME B # {}
             PROVE  FALSE
  OBVIOUS
<1>1. PICK T \in B : \A t \in B : t \subseteq T => t = T
  <2> HIDE DEF B
  <2>1. B \in SUBSET SUBSET S
    BY DEF B
  <2> QED
    BY <2>1, SmallestSubset
<1>2. T # {}
  BY <1>1, SumOfNone
<1>3. IsFiniteSet(T)
  BY <1>1, FS_Subset
<1> DEFINE x == CHOOSE y \in T : TRUE
<1>4. /\ x \in T /\ SumFunctionOnSet(f, T) = f[x] + SumFunctionOnSet(f, T \ {x})
      /\ SumFunctionOnSet(g, T) = g[x] + SumFunctionOnSet(g, T \ {x})
  BY <1>2, <1>3, SumOfChosen
<1> HIDE DEF x
<1>5. SumFunctionOnSet(f, T \ {x}) = SumFunctionOnSet(g, T \ {x})
  BY <1>1, <1>4
<1> QED
  BY <1>1, <1>4, <1>5

\* A sum of zeroes is zero.
THEOREM SumOfZeroes ==
  ASSUME NEW S, IsFiniteSet(S), NEW fun, \A x \in S : fun[x] = 0
  PROVE  SumFunctionOnSet(fun, S) = 0
<1> DEFINE B == {T \in SUBSET S : SumFunctionOnSet(fun, T) # 0}
<1> SUFFICES ASSUME B # {}
             PROVE  FALSE
  OBVIOUS
<1>1. PICK T \in B : \A t \in B : t \subseteq T => t = T
  <2> HIDE DEF B
  <2>1. B \in SUBSET SUBSET S
    BY DEF B
  <2> QED
    BY <2>1, SmallestSubset
<1>2. T # {}
  BY <1>1, SumOfNone
<1>3. IsFiniteSet(T)
  BY <1>1, FS_Subset
<1> DEFINE x == CHOOSE y \in T : TRUE
<1>4. x \in T /\ SumFunctionOnSet(fun, T) = fun[x] + SumFunctionOnSet(fun, T \ {x})
  BY <1>2, <1>3, SumOfChosen
<1> HIDE DEF x
<1>5. SumFunctionOnSet(fun, T \ {x}) = 0 /\ fun[x] = 0
  BY <1>1, <1>4
<1> QED
  BY <1>1, <1>4, <1>5

\* A sum of natural numbers is one.
THEOREM SumIsNat ==
  ASSUME NEW S, IsFiniteSet(S), NEW fun, \A x \in S : fun[x] \in Nat
  PROVE  SumFunctionOnSet(fun, S) \in Nat
<1> DEFINE B == {T \in SUBSET S : SumFunctionOnSet(fun, T) \notin Nat}
<1> SUFFICES ASSUME B # {}
             PROVE  FALSE
  OBVIOUS
<1>1. PICK T \in B : \A t \in B : t \subseteq T => t = T
  <2> HIDE DEF B
  <2>1. B \in SUBSET SUBSET S
    BY DEF B
  <2> QED
    BY <2>1, SmallestSubset
<1>2. T # {}
  <2>1. SumFunctionOnSet(fun, {}) \in Nat
    BY SumOfNone
  <2>2. SumFunctionOnSet(fun, T) \notin Nat
    BY <1>1
  <2> QED
    BY <2>1, <2>2
<1>3. IsFiniteSet(T)
  BY <1>1, FS_Subset
<1> DEFINE x == CHOOSE y \in T : TRUE
<1>4. x \in T /\ SumFunctionOnSet(fun, T) = fun[x] + SumFunctionOnSet(fun, T \ {x})
  BY <1>2, <1>3, SumOfChosen
<1>5. SumFunctionOnSet(fun, T \ {x}) \in Nat
  BY <1>1, <1>4
<1> QED
  BY <1>1, <1>4, <1>5

\* When one value changes, the sum changes by as much.
THEOREM SumAfterChange ==
  ASSUME NEW S, IsFiniteSet(S), NEW f, NEW g, NEW x \in S, NEW d \in Int,
         \A y \in S : f[y] \in Int, g[x] = f[x] + d,
         \A y \in S \ {x} : g[y] = f[y]
  PROVE  SumFunctionOnSet(g, S) = SumFunctionOnSet(f, S) + d
<1>1. \A y \in S : g[y] \in Int
  OBVIOUS
<1>2. IsFiniteSet(S \ {x})
  BY FS_RemoveElement
<1> DEFINE r == SumFunctionOnSet(f, S \ {x})
<1>3. SumFunctionOnSet(g, S \ {x}) = r
  BY <1>2, SumOfSame
<1>4. SumFunctionOnSet(g, S) = g[x] + r
  BY <1>1, <1>3, SumOfOneAndRest
<1>5. SumFunctionOnSet(f, S) = f[x] + r
  BY SumOfOneAndRest
<1>6. r \in Int
  BY <1>2, SumIsInt
<1> HIDE DEF r
<1> QED
  BY <1>4, <1>5, <1>6

\* A new element adds its value.
THEOREM SumWithOneMore ==
  ASSUME NEW S, IsFiniteSet(S), NEW f, NEW g, NEW x, x \notin S,
         \A y \in S : f[y] \in Int, g[x] \in Int, \A y \in S : g[y] = f[y]
  PROVE  SumFunctionOnSet(g, S \cup {x}) = g[x] + SumFunctionOnSet(f, S)
<1>1. IsFiniteSet(S \cup {x})
  BY FS_AddElement
<1>2. \A y \in S \cup {x} : g[y] \in Int
  OBVIOUS
<1>3. SumFunctionOnSet(g, S \cup {x}) = g[x] + SumFunctionOnSet(g, (S \cup {x}) \ {x})
  BY <1>1, <1>2, SumOfOneAndRest
<1>4. (S \cup {x}) \ {x} = S
  OBVIOUS
<1>5. SumFunctionOnSet(g, S) = SumFunctionOnSet(f, S)
  BY SumOfSame
<1> QED
  BY <1>3, <1>4, <1>5

\* When natural numbers add up to zero, each of them is zero.
THEOREM ZeroSum ==
  ASSUME NEW S, IsFiniteSet(S), NEW fun, \A x \in S : fun[x] \in Nat,
         SumFunctionOnSet(fun, S) = 0
  PROVE  \A x \in S : fun[x] = 0
<1> SUFFICES ASSUME NEW x \in S
             PROVE  fun[x] = 0
  OBVIOUS
<1>1. SumFunctionOnSet(fun, S) = fun[x] + SumFunctionOnSet(fun, S \ {x})
  BY SumOfOneAndRest
<1>2. IsFiniteSet(S \ {x})
  BY FS_RemoveElement
<1>3. SumFunctionOnSet(fun, S \ {x}) \in Nat
  BY <1>2, SumIsNat
<1> QED
  BY <1>1, <1>3

\* The sum of a function is that over its domain.
THEOREM SumOfFunction ==
  ASSUME NEW fun
  PROVE  /\ FoldFunction(+, 0, fun) = SumFunctionOnSet(fun, DOMAIN fun)
         /\ SumFunction(fun) = SumFunctionOnSet(fun, DOMAIN fun)
BY DEF FoldFunction, SumFunction, SumFunctionOnSet

\* Every set of natural numbers has a least element.
LEMMA LeastNat ==
  ASSUME NEW N \in SUBSET Nat, N # {}
  PROVE  \E n \in N : \A m \in N : n <= m
<1> DEFINE R == OpToRel(<, Nat)
<1>1. \A m, n \in Nat : m < n => <<m, n>> \in R
  BY DEF OpToRel
<1>2. IsWellFoundedOn(R, Nat)
  BY NatLessThanWellFounded
<1> HIDE DEF R
<1>3. PICK n \in N : \A m \in N : ~ (<<m, n>> \in R)
  BY <1>2, WFMin
<1>4. ASSUME NEW m \in N
      PROVE  n <= m
  <2>1. m \in Nat /\ n \in Nat /\ ~ (m < n)
    BY <1>1, <1>3
  <2> QED
    BY <2>1
<1> QED
  BY <1>4

\* Some positions of a sequence have a last one.
THEOREM LastPosition ==
  ASSUME NEW n \in Nat, NEW P \in SUBSET (1..n), P # {}
  PROVE  \E i \in P : \A j \in P : j <= i
<1> DEFINE N == {m \in Nat : n - m \in P}
<1>1. N # {}
  <2>1. PICK i \in P : TRUE
    OBVIOUS
  <2>2. n - i \in N
    BY <2>1
  <2> QED
    BY <2>2
<1>2. N \in SUBSET Nat
  OBVIOUS
<1> HIDE DEF N
<1>3. PICK m \in N : \A k \in N : m <= k
  BY <1>1, <1>2, LeastNat
<1>4. n - m \in P /\ m \in Nat
  BY <1>3 DEF N
<1>5. ASSUME NEW j \in P
      PROVE  j <= n - m
  <2>1. n - j \in N
    BY DEF N
  <2> QED
    BY <1>3, <1>4, <2>1
<1> QED
  BY <1>4, <1>5

-----------------------------------------------------------------------------
(***************************************************************************)
(* The folds of the community modules: of a set S, pick[s] is the element  *)
(* of its subset s that is taken away first, and step[v, x] is what the    *)
(* value v of the others becomes with the element x.                       *)
(***************************************************************************)
Picks(pick, S) == \A s \in SUBSET S : s # {} => pick[s] \in s

IsFold(g, step, pick, base, S) ==
  g = [s \in SUBSET S |->
         IF s = {} THEN base ELSE step[g[s \ {pick[s]}], pick[s]]]

\* Folds over two sets agree on the subsets of both.
LEMMA FoldsAgree ==
  ASSUME NEW S, NEW T, IsFiniteSet(S), NEW step, NEW pick, NEW base,
         NEW g, NEW h, Picks(pick, S),
         IsFold(g, step, pick, base, S), IsFold(h, step, pick, base, T)
  PROVE  \A s \in SUBSET S : s \subseteq T => g[s] = h[s]
<1> DEFINE B == {s \in SUBSET S : s \subseteq T /\ g[s] # h[s]}
<1> SUFFICES ASSUME B # {}
             PROVE  FALSE
  OBVIOUS
<1>1. PICK s \in B : \A t \in B : t \subseteq s => t = s
  <2> HIDE DEF B
  <2>1. B \in SUBSET SUBSET S
    BY DEF B
  <2> QED
    BY <2>1, SmallestSubset
<1>2. s \in SUBSET S /\ s \in SUBSET T
  BY <1>1
<1> DEFINE rest == s \ {pick[s]}
<1>3. /\ g[s] = IF s = {} THEN base ELSE step[g[rest], pick[s]]
      /\ h[s] = IF s = {} THEN base ELSE step[h[rest], pick[s]]
  BY <1>2 DEF IsFold
<1>4. s # {} /\ g[rest] # h[rest]
  BY <1>1, <1>3
<1>5. rest \subseteq s /\ rest # s
  BY <1>2, <1>4 DEF Picks
<1> QED
  BY <1>1, <1>2, <1>4, <1>5

\* There is a fold over every finite set.
LEMMA FoldsExist ==
  ASSUME NEW S, IsFiniteSet(S), NEW step, NEW pick, NEW base, Picks(pick, S)
  PROVE  \E g : IsFold(g, step, pick, base, S)
<1> DEFINE B == {T \in SUBSET S : \A g : ~ IsFold(g, step, pick, base, T)}
<1> SUFFICES ASSUME B # {}
             PROVE  FALSE
  OBVIOUS
<1>1. PICK T \in B : \A t \in B : t \subseteq T => t = T
  <2> HIDE DEF B
  <2>1. B \in SUBSET SUBSET S
    BY DEF B
  <2> QED
    BY <2>1, SmallestSubset
<1> DEFINE h(t) == CHOOSE g : IsFold(g, step, pick, base, t)
           rest(s) == s \ {pick[s]}
           g == [s \in SUBSET T |-> IF s = {} THEN base
                   ELSE step[h(rest(s))[rest(s)], pick[s]]]
<1>2. \A t \in SUBSET T : t # T => IsFold(h(t), step, pick, base, t)
  BY <1>1
<1>3. \A s \in SUBSET T : s # {} => g[rest(s)] = h(rest(s))[rest(s)]
  <2> SUFFICES ASSUME NEW s \in SUBSET T, s # {}
               PROVE  g[rest(s)] = h(rest(s))[rest(s)]
    OBVIOUS
  <2> DEFINE t == rest(s)
  <2>1. t \in SUBSET T /\ t # T /\ IsFiniteSet(t)
    BY <1>1, FS_Subset DEF Picks
  <2>2. IsFold(h(t), step, pick, base, t)
    BY <1>2, <2>1
  <2> HIDE DEF t, h
  <2>3. h(t)[t] = IF t = {} THEN base ELSE step[h(t)[rest(t)], pick[t]]
    BY <2>2 DEF IsFold
  <2>4. g[t] = IF t = {} THEN base ELSE step[h(rest(t))[rest(t)], pick[t]]
    BY <2>1
  <2>5. ASSUME t # {}
        PROVE  h(t)[rest(t)] = h(rest(t))[rest(t)]
    <3>1. /\ rest(t) \in SUBSET T /\ rest(t) # T /\ rest(t) \subseteq t
          /\ IsFiniteSet(rest(t)) /\ Picks(pick, t)
      BY <1>1, <2>1, <2>5, FS_Subset DEF Picks
    <3>2. IsFold(h(rest(t)), step, pick, base, rest(t))
      BY <1>2, <3>1
    <3> HIDE DEF rest
    <3> QED
      BY <2>1, <2>2, <3>1, <3>2, FoldsAgree
  <2> QED
    BY <2>3, <2>4, <2>5 DEF t
<1> HIDE DEF h
<1>4. ASSUME NEW s \in SUBSET T
      PROVE  g[s] = IF s = {} THEN base ELSE step[g[rest(s)], pick[s]]
  <2>1. g[s] = IF s = {} THEN base ELSE step[h(rest(s))[rest(s)], pick[s]]
    OBVIOUS
  <2> HIDE DEF g
  <2> QED
    BY <2>1, <1>3
<1>5. g = [s \in SUBSET T |-> g[s]]
  OBVIOUS
<1> HIDE DEF g
<1>6. IsFold(g, step, pick, base, T)
  BY <1>4, <1>5 DEF IsFold
<1> QED
  BY <1>1, <1>6

\* Its values are in a set that is closed under the steps.
THEOREM TypedFold ==
  ASSUME NEW S, IsFiniteSet(S), NEW V, NEW base \in V, NEW step \in [V \X S -> V],
         NEW pick, Picks(pick, S)
  PROVE  \E g : IsFold(g, step, pick, base, S) /\ \A s \in SUBSET S : g[s] \in V
<1>1. PICK g : IsFold(g, step, pick, base, S)
  BY FoldsExist
<1> DEFINE B == {s \in SUBSET S : g[s] \notin V}
<1>2. ASSUME B # {}
      PROVE  FALSE
  <2>1. PICK s \in B : \A t \in B : t \subseteq s => t = s
    <3> HIDE DEF B
    <3>1. B \in SUBSET SUBSET S
      BY DEF B
    <3> QED
      BY <1>2, <3>1, SmallestSubset
  <2> DEFINE rest == s \ {pick[s]}
  <2>2. s \in SUBSET S /\ g[s] = IF s = {} THEN base ELSE step[g[rest], pick[s]]
    BY <1>1, <2>1 DEF IsFold
  <2>3. s # {}
    BY <2>1, <2>2
  <2>4. pick[s] \in S /\ rest \in SUBSET S /\ rest \subseteq s /\ rest # s
    BY <2>2, <2>3 DEF Picks
  <2>5. g[rest] \in V
    BY <2>1, <2>4
  <2> QED
    BY <2>1, <2>2, <2>3, <2>4, <2>5
<1> QED
  BY <1>1, <1>2

\* The last of some positions of a sequence.
LEMMA MaxOfPositions ==
  ASSUME NEW n \in Nat, NEW P \in SUBSET (1..n), P # {}
  PROVE  Max(P) \in P /\ \A i \in P : i <= Max(P)
<1>1. PICK i \in P : \A j \in P : j <= i
  BY LastPosition
<1>2. \A j \in P : i >= j
  BY <1>1
<1> QED
  BY <1>1, <1>2 DEF Max

-----------------------------------------------------------------------------
(***************************************************************************)
(* The sum of a sequence, as of a stack of readings.                       *)
(***************************************************************************)
SeqTotal(s) == SumFunctionOnSet(s, 1..Len(s))

\* The positions of a sequence are finitely many.
LEMMA Positions ==
  ASSUME NEW S, NEW s \in Seq(S)
  PROVE  IsFiniteSet(1..Len(s)) /\ \A i \in 1..Len(s) : s[i] \in S
BY FS_Interval, ElementOfSeq

\* The sum of a sequence of integers is one.
LEMMA SeqTotalIsInt ==
  ASSUME NEW s \in Seq(Int)
  PROVE  SeqTotal(s) \in Int
BY Positions, SumIsInt DEF SeqTotal

\* Appending adds to the sum.
THEOREM SeqTotalOfAppend ==
  ASSUME NEW s \in Seq(Int), NEW e \in Int
  PROVE  SeqTotal(Append(s, e)) = e + SeqTotal(s)
<1> DEFINE n == Len(s)
           t == Append(s, e)
<1>1. n \in Nat /\ IsFiniteSet(1..n) /\ \A i \in 1..n : s[i] \in Int
  BY Positions
<1>2. Len(t) = n + 1 /\ t[n + 1] = e /\ \A i \in 1..n : t[i] = s[i]
  BY AppendLast
<1> HIDE DEF n, t
<1>3. 1..(n + 1) = (1..n) \cup {n + 1} /\ n + 1 \notin 1..n
  BY <1>1
<1>4. SumFunctionOnSet(t, (1..n) \cup {n + 1}) = t[n + 1] + SumFunctionOnSet(s, 1..n)
  BY <1>1, <1>2, <1>3, SumWithOneMore
<1> QED
  BY <1>2, <1>3, <1>4 DEF SeqTotal, n, t

\* Taking the last element away takes it from the sum.
THEOREM SeqTotalOfFront ==
  ASSUME NEW s \in Seq(Int), s # << >>
  PROVE  SeqTotal(Front(s)) = SeqTotal(s) - Last(s)
<1> DEFINE n == Len(s) - 1
           t == Front(s)
<1>1. IsFiniteSet(1..n) /\ \A i \in 1..(n + 1) : s[i] \in Int
  <2>1. n \in Nat
    BY FrontLast
  <2> QED
    BY <2>1, Positions, FS_Interval
<1>2. n \in Nat /\ Len(t) = n /\ Len(s) = n + 1 /\ Last(s) = s[n + 1]
      /\ \A i \in 1..n : t[i] = s[i]
  BY FrontLast
<1> HIDE DEF n, t
<1>3. 1..(n + 1) = (1..n) \cup {n + 1} /\ n + 1 \notin 1..n
  BY <1>2
<1>4. (\A i \in 1..n : t[i] \in Int) /\ (\A i \in 1..n : s[i] = t[i])
  BY <1>1, <1>2
<1>5. s[n + 1] \in Int
  BY <1>1, <1>2
<1>6. SumFunctionOnSet(s, (1..n) \cup {n + 1}) = s[n + 1] + SumFunctionOnSet(t, 1..n)
  BY <1>1, <1>3, <1>4, <1>5, SumWithOneMore
<1>7. SumFunctionOnSet(t, 1..n) \in Int
  BY <1>1, <1>4, SumIsInt
<1>8. SeqTotal(s) = s[n + 1] + SeqTotal(t)
  BY <1>2, <1>3, <1>6 DEF SeqTotal
<1>9. SeqTotal(t) \in Int
  BY <1>2, <1>7 DEF SeqTotal
<1>10. SeqTotal(t) = SeqTotal(s) - Last(s)
  BY <1>2, <1>5, <1>8, <1>9
<1> QED
  BY <1>10 DEF t

-----------------------------------------------------------------------------
(***************************************************************************)
(* Powers of two, by counting subsets: the provers know them only for      *)
(* literals.                                                               *)
(***************************************************************************)

\* A power of two is positive.
LEMMA PowerIsNat ==
  ASSUME NEW w \in Nat
  PROVE  2 ^ w \in Nat \ {0}
<1> DEFINE S == 1..w
<1>1. IsFiniteSet(S) /\ Cardinality(S) = w
  BY FS_Interval
<1> HIDE DEF S
<1>2. IsFiniteSet(SUBSET S) /\ Cardinality(SUBSET S) = 2 ^ w
  BY <1>1, FS_SUBSET
<1>3. SUBSET S # {}
  OBVIOUS
<1>4. Cardinality(SUBSET S) \in Nat /\ Cardinality(SUBSET S) # 0
  BY <1>2, <1>3, FS_CardinalityType, FS_EmptySet
<1> QED
  BY <1>2, <1>4

\* The next power of two is twice as large.
LEMMA NextPower ==
  ASSUME NEW w \in Nat
  PROVE  2 ^ (w + 1) = 2 ^ w + 2 ^ w
<1> DEFINE S == 1..w
           T == 1..(w + 1)
           A == SUBSET S
           B == (SUBSET T) \ A
           f == [U \in A |-> U \cup {w + 1}]
<1>1. /\ IsFiniteSet(S) /\ Cardinality(S) = w
      /\ IsFiniteSet(T) /\ Cardinality(T) = w + 1
  BY FS_Interval
<1>2. S = T \ {w + 1} /\ w + 1 \in T
  OBVIOUS
<1> HIDE DEF S, T
<1>3. /\ IsFiniteSet(A) /\ Cardinality(A) = 2 ^ w
      /\ IsFiniteSet(SUBSET T) /\ Cardinality(SUBSET T) = 2 ^ (w + 1)
  BY <1>1, FS_SUBSET
<1>4. f \in Bijection(A, B)
  <2>1. f \in [A -> B]
    BY <1>2
  <2>2. ASSUME NEW U \in A, NEW V \in A, f[U] = f[V]
        PROVE  U = V
    BY <1>2, <2>2
  <2>3. ASSUME NEW V \in B
        PROVE  \E U \in A : f[U] = V
    <3>1. V \ {w + 1} \in A /\ w + 1 \in V
      BY <1>2
    <3> QED
      BY <3>1
  <2> HIDE DEF A, B, f
  <2> QED
    BY <2>1, <2>2, <2>3 DEF Bijection, Injection, Surjection, IsInjective
<1> HIDE DEF f
<1>5. IsFiniteSet(B) /\ Cardinality(B) = Cardinality(A)
  <2>1. ExistsBijection(A, B)
    BY <1>4 DEF ExistsBijection
  <2> QED
    BY <1>3, <2>1, FS_Bijection
<1>6. A \cup B = SUBSET T /\ A \cap B = {}
  BY <1>2
<1> HIDE DEF A, B
<1>7. Cardinality(A \cup B) = Cardinality(A) + Cardinality(B) - Cardinality(A \cap B)
  BY <1>3, <1>5, FS_Union
<1>8. Cardinality(A \cap B) = 0 /\ 2 ^ w \in Nat
  BY <1>6, FS_EmptySet, PowerIsNat
<1> QED
  BY <1>3, <1>5, <1>6, <1>7, <1>8

\* What an unsigned integer with K values makes of one that is not one of
\* them but nearly so.
LEMMA Wrapped ==
  ASSUME NEW K \in Nat \ {0}, NEW n \in Int
  PROVE  /\ n % K \in 0..(K - 1)
         /\ 0 <= n /\ n < K => n % K = n
         /\ n < 0 /\ -K <= n => n % K = n + K
OBVIOUS

\* A multiple of K that is smaller than K is zero.
LEMMA SmallMultiple ==
  ASSUME NEW K \in Nat \ {0}, NEW z \in Int, -K < K * z, K * z < K
  PROVE  z = 0
<1>1. \A k \in Int : k >= 1 => K * k >= K
  OBVIOUS
<1>2. -z \in Int /\ K * (-z) = -(K * z)
  OBVIOUS
<1>3. -z >= 1 => K * (-z) >= K
  BY <1>1, <1>2
<1> QED
  BY <1>1, <1>2, <1>3

\* A quotient and the remainder.
LEMMA Divided ==
  ASSUME NEW K \in Nat \ {0}, NEW n \in Int
  PROVE  \E q \in Int : n = K * q + (n % K)
<1>1. n = K * (n \div K) + (n % K) /\ n \div K \in Int
  OBVIOUS
<1> QED
  BY <1>1

\* There is one remainder only.
LEMMA RemainderIsUnique ==
  ASSUME NEW K \in Nat \ {0}, NEW n \in Int, NEW q \in Int, NEW r \in 0..(K - 1),
         n = K * q + r
  PROVE  n % K = r
<1> DEFINE s == n % K
<1>1. PICK p \in Int : n = K * p + s
  BY Divided
<1>2. s \in 0..(K - 1)
  OBVIOUS
<1> HIDE DEF s
<1>3. K * (p - q) = r - s
  <2>1. K * (p - q) = K * p - K * q /\ K * p \in Int /\ K * q \in Int
    OBVIOUS
  <2> QED
    BY <1>1, <1>2, <2>1
<1>4. p - q = 0
  <2>1. p - q \in Int /\ -K < r - s /\ r - s < K
    BY <1>2
  <2> QED
    BY <1>3, <2>1, SmallMultiple
<1> QED
  BY <1>1, <1>2, <1>3, <1>4 DEF s

\* The sum with a number that was wrapped wraps like that with the number.
LEMMA WrappedSum ==
  ASSUME NEW K \in Nat \ {0}, NEW m \in Int, NEW n \in Int
  PROVE  (m + (n % K)) % K = (m + n) % K
<1> DEFINE s == n % K
           t == m + s
           u == t % K
<1>1. PICK p \in Int : n = K * p + s
  BY Divided
<1>2. s \in Int /\ t \in Int /\ u \in 0..(K - 1)
  OBVIOUS
<1> HIDE DEF s, u
<1>3. PICK q \in Int : t = K * q + u
  BY <1>2, Divided DEF u
<1>4. m + n = K * (p + q) + u
  <2>1. K * (p + q) = K * p + K * q /\ K * p \in Int /\ K * q \in Int
    OBVIOUS
  <2> QED
    BY <1>1, <1>2, <1>3, <2>1
<1>5. p + q \in Int /\ m + n \in Int
  OBVIOUS
<1>6. (m + n) % K = u
  BY <1>2, <1>4, <1>5, RemainderIsUnique
<1> QED
  BY <1>6 DEF u, s
=============================================================================
