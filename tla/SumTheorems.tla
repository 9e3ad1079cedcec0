----------------------------- MODULE SumTheorems -----------------------------
(***************************************************************************)
(* What a sum over a finite set is worth (SumFunctionOnSet of the          *)
(* community modules), for the ledgers of the other modules: what becomes  *)
(* of it when one term changes, and what of a part of the set.             *)
(*                                                                         *)
(* A sum is a recursive function on the subsets of the set.  What is said  *)
(* of every subset is shown by its smallest counterexample, of which a     *)
(* nonempty family of finite sets has one (SmallestSet).                   *)
(***************************************************************************)
EXTENDS Functions, FiniteSetTheorems, TLAPS

\* Every nonempty family of finite sets has a set none of whose proper subsets
\* belongs to it
LEMMA SmallestSet ==
  ASSUME NEW S, IsFiniteSet(S), NEW C \in SUBSET (SUBSET S), C # {}
  PROVE  \E T \in C : \A U \in SUBSET T : U # T => U \notin C
<1>1. IsWellFoundedOn(StrictSubsetOrdering(S), SUBSET S)
  BY FS_StrictSubsetOrderingWellFounded, FS_FiniteSubsetsOfFinite
<1>2. \E T \in C : \A U \in C : ~ (<<U, T>> \in StrictSubsetOrdering(S))
  BY <1>1, WFMin
<1> QED  BY <1>2 DEF StrictSubsetOrdering

-----------------------------------------------------------------------------
(***************************************************************************)
(* The recursive function there is                                         *)
(***************************************************************************)

Pick(T) == CHOOSE x \in T : TRUE

Rest(T) == T \ {Pick(T)}

\* s sums f over each subset of S
Sums(s, f, S) ==
  s = [T \in SUBSET S |-> IF T = {} THEN 0 ELSE f[Pick(T)] + s[Rest(T)]]

LEMMA PickRest ==
  ASSUME NEW T, T # {}
  PROVE  Pick(T) \in T /\ Rest(T) \subseteq T /\ Rest(T) # T
  BY DEF Pick, Rest

LEMMA SumsAt ==
  ASSUME NEW f, NEW S, NEW s, Sums(s, f, S), NEW T \in SUBSET S
  PROVE  s[T] = IF T = {} THEN 0 ELSE f[Pick(T)] + s[Rest(T)]
  BY DEF Sums

\* Two such functions agree where both are defined
LEMMA SumsUnique ==
  ASSUME NEW S, IsFiniteSet(S), NEW R \in SUBSET S, NEW f, NEW s, NEW t,
         Sums(s, f, S), Sums(t, f, R)
  PROVE  \A T \in SUBSET R : s[T] = t[T]
<1> DEFINE C == {T \in SUBSET R : s[T] # t[T]}
<1> SUFFICES ASSUME C # {} PROVE FALSE
  OBVIOUS
<1>1. IsFiniteSet(R)
  BY FS_Subset
<1>2. PICK T \in C : \A U \in SUBSET T : U # T => U \notin C
  <2>1. C \in SUBSET (SUBSET R)
    OBVIOUS
  <2> HIDE DEF C
  <2> QED  BY <1>1, <2>1, SmallestSet
<1>3. T \in SUBSET R /\ T \in SUBSET S
  OBVIOUS
<1>4. /\ s[T] = IF T = {} THEN 0 ELSE f[Pick(T)] + s[Rest(T)]
      /\ t[T] = IF T = {} THEN 0 ELSE f[Pick(T)] + t[Rest(T)]
  BY <1>3, SumsAt
<1>5. T # {}
  BY <1>4
<1>6. s[Rest(T)] = t[Rest(T)]
  BY <1>2, <1>3, <1>5, PickRest
<1> QED  BY <1>4, <1>5, <1>6

\* ... and there is one, put together from those of the smaller sets
LEMMA SumsExist ==
  ASSUME NEW S, IsFiniteSet(S), NEW f
  PROVE  \E s : Sums(s, f, S)
<1> DEFINE C == {T \in SUBSET S : ~ \E s : Sums(s, f, T)}
<1> SUFFICES ASSUME C # {} PROVE FALSE
  OBVIOUS
<1>1. PICK T \in C : \A U \in SUBSET T : U # T => U \notin C
  <2>1. C \in SUBSET (SUBSET S)
    OBVIOUS
  <2> HIDE DEF C
  <2> QED  BY <2>1, SmallestSet
<1> DEFINE sum(U) == (CHOOSE s : Sums(s, f, U))[U]
           h == [V \in SUBSET T |-> IF V = {} THEN 0 ELSE f[Pick(V)] + sum(Rest(V))]
<1>2. ASSUME NEW U \in SUBSET T, U # T
      PROVE  Sums(CHOOSE s : Sums(s, f, U), f, U)
  BY <1>1, <1>2
<1>3. ASSUME NEW U \in SUBSET T, U # T
      PROVE  h[U] = sum(U)
  <2> DEFINE s == CHOOSE x : Sums(x, f, U)
  <2>1. Sums(s, f, U)
    BY <1>2, <1>3
  <2>2. s[U] = IF U = {} THEN 0 ELSE f[Pick(U)] + s[Rest(U)]
    BY <2>1, SumsAt
  <2>3. CASE U = {}
    BY <2>2, <2>3
  <2>4. CASE U # {}
    <3> DEFINE t == CHOOSE x : Sums(x, f, Rest(U))
    <3>1. Rest(U) \in SUBSET T /\ Rest(U) # T /\ Rest(U) \in SUBSET U
      BY <1>3, <2>4, PickRest
    <3>2. Sums(t, f, Rest(U))
      BY <1>2, <3>1
    <3>3. IsFiniteSet(U)
      BY <1>1, FS_Subset
    <3>4. s[Rest(U)] = t[Rest(U)]
      BY <2>1, <3>1, <3>2, <3>3, SumsUnique
    <3> QED  BY <2>2, <2>4, <3>4
  <2> QED  BY <2>3, <2>4
<1>4. ASSUME NEW V \in SUBSET T, V # {} PROVE h[Rest(V)] = sum(Rest(V))
  <2>1. Rest(V) \in SUBSET T /\ Rest(V) # T
    BY <1>4, PickRest
  <2> HIDE DEF h, sum
  <2> QED  BY <1>3, <2>1
<1>5. Sums(h, f, T)
  <2>1. \A V \in SUBSET T : h[V] = IF V = {} THEN 0 ELSE f[Pick(V)] + h[Rest(V)]
    <3>1. \A V \in SUBSET T : h[V] = IF V = {} THEN 0 ELSE f[Pick(V)] + sum(Rest(V))
      OBVIOUS
    <3> HIDE DEF h, sum
    <3> QED  BY <1>4, <3>1
  <2>2. h = [V \in SUBSET T |-> h[V]]
    OBVIOUS
  <2> HIDE DEF h
  <2>3. h = [V \in SUBSET T |-> IF V = {} THEN 0 ELSE f[Pick(V)] + h[Rest(V)]]
    BY <2>1, <2>2
  <2> QED  BY <2>3 DEF Sums
<1> QED  BY <1>5

-----------------------------------------------------------------------------
(***************************************************************************)
(* What a sum is worth                                                     *)
(***************************************************************************)

LEMMA SumDef ==
  ASSUME NEW f, NEW S
  PROVE  SumFunctionOnSet(f, S) = (CHOOSE s : Sums(s, f, S))[S]
  BY DEF SumFunctionOnSet, FoldFunctionOnSet, MapThenFoldSet, Sums, Pick, Rest

\* A sum is one of its terms and the sum of the others
LEMMA SumStep ==
  ASSUME NEW S, IsFiniteSet(S), NEW f
  PROVE  SumFunctionOnSet(f, S)
           = IF S = {} THEN 0 ELSE f[Pick(S)] + SumFunctionOnSet(f, Rest(S))
<1> DEFINE s == CHOOSE x : Sums(x, f, S)
           t == CHOOSE x : Sums(x, f, Rest(S))
<1>1. Sums(s, f, S)
  BY SumsExist
<1>2. SumFunctionOnSet(f, S) = IF S = {} THEN 0 ELSE f[Pick(S)] + s[Rest(S)]
  BY <1>1, SumsAt, SumDef
<1>3. ASSUME S # {} PROVE s[Rest(S)] = SumFunctionOnSet(f, Rest(S))
  <2>1. Rest(S) \in SUBSET S /\ IsFiniteSet(Rest(S))
    BY <1>3, PickRest, FS_Subset
  <2>2. Sums(t, f, Rest(S))
    BY <2>1, SumsExist
  <2>3. s[Rest(S)] = t[Rest(S)]
    <3> HIDE DEF s, t
    <3> QED  BY <1>1, <2>1, <2>2, SumsUnique
  <2> QED  BY <2>3, SumDef
<1> QED  BY <1>2, <1>3

\* The sum of nothing is 0
THEOREM SumEmpty ==
  ASSUME NEW f
  PROVE  SumFunctionOnSet(f, {}) = 0
  BY SumStep, FS_EmptySet

\* A sum of integers is one, and a sum of natural numbers is one
THEOREM SumType ==
  ASSUME NEW S, IsFiniteSet(S), NEW f
  PROVE  /\ (\A x \in S : f[x] \in Int) => SumFunctionOnSet(f, S) \in Int
         /\ (\A x \in S : f[x] \in Nat) => SumFunctionOnSet(f, S) \in Nat
<1>1. ASSUME NEW N, N = Int \/ N = Nat, \A x \in S : f[x] \in N
      PROVE  SumFunctionOnSet(f, S) \in N
  <2> DEFINE C == {T \in SUBSET S : SumFunctionOnSet(f, T) \notin N}
  <2> SUFFICES ASSUME C # {} PROVE FALSE
    OBVIOUS
  <2>1. PICK T \in C : \A U \in SUBSET T : U # T => U \notin C
    <3>1. C \in SUBSET (SUBSET S)
      OBVIOUS
    <3> HIDE DEF C
    <3> QED  BY <3>1, SmallestSet
  <2>2. SumFunctionOnSet(f, T)
          = IF T = {} THEN 0 ELSE f[Pick(T)] + SumFunctionOnSet(f, Rest(T))
    BY SumStep, FS_Subset
  <2>3. CASE T = {}
    BY <1>1, <2>2, <2>3
  <2>4. CASE T # {}
    <3>1. f[Pick(T)] \in N /\ SumFunctionOnSet(f, Rest(T)) \in N
      BY <1>1, <2>1, <2>4, PickRest
    <3> HIDE DEF C
    <3>2. SumFunctionOnSet(f, T) \in N
      BY <1>1, <2>2, <2>4, <3>1
    <3> QED  BY <3>2 DEF C
  <2> QED  BY <2>3, <2>4
<1> QED  BY <1>1

\* A sum of zeros is 0
THEOREM SumZero ==
  ASSUME NEW S, IsFiniteSet(S), NEW f, \A x \in S : f[x] = 0
  PROVE  SumFunctionOnSet(f, S) = 0
<1> DEFINE C == {T \in SUBSET S : SumFunctionOnSet(f, T) # 0}
<1> SUFFICES ASSUME C # {} PROVE FALSE
  OBVIOUS
<1>1. PICK T \in C : \A U \in SUBSET T : U # T => U \notin C
  <2>1. C \in SUBSET (SUBSET S)
    OBVIOUS
  <2> HIDE DEF C
  <2> QED  BY <2>1, SmallestSet
<1>2. SumFunctionOnSet(f, T)
        = IF T = {} THEN 0 ELSE f[Pick(T)] + SumFunctionOnSet(f, Rest(T))
  BY SumStep, FS_Subset
<1>3. T # {}
  BY <1>2
<1>4. f[Pick(T)] = 0 /\ SumFunctionOnSet(f, Rest(T)) = 0
  BY <1>1, <1>3, PickRest
<1> QED  BY <1>2, <1>3, <1>4

\* Any term may be taken out first
THEOREM SumRemove ==
  ASSUME NEW S, IsFiniteSet(S), NEW f, \A x \in S : f[x] \in Int, NEW x \in S
  PROVE  SumFunctionOnSet(f, S) = f[x] + SumFunctionOnSet(f, S \ {x})
<1> DEFINE sum(T) == SumFunctionOnSet(f, T)
           C == {T \in SUBSET S : \E y \in T : sum(T) # f[y] + sum(T \ {y})}
<1> HIDE DEF sum
<1> SUFFICES ASSUME C # {} PROVE FALSE
  BY DEF sum
<1>1. PICK T \in C : \A U \in SUBSET T : U # T => U \notin C
  <2>1. C \in SUBSET (SUBSET S)
    OBVIOUS
  <2> HIDE DEF C
  <2> QED  BY <2>1, SmallestSet
<1>2. PICK y \in T : sum(T) # f[y] + sum(T \ {y})
  OBVIOUS
<1> DEFINE p == Pick(T)
<1>3. p \in T /\ sum(T) = f[p] + sum(T \ {p})
  <2>1. IsFiniteSet(T) /\ T # {}
    BY <1>2, FS_Subset
  <2> QED  BY <2>1, SumStep, PickRest DEF Rest, sum
<1> HIDE DEF p
<1>4. y # p
  BY <1>2, <1>3
<1>5. sum(T \ {p}) = f[y] + sum(T \ {p, y})
  <2>1. T \ {p} \in SUBSET T /\ T \ {p} # T /\ T \ {p} \in SUBSET S
    BY <1>3
  <2>2. T \ {p} \notin C
    BY <1>1, <2>1
  <2>3. y \in T \ {p} /\ (T \ {p}) \ {y} = T \ {p, y}
    BY <1>4
  <2> QED  BY <2>1, <2>2, <2>3
<1>6. sum(T \ {y}) = f[p] + sum(T \ {p, y})
  <2>1. T \ {y} \in SUBSET T /\ T \ {y} # T /\ T \ {y} \in SUBSET S
    BY <1>2
  <2>2. T \ {y} \notin C
    BY <1>1, <2>1
  <2>3. p \in T \ {y} /\ (T \ {y}) \ {p} = T \ {p, y}
    BY <1>3, <1>4
  <2> QED  BY <2>1, <2>2, <2>3
<1>7. sum(T \ {p, y}) \in Int /\ f[p] \in Int /\ f[y] \in Int
  <2>1. T \ {p, y} \in SUBSET S /\ p \in S /\ y \in S
    BY <1>3
  <2>2. IsFiniteSet(T \ {p, y})
    BY <2>1, FS_Subset
  <2>3. \A z \in T \ {p, y} : f[z] \in Int
    BY <2>1
  <2> QED  BY <2>1, <2>2, <2>3, SumType DEF sum
<1> QED  BY <1>2, <1>3, <1>5, <1>6, <1>7

\* A sum depends on its terms only
THEOREM SumSame ==
  ASSUME NEW S, IsFiniteSet(S), NEW f, NEW g, \A x \in S : f[x] = g[x]
  PROVE  SumFunctionOnSet(f, S) = SumFunctionOnSet(g, S)
<1> DEFINE C == {T \in SUBSET S : SumFunctionOnSet(f, T) # SumFunctionOnSet(g, T)}
<1> SUFFICES ASSUME C # {} PROVE FALSE
  OBVIOUS
<1>1. PICK T \in C : \A U \in SUBSET T : U # T => U \notin C
  <2>1. C \in SUBSET (SUBSET S)
    OBVIOUS
  <2> HIDE DEF C
  <2> QED  BY <2>1, SmallestSet
<1>2. /\ SumFunctionOnSet(f, T)
           = IF T = {} THEN 0 ELSE f[Pick(T)] + SumFunctionOnSet(f, Rest(T))
      /\ SumFunctionOnSet(g, T)
           = IF T = {} THEN 0 ELSE g[Pick(T)] + SumFunctionOnSet(g, Rest(T))
  BY SumStep, FS_Subset
<1>3. T # {}
  BY <1>2
<1>4. f[Pick(T)] = g[Pick(T)] /\ SumFunctionOnSet(f, Rest(T)) = SumFunctionOnSet(g, Rest(T))
  BY <1>1, <1>3, PickRest
<1> QED  BY <1>2, <1>3, <1>4

\* When one term changes, the sum changes by as much
THEOREM SumMoves ==
  ASSUME NEW S, IsFiniteSet(S), NEW f, NEW g, NEW x \in S,
         \A y \in S : f[y] \in Int /\ g[y] \in Int,
         \A y \in S \ {x} : g[y] = f[y]
  PROVE  SumFunctionOnSet(g, S) = SumFunctionOnSet(f, S) + g[x] - f[x]
<1>1. SumFunctionOnSet(g, S \ {x}) = SumFunctionOnSet(f, S \ {x})
  BY SumSame, FS_Subset
<1>2. SumFunctionOnSet(f, S \ {x}) \in Int
  BY SumType, FS_Subset
<1>3. /\ SumFunctionOnSet(f, S) = f[x] + SumFunctionOnSet(f, S \ {x})
      /\ SumFunctionOnSet(g, S) = g[x] + SumFunctionOnSet(g, S \ {x})
  BY SumRemove
<1> QED  BY <1>1, <1>2, <1>3

\* The sum over a part of the set is the sum of the terms restricted to it
THEOREM SumPart ==
  ASSUME NEW S, IsFiniteSet(S), NEW f, \A x \in S : f[x] \in Int, NEW P \in SUBSET S
  PROVE  SumFunctionOnSet(f, P)
           = SumFunctionOnSet([x \in S |-> IF x \in P THEN f[x] ELSE 0], S)
<1> DEFINE g == [x \in S |-> IF x \in P THEN f[x] ELSE 0]
           C == {T \in SUBSET S : SumFunctionOnSet(f, T \intersect P) # SumFunctionOnSet(g, T)}
<1> SUFFICES ASSUME C # {} PROVE FALSE
  <2>1. S \intersect P = P
    OBVIOUS
  <2> QED  BY <2>1
<1>1. PICK T \in C : \A U \in SUBSET T : U # T => U \notin C
  <2>1. C \in SUBSET (SUBSET S)
    OBVIOUS
  <2> HIDE DEF C
  <2> QED  BY <2>1, SmallestSet
<1> DEFINE p == Pick(T)
<1>2. IsFiniteSet(T) /\ IsFiniteSet(T \intersect P)
  BY FS_Subset
<1>3. T # {}
  BY SumEmpty
<1>4. p \in T
  BY <1>3, PickRest
<1> HIDE DEF p
<1>5. SumFunctionOnSet(g, T) = g[p] + SumFunctionOnSet(g, T \ {p})
  BY <1>2, <1>4, SumRemove
<1>6. SumFunctionOnSet(f, (T \ {p}) \intersect P) = SumFunctionOnSet(g, T \ {p})
  BY <1>1, <1>4
<1>7. SumFunctionOnSet(g, T \ {p}) \in Int
  <2>1. IsFiniteSet(T \ {p}) /\ \A x \in T \ {p} : g[x] \in Int
    BY <1>2, FS_Subset
  <2> HIDE DEF g
  <2> QED  BY <2>1, SumType
<1>8. CASE p \in P
  <2>1. (T \intersect P) \ {p} = (T \ {p}) \intersect P
    OBVIOUS
  <2>2. SumFunctionOnSet(f, T \intersect P) = f[p] + SumFunctionOnSet(f, (T \ {p}) \intersect P)
    BY <1>2, <1>4, <1>8, <2>1, SumRemove
  <2> QED  BY <1>4, <1>5, <1>6, <1>8, <2>2
<1>9. CASE p \notin P
  <2>1. T \intersect P = (T \ {p}) \intersect P
    BY <1>9
  <2>2. g[p] = 0
    BY <1>4, <1>9
  <2>3. SumFunctionOnSet(g, T) = SumFunctionOnSet(g, T \ {p})
    <3> HIDE DEF g
    <3> QED  BY <1>5, <1>7, <2>2
  <2>4. SumFunctionOnSet(f, T \intersect P) = SumFunctionOnSet(g, T)
    BY <1>6, <2>1, <2>3
  <2> QED  BY <2>4
<1> QED  BY <1>8, <1>9

\* Of natural numbers no part sums to more than the whole
THEOREM SumAtMost ==
  ASSUME NEW S, IsFiniteSet(S), NEW f, \A x \in S : f[x] \in Nat, NEW P \in SUBSET S
  PROVE  SumFunctionOnSet(f, P) <= SumFunctionOnSet(f, S)
<1> DEFINE sum(T) == SumFunctionOnSet(f, T)
           C == {T \in SUBSET S : \E Q \in SUBSET T : ~ (sum(Q) <= sum(T))}
<1> HIDE DEF sum
<1> SUFFICES ASSUME C # {} PROVE FALSE
  BY DEF sum
<1>1. PICK T \in C : \A U \in SUBSET T : U # T => U \notin C
  <2>1. C \in SUBSET (SUBSET S)
    OBVIOUS
  <2> HIDE DEF C
  <2> QED  BY <2>1, SmallestSet
<1>2. PICK Q \in SUBSET T : ~ (sum(Q) <= sum(T))
  OBVIOUS
<1>3. \A U \in SUBSET S : sum(U) \in Nat
  BY SumType, FS_Subset DEF sum
<1>4. PICK x \in T : x \notin Q
  BY <1>2, <1>3
<1>5. sum(T) = f[x] + sum(T \ {x})
  <2>1. IsFiniteSet(T) /\ \A y \in T : f[y] \in Int
    BY FS_Subset
  <2> HIDE DEF C
  <2> QED  BY <2>1, SumRemove DEF sum
<1>6. sum(Q) <= sum(T \ {x})
  <2>1. T \ {x} \in SUBSET S /\ T \ {x} # T /\ T \ {x} \in SUBSET T /\ Q \in SUBSET (T \ {x})
    BY <1>4
  <2> QED  BY <1>1, <2>1
<1>7. sum(Q) \in Nat /\ sum(T \ {x}) \in Nat /\ f[x] \in Nat
  <2>1. Q \in SUBSET S /\ T \ {x} \in SUBSET S /\ x \in S
    OBVIOUS
  <2> QED  BY <1>3, <2>1
<1> QED  BY <1>2, <1>5, <1>6, <1>7
\* One more of x is one more in the sum over each part that x belongs to
THEOREM SumMore ==
  ASSUME NEW S, IsFiniteSet(S), NEW f, NEW g, NEW x,
         \A y \in S : f[y] \in Int /\ g[y] \in Int,
         \A y \in S \ {x} : g[y] = f[y],
         x \in S => g[x] = f[x] + 1
  PROVE  SumFunctionOnSet(g, S) = SumFunctionOnSet(f, S) + (IF x \in S THEN 1 ELSE 0)
<1>1. SumFunctionOnSet(f, S) \in Int
  BY SumType
<1>2. CASE x \in S
  <2>1. SumFunctionOnSet(g, S) = SumFunctionOnSet(f, S) + g[x] - f[x]
    BY <1>2, SumMoves
  <2> QED  BY <1>1, <1>2, <2>1
<1>3. CASE x \notin S
  <2>1. \A y \in S : g[y] = f[y]
    BY <1>3
  <2>2. SumFunctionOnSet(g, S) = SumFunctionOnSet(f, S)
    BY <2>1, SumSame
  <2> QED  BY <1>1, <1>3, <2>2
<1> QED  BY <1>2, <1>3
=============================================================================
