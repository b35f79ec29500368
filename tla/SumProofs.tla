----------------------------- MODULE SumProofs -----------------------------
(***************************************************************************)
(* Sums over finite sets.  The fold of the community modules is a          *)
(* recursive function on the subsets of its set; what it computes is shown *)
(* here by descent: the strict subsets of a finite set are well-founded,   *)
(* so among the sets for which a claim fails one would be minimal.         *)
(***************************************************************************)
EXTENDS Integers, FiniteSetsExt, FiniteSetTheorems, TLAPS

(* The sum of b over S, as CleanupManager's Sum writes it. *)
SumOf(b, S) == MapThenSumSet(LAMBDA k : b[k], S)

(* A set of finite sets has a member with no strict subset in it. *)
LEMMA MinimalSubset ==
  ASSUME NEW S, IsFiniteSet(S), NEW T, T \subseteq SUBSET S, T # {}
  PROVE  \E M \in T : \A N \in T : N \subseteq M => N = M
<1>1. FiniteSubsetsOf(S) = SUBSET S
  BY FS_FiniteSubsetsOfFinite
<1>2. IsWellFoundedOn(StrictSubsetOrdering(S), SUBSET S)
  BY <1>1, FS_StrictSubsetOrderingWellFounded
<1>3. PICK M \in T : \A N \in T : ~ (<<N, M>> \in StrictSubsetOrdering(S))
  <2> HIDE <1>1
  <2> QED BY <1>2, WFMin
<1>4. ASSUME NEW N \in T, N \subseteq M, N # M PROVE FALSE
  BY <1>3, <1>4 DEF StrictSubsetOrdering
<1>5. QED BY <1>4

(* f gives every subset of K the sum of b over it. *)
Additive(f, b, K) ==
  /\ f \in [SUBSET K -> Nat]
  /\ f[{}] = 0
  /\ \A S \in SUBSET K : \A x \in K \ S : f[S \cup {x}] = f[S] + b[x]

(* Some function is, for any b on a finite set: a least set without one    *)
(* would have it from the set without one of its elements.                 *)
LEMMA AdditiveExists ==
  ASSUME NEW K, IsFiniteSet(K), NEW b \in [K -> Nat]
  PROVE  \E f : Additive(f, b, K)
<1> DEFINE Bad == {T \in SUBSET K : ~ \E f : Additive(f, b, T)}
<1>1. SUFFICES ASSUME Bad # {} PROVE FALSE
  OBVIOUS
<1>2. PICK M \in Bad : \A N \in Bad : N \subseteq M => N = M
  <2>1. Bad \subseteq SUBSET K
    OBVIOUS
  <2> HIDE DEF Bad
  <2> QED
    BY <1>1, <2>1, MinimalSubset
<1>3. M # {}
  <2>1. Additive([S \in SUBSET {} |-> 0], b, {})
    BY DEF Additive
  <2>2. QED BY <2>1, <1>2
<1>4. PICK x \in M : TRUE
  BY <1>3
<1>5. PICK g : Additive(g, b, M \ {x})
  BY <1>2, <1>4
<1> DEFINE f == [S \in SUBSET M |-> g[S \ {x}] + (IF x \in S THEN b[x] ELSE 0)]
<1>6. b[x] \in Nat /\ x \in K
  BY <1>2, <1>4
<1>7. f \in [SUBSET M -> Nat]
  BY <1>5, <1>6 DEF Additive
<1>8. f[{}] = 0
  BY <1>5 DEF Additive
<1>9. ASSUME NEW S \in SUBSET M, NEW y \in M \ S
      PROVE  f[S \cup {y}] = f[S] + b[y]
  <2>1. S \cup {y} \in SUBSET M /\ S \ {x} \in SUBSET (M \ {x}) /\ g[S \ {x}] \in Nat
    BY <1>5, <1>9 DEF Additive
  <2>2. CASE y = x
    <3>1. (S \cup {y}) \ {x} = S \ {x}
      BY <2>2
    <3>2. f[S \cup {y}] = g[S \ {x}] + b[x] /\ f[S] = g[S \ {x}] + 0
      BY <1>9, <2>1, <2>2, <3>1
    <3>3. QED BY <3>2, <2>1, <2>2
  <2>3. CASE y # x
    <3>1. (S \cup {y}) \ {x} = (S \ {x}) \cup {y} /\ (x \in S \cup {y} <=> x \in S)
      BY <2>3
    <3>2. y \in (M \ {x}) \ (S \ {x})
      BY <1>9, <2>3
    <3>3. g[(S \ {x}) \cup {y}] = g[S \ {x}] + b[y]
      BY <1>5, <2>1, <3>2 DEF Additive
    <3>4. b[y] \in Nat
      BY <1>2, <1>9
    <3>5. f[S \cup {y}] = g[S \ {x}] + b[y] + (IF x \in S THEN b[x] ELSE 0)
      BY <2>1, <3>1, <3>3
    <3>6. f[S] = g[S \ {x}] + (IF x \in S THEN b[x] ELSE 0)
      BY <1>9
    <3> HIDE DEF f
    <3>7. QED BY <3>5, <3>6, <3>4, <2>1, <1>6
  <2>4. QED BY <2>2, <2>3
<1>10. Additive(f, b, M)
  <2> HIDE DEF f
  <2> QED BY <1>7, <1>8, <1>9 DEF Additive
<1>11. QED BY <1>10, <1>2

(* The fold agrees with every such f: it is the recursive function that    *)
(* takes out one element at a time, and f satisfies its equation.          *)
LEMMA SumIsAdditive ==
  ASSUME NEW K, IsFiniteSet(K), NEW b \in [K -> Nat], NEW f, Additive(f, b, K), NEW S \in SUBSET K
  PROVE  SumOf(b, S) = f[S]
<1> DEFINE Pick(s) == CHOOSE x \in s : TRUE
           Step(g) == [s \in SUBSET S |-> IF s = {} THEN 0 ELSE b[Pick(s)] + g[s \ {Pick(s)}]]
           iter == CHOOSE g : g = Step(g)
           h == [s \in SUBSET S |-> f[s]]
<1>1. SumOf(b, S) = iter[S]
  BY DEF SumOf, MapThenSumSet, MapThenFoldSet
<1>2. ASSUME NEW s \in SUBSET S, s # {} 
      PROVE  /\ Pick(s) \in s /\ s \ {Pick(s)} \in SUBSET S
             /\ f[s] = b[Pick(s)] + f[s \ {Pick(s)}]
  <2>1. Pick(s) \in s
    BY <1>2
  <2> DEFINE x == Pick(s)
  <2> HIDE DEF Pick, x
  <2>2. x \in s
    BY <2>1 DEF x
  <2>3. (s \ {x}) \cup {x} = s /\ s \ {x} \in SUBSET K /\ x \in K \ (s \ {x})
    BY <2>2
  <2>4. f[s] = f[s \ {x}] + b[x]
    BY <2>3 DEF Additive
  <2>5. f[s \ {x}] \in Nat /\ b[x] \in Nat
    BY <2>3 DEF Additive
  <2>6. QED BY <2>2, <2>4, <2>5 DEF x
<1>3. h = Step(h)
  <2> HIDE DEF Pick
  <2>1. ASSUME NEW s \in SUBSET S
        PROVE  f[s] = IF s = {} THEN 0 ELSE b[Pick(s)] + h[s \ {Pick(s)}]
    BY <1>2, <2>1 DEF Additive
  <2>2. QED BY <2>1
<1>4. iter = Step(iter)
  <2> HIDE DEF Step, h
  <2> QED BY <1>3
<1> HIDE DEF iter, Pick
<1> DEFINE Bad == {s \in SUBSET S : iter[s] # f[s]}
<1>5. SUFFICES ASSUME Bad # {} PROVE FALSE
  BY <1>1
<1>6. IsFiniteSet(S)
  BY FS_Subset
<1>7. PICK M \in Bad : \A N \in Bad : N \subseteq M => N = M
  <2>1. Bad \subseteq SUBSET S
    OBVIOUS
  <2> HIDE DEF Bad
  <2> QED
    BY <1>5, <1>6, <2>1, MinimalSubset
<1>8. iter[M] = IF M = {} THEN 0 ELSE b[Pick(M)] + iter[M \ {Pick(M)}]
  <2>1. Step(iter)[M] = IF M = {} THEN 0 ELSE b[Pick(M)] + iter[M \ {Pick(M)}]
    BY <1>7
  <2> HIDE DEF Step
  <2>2. QED BY <1>4, <2>1
<1>9. CASE M = {}
  BY <1>7, <1>8, <1>9 DEF Additive
<1>10. CASE M # {}
  <2>1. iter[M \ {Pick(M)}] = f[M \ {Pick(M)}]
    BY <1>2, <1>7, <1>10
  <2>2. QED BY <1>2, <1>7, <1>8, <1>10, <2>1
<1>11. QED BY <1>9, <1>10

-----------------------------------------------------------------------------
(* What the proofs about cleanups cite. *)

(* Sums of natural numbers are natural numbers. *)
LEMMA SumType ==
  ASSUME NEW K, IsFiniteSet(K), NEW b \in [K -> Nat], NEW S \in SUBSET K
  PROVE  SumOf(b, S) \in Nat
<1>1. PICK f : Additive(f, b, K)
  BY AdditiveExists
<1>2. SumOf(b, S) = f[S]
  BY <1>1, SumIsAdditive
<1> QED
  BY <1>1, <1>2 DEF Additive

(* Nothing sums to 0. *)
LEMMA SumEmpty ==
  ASSUME NEW K, IsFiniteSet(K), NEW b \in [K -> Nat]
  PROVE  SumOf(b, {}) = 0
<1>1. PICK f : Additive(f, b, K)
  BY AdditiveExists
<1>2. {} \in SUBSET K
  OBVIOUS
<1>3. SumOf(b, {}) = f[{}]
  BY <1>1, <1>2, SumIsAdditive
<1> QED
  BY <1>1, <1>3 DEF Additive

(* One more element adds its value. *)
LEMMA SumAdd ==
  ASSUME NEW K, IsFiniteSet(K), NEW b \in [K -> Nat], NEW S \in SUBSET K, NEW x \in K \ S
  PROVE  SumOf(b, S \cup {x}) = SumOf(b, S) + b[x]
<1>1. PICK f : Additive(f, b, K)
  BY AdditiveExists
<1>2. S \cup {x} \in SUBSET K
  OBVIOUS
<1>3. SumOf(b, S \cup {x}) = f[S \cup {x}]
  BY <1>1, <1>2, SumIsAdditive
<1>4. SumOf(b, S) = f[S]
  BY <1>1, SumIsAdditive
<1> QED
  BY <1>1, <1>3, <1>4 DEF Additive
=============================================================================
