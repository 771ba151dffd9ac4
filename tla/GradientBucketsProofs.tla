----------------------- MODULE GradientBucketsProofs -----------------------
(***************************************************************************)
(* Theorems about the division into buckets, for every model and limit:    *)
(* the buckets are consecutive, in order and complete, they keep the       *)
(* limit, and no division that does the same has fewer.  The operators are *)
(* folds over data; the proofs are inductions by least counterexample.     *)
(***************************************************************************)
EXTENDS OverlapPlan, FiniteSetTheorems, WellFoundedInduction, TLAPS

-----------------------------------------------------------------------------
(* Sequences and their types.                                              *)

\* A function over an initial part of the naturals is a sequence.
LEMMA FunctionIsSequence ==
  ASSUME NEW S, NEW m \in Nat, NEW f \in [1 .. m -> S]
  PROVE  f \in Seq(S) /\ Len(f) = m
  OBVIOUS

\* What a sequence is a sequence of, by its elements.
LEMMA SequenceOf ==
  ASSUME NEW S, NEW T, NEW B \in Seq(S), \A b \in 1 .. Len(B) : B[b] \in T
  PROVE  B \in Seq(T)
<1> DEFINE m == Len(B)
<1>1. m \in Nat /\ B = [b \in 1 .. m |-> B[b]] /\ \A b \in 1 .. m : B[b] \in T
  OBVIOUS
<1> HIDE DEF m
<1>2. B \in [1 .. m -> T]
  BY <1>1
<1> QED BY <1>1, <1>2, FunctionIsSequence

\* Where a division's parameters are.
LEMMA DivisionCovers ==
  ASSUME NEW size, NEW d, Divides(d, size), NEW p \in DOMAIN size
  PROVE  \E c \in DOMAIN d : p \in d[c]
<1>1. p \in UNION Range(d)
  BY DEF Divides
<1> QED BY <1>1 DEF Range
-----------------------------------------------------------------------------
(* Folds over finite sets.                                                 *)

\* Induction, as a statement about a set of naturals.
LEMMA Induction ==
  ASSUME NEW T, 0 \in T, \A n \in Nat : n \in T => n + 1 \in T
  PROVE  \A n \in Nat : n \in T
<1> DEFINE Rest == {n \in Nat : n \notin T}
<1>1. SUFFICES ASSUME Rest # {} PROVE FALSE
  OBVIOUS
<1>2. PICK m \in Rest : \A e \in Rest : ~ (<<e, m>> \in OpToRel(<, Nat))
  BY <1>1, NatLessThanWellFounded, WFMin
<1>3. m \in Nat /\ m # 0 /\ m \notin T
  OBVIOUS
<1>4. m - 1 \in Nat /\ m - 1 < m
  BY <1>3
<1>5. m - 1 \notin Rest
  <2>1. <<m - 1, m>> \in OpToRel(<, Nat)
    BY <1>3, <1>4 DEF OpToRel
  <2> QED BY <1>2, <2>1
<1>6. (m - 1) + 1 \in T
  BY <1>4, <1>5
<1> QED BY <1>3, <1>6

\* A set of one element more has an element, and one element less without it.
LEMMA OneLess ==
  ASSUME NEW s, IsFiniteSet(s), NEW n \in Nat, Cardinality(s) = n + 1
  PROVE  s # {} /\ \A x \in s : Cardinality(s \ {x}) = n
<1>1. s # {}
  BY FS_EmptySet
<1>2. ASSUME NEW x \in s PROVE Cardinality(s \ {x}) = n
  BY FS_RemoveElement
<1> QED BY <1>1, <1>2

\* f folds op over the sets of T, taking the elements of a set in the order of ch.
Folds(f, T, base, ch, op) ==
  \A s \in T : f[s] = IF s = {} THEN base ELSE op[<<ch[s], f[s \ {ch[s]}]>>]

\* Such a function exists for the subsets of a finite set: it is built up by their size.
LEMMA FoldExists ==
  ASSUME NEW S, IsFiniteSet(S), NEW D, NEW base \in D, NEW ch,
         \A s \in SUBSET S : s # {} => ch[s] \in s,
         NEW op \in [S \X D -> D]
  PROVE  \E f \in [SUBSET S -> D] : Folds(f, SUBSET S, base, ch, op)
<1> DEFINE Small(n) == {s \in SUBSET S : Cardinality(s) <= n}
           Sizes == {n \in Nat : \E f \in [Small(n) -> D] : Folds(f, Small(n), base, ch, op)}
<1>1. \A s \in SUBSET S : IsFiniteSet(s) /\ Cardinality(s) \in Nat
  BY FS_Subset, FS_CardinalityType
<1>2. \A s \in SUBSET S : Cardinality(s) = 0 <=> s = {}
  BY <1>1, FS_EmptySet
<1>3. \A s \in SUBSET S : s # {} =>
        s \ {ch[s]} \in SUBSET S /\ Cardinality(s \ {ch[s]}) = Cardinality(s) - 1
  BY <1>1, FS_RemoveElement
<1>4. 0 \in Sizes
  <2> DEFINE f == [s \in Small(0) |-> base]
  <2>1. \A s \in Small(0) : s = {}
    BY <1>1, <1>2
  <2>2. f \in [Small(0) -> D] /\ Folds(f, Small(0), base, ch, op)
    BY <2>1 DEF Folds
  <2> QED BY <2>2
<1>5. ASSUME NEW n \in Nat, n \in Sizes PROVE n + 1 \in Sizes
  <2>1. PICK f \in [Small(n) -> D] : Folds(f, Small(n), base, ch, op)
    BY <1>5
  <2> DEFINE g == [s \in Small(n + 1) |->
                     IF s = {} THEN base ELSE op[<<ch[s], f[s \ {ch[s]}]>>]]
  <2>2. ASSUME NEW s \in Small(n + 1), s # {} PROVE s \ {ch[s]} \in Small(n)
    BY <1>1, <1>3, <2>2
  <2>3. ASSUME NEW s \in Small(n) PROVE s \in Small(n + 1) /\ g[s] = f[s]
    <3>1. s \in Small(n + 1)
      BY <1>1
    <3>2. f[s] = IF s = {} THEN base ELSE op[<<ch[s], f[s \ {ch[s]}]>>]
      BY <2>1 DEF Folds
    <3> QED BY <3>1, <3>2
  <2>4. g \in [Small(n + 1) -> D]
    <3>1. ASSUME NEW s \in Small(n + 1), s # {}
          PROVE  op[<<ch[s], f[s \ {ch[s]}]>>] \in D
      <4>1. f[s \ {ch[s]}] \in D /\ ch[s] \in S
        BY <2>1, <2>2, <3>1
      <4> QED BY <4>1
    <3> QED BY <3>1
  <2>5. Folds(g, Small(n + 1), base, ch, op)
    <3>1. ASSUME NEW s \in Small(n + 1), s # {}
          PROVE  g[s] = op[<<ch[s], g[s \ {ch[s]}]>>]
      <4>1. g[s \ {ch[s]}] = f[s \ {ch[s]}]
        BY <2>2, <2>3, <3>1
      <4>2. g[s] = op[<<ch[s], f[s \ {ch[s]}]>>]
        BY <3>1
      <4> HIDE DEF g
      <4> QED BY <4>1, <4>2
    <3>2. ASSUME NEW s \in Small(n + 1), s = {} PROVE g[s] = base
      BY <3>2
    <3> HIDE DEF g
    <3> QED BY <3>1, <3>2 DEF Folds
  <2>6. \E h \in [Small(n + 1) -> D] : Folds(h, Small(n + 1), base, ch, op)
    <3> HIDE DEF g
    <3> QED BY <2>4, <2>5
  <2> HIDE DEF Small
  <2> QED BY <2>6
<1> DEFINE N == Cardinality(S)
<1>6. N \in Sizes
  <2>1. N \in Nat
    BY <1>1
  <2> HIDE DEF Sizes
  <2> QED BY <1>4, <1>5, <2>1, Induction
<1>7. Small(N) = SUBSET S
  BY FS_Subset
<1> HIDE DEF N, Small
<1>8. PICK f \in [Small(N) -> D] : Folds(f, Small(N), base, ch, op)
  BY <1>6
<1> HIDE DEF Sizes
<1> QED BY <1>7, <1>8
-----------------------------------------------------------------------------
(* The elements of a bucket.                                               *)

Picked(s) == CHOOSE x \in s : TRUE
SumStep(size, f, s) ==
  IF s = {} THEN 0 ELSE size[CHOOSE x \in s : TRUE] + f[s \ {CHOOSE x \in s : TRUE}]
\* f sums the elements of every subset of S.
Sums(size, f, S) == \A s \in SUBSET S : f[s] = SumStep(size, f, s)

\* The sum is a value of a function that satisfies the recursion, if there is one.
LEMMA ElementsIsFold ==
  ASSUME NEW size, NEW S, NEW g, g = [s \in SUBSET S |-> SumStep(size, g, s)]
  PROVE  \E f : /\ f = [s \in SUBSET S |-> SumStep(size, f, s)]
                /\ Elements(size, S) = f[S]
<1> DEFINE It == CHOOSE f : f = [s \in SUBSET S |->
                   IF s = {} THEN 0
                   ELSE LET x == CHOOSE x \in s : TRUE IN size[x] + f[s \ {x}]]
<1>1. Elements(size, S) = It[S]
  BY Zenon DEF Elements, MapThenSumSet, MapThenFoldSet
<1>2. g = [s \in SUBSET S |->
             IF s = {} THEN 0
             ELSE LET x == CHOOSE x \in s : TRUE IN size[x] + g[s \ {x}]]
  BY Zenon DEF SumStep
<1>3. It = [s \in SUBSET S |->
              IF s = {} THEN 0
              ELSE LET x == CHOOSE x \in s : TRUE IN size[x] + It[s \ {x}]]
  BY <1>2, Zenon
<1> QED BY <1>1, <1>3, Zenon DEF SumStep

\* Every two functions that satisfy it on a finite set agree.
LEMMA SumsAgree ==
  ASSUME NEW size, NEW S, NEW T, NEW f, NEW h, IsFiniteSet(S), S \subseteq T,
         Sums(size, f, S), Sums(size, h, T)
  PROVE  f[S] = h[S]
<1> DEFINE Sizes == {n \in Nat : \A s \in SUBSET S : Cardinality(s) = n => f[s] = h[s]}
<1>1. \A s \in SUBSET S : IsFiniteSet(s) /\ Cardinality(s) \in Nat
  BY FS_Subset, FS_CardinalityType
<1>2. 0 \in Sizes
  <2>1. ASSUME NEW s \in SUBSET S, Cardinality(s) = 0 PROVE f[s] = h[s]
    <3>1. s = {} /\ s \in SUBSET T
      BY <1>1, <2>1, FS_EmptySet
    <3>2. f[s] = SumStep(size, f, s) /\ h[s] = SumStep(size, h, s)
      BY <3>1 DEF Sums
    <3> QED BY <3>1, <3>2 DEF SumStep
  <2> QED BY <2>1
<1>3. ASSUME NEW n \in Nat, n \in Sizes PROVE n + 1 \in Sizes
  <2>1. ASSUME NEW s \in SUBSET S, Cardinality(s) = n + 1 PROVE f[s] = h[s]
    <3>1. s # {} /\ s \in SUBSET T /\ \A y \in s : Cardinality(s \ {y}) = n
      BY <1>1, <2>1, OneLess
    <3> DEFINE x == Picked(s)
    <3>2. x \in s
      BY <3>1 DEF Picked
    <3>3. s \ {x} \in SUBSET S /\ Cardinality(s \ {x}) = n
      BY <3>1, <3>2
    <3>4. f[s \ {x}] = h[s \ {x}]
      BY <1>3, <3>3
    <3>5. f[s] = SumStep(size, f, s) /\ h[s] = SumStep(size, h, s)
      BY <2>1, <3>1 DEF Sums
    <3>6. SumStep(size, f, s) = SumStep(size, h, s)
      BY <3>1, <3>4 DEF SumStep, Picked
    <3> QED BY <3>5, <3>6
  <2> QED BY <2>1, <1>3
<1> HIDE DEF Sizes
<1>4. Cardinality(S) \in Sizes
  BY <1>1, <1>2, <1>3, Induction
<1> QED BY <1>4 DEF Sizes

\* The sum over a bucket, one of its parameters at a time.
LEMMA ElementsRecursion ==
  ASSUME NEW size \in Seq(Nat), NEW s \in SUBSET DOMAIN size
  PROVE  /\ Elements(size, s) \in Nat
         /\ s = {} => Elements(size, s) = 0
         /\ s # {} => /\ Picked(s) \in s
                      /\ Elements(size, s)
                         = size[Picked(s)] + Elements(size, s \ {Picked(s)})
<1> DEFINE U == DOMAIN size
           ch == [t \in SUBSET U |-> Picked(t)]
           op == [x \in U \X Nat |-> size[x[1]] + x[2]]
<1>1. U = 1 .. Len(size) /\ Len(size) \in Nat /\ \A p \in U : size[p] \in Nat
  OBVIOUS
<1>2. IsFiniteSet(U)
  BY <1>1, FS_Interval
<1>3. \A t \in SUBSET U : t # {} => Picked(t) \in t
  BY DEF Picked
<1>4. \A t \in SUBSET U : t # {} => ch[t] \in t
  BY <1>3
<1>5. op \in [U \X Nat -> Nat]
  <2>1. ASSUME NEW x \in U \X Nat PROVE size[x[1]] + x[2] \in Nat
    BY <1>1
  <2> QED BY <2>1
<1>6. PICK h \in [SUBSET U -> Nat] : Folds(h, SUBSET U, 0, ch, op)
  <2> HIDE DEF U, ch, op
  <2> QED BY <1>2, <1>4, <1>5, FoldExists
<1>7. \A t \in SUBSET U : h[t] = SumStep(size, h, t)
  <2>1. ASSUME NEW t \in SUBSET U PROVE h[t] = SumStep(size, h, t)
    <3>1. CASE t = {}
      BY <1>6, <3>1 DEF Folds, SumStep
    <3>2. CASE t # {}
      <4>1. h[t] = op[<<ch[t], h[t \ {ch[t]}]>>]
        BY <1>6, <3>2 DEF Folds
      <4>2. ch[t] = Picked(t) /\ Picked(t) \in U
        BY <1>3, <3>2
      <4>3. h[t \ {Picked(t)}] \in Nat
        BY <1>6
      <4>4. <<Picked(t), h[t \ {Picked(t)}]>> \in U \X Nat
        BY <4>2, <4>3
      <4>5. h[t] = size[Picked(t)] + h[t \ {Picked(t)}]
        BY <4>1, <4>2, <4>4
      <4> QED BY <4>5, <3>2 DEF SumStep, Picked
    <3> QED BY <3>1, <3>2
  <2> QED BY <2>1
<1>8. ASSUME NEW t \in SUBSET U PROVE Elements(size, t) = h[t]
  <2> DEFINE g == [r \in SUBSET t |-> h[r]]
  <2>1. ASSUME NEW r \in SUBSET t PROVE h[r] = SumStep(size, g, r)
    <3>1. h[r] = SumStep(size, h, r)
      BY <1>7
    <3>2. r \ {Picked(r)} \in SUBSET t
      OBVIOUS
    <3>3. g[r \ {Picked(r)}] = h[r \ {Picked(r)}]
      BY <3>2
    <3> HIDE DEF g
    <3> QED BY <3>1, <3>3 DEF SumStep, Picked
  <2>2. g = [r \in SUBSET t |-> SumStep(size, g, r)]
    BY <2>1
  <2> HIDE DEF g
  <2>3. PICK f : /\ f = [r \in SUBSET t |-> SumStep(size, f, r)]
                 /\ Elements(size, t) = f[t]
    BY <2>2, ElementsIsFold
  <2>4. \A r \in SUBSET t : f[r] = SumStep(size, f, r)
    BY <2>3
  <2>5. IsFiniteSet(t)
    BY <1>2, FS_Subset
  <2>6. f[t] = h[t]
    <3>1. t \subseteq U
      OBVIOUS
    <3> HIDE DEF U
    <3>2. Sums(size, f, t) /\ Sums(size, h, U)
      BY <1>7, <2>4 DEF Sums
    <3> QED BY <2>5, <3>1, <3>2, SumsAgree
  <2> QED BY <2>3, <2>6
<1>9. s \in SUBSET U /\ s \ {Picked(s)} \in SUBSET U
  OBVIOUS
<1>10. Elements(size, s) = h[s] /\ Elements(size, s \ {Picked(s)}) = h[s \ {Picked(s)}]
  BY <1>8, <1>9
<1>11. h[s] \in Nat
  BY <1>6, <1>9
<1>12. h[s] = SumStep(size, h, s)
  BY <1>7, <1>9
<1>13. s = {} => h[s] = 0
  BY <1>12 DEF SumStep
<1>14. s # {} => h[s] = size[Picked(s)] + h[s \ {Picked(s)}]
  BY <1>12 DEF SumStep, Picked
<1> QED BY <1>3, <1>9, <1>10, <1>11, <1>13, <1>14

\* Adding a parameter adds its elements, whatever order the sum takes.
LEMMA ElementsAdd ==
  ASSUME NEW size \in Seq(Nat), NEW s \in SUBSET DOMAIN size,
         NEW p \in DOMAIN size, p \notin s
  PROVE  Elements(size, s \cup {p}) = Elements(size, s) + size[p]
<1> DEFINE E(t) == Elements(size, t)
           Sizes == {n \in Nat : \A t \in SUBSET DOMAIN size, q \in DOMAIN size :
                       q \notin t /\ Cardinality(t) = n => E(t \cup {q}) = E(t) + size[q]}
<1>1. IsFiniteSet(DOMAIN size) /\ \A q \in DOMAIN size : size[q] \in Nat
  BY FS_Interval
<1>2. \A t \in SUBSET DOMAIN size : IsFiniteSet(t) /\ Cardinality(t) \in Nat
  BY <1>1, FS_Subset, FS_CardinalityType
<1>3. \A t \in SUBSET DOMAIN size :
        /\ E(t) \in Nat
        /\ t = {} => E(t) = 0
        /\ t # {} => Picked(t) \in t /\ E(t) = size[Picked(t)] + E(t \ {Picked(t)})
  BY ElementsRecursion
<1> HIDE DEF E
<1>4. 0 \in Sizes
  <2>1. ASSUME NEW t \in SUBSET DOMAIN size, NEW q \in DOMAIN size, Cardinality(t) = 0
        PROVE  E(t \cup {q}) = E(t) + size[q]
    <3>1. t = {} /\ E(t) = 0
      BY <1>2, <1>3, <2>1, FS_EmptySet
    <3>2. Picked({q}) = q /\ {q} \ {q} = {} /\ {} \in SUBSET DOMAIN size
      BY DEF Picked
    <3>3. E({q}) = size[q] + E({})
      BY <1>3, <3>2
    <3> QED BY <1>1, <1>3, <3>1, <3>3
  <2> QED BY <2>1
<1>5. ASSUME NEW n \in Nat, n \in Sizes PROVE n + 1 \in Sizes
  <2>1. ASSUME NEW t \in SUBSET DOMAIN size, NEW q \in DOMAIN size, q \notin t,
               Cardinality(t) = n + 1
        PROVE  E(t \cup {q}) = E(t) + size[q]
    <3> DEFINE w == t \cup {q}
               x == Picked(w)
    <3>1. w \in SUBSET DOMAIN size /\ w # {} /\ E(t) \in Nat /\ size[q] \in Nat
      BY <1>1, <1>3
    <3>2. x \in w /\ E(w) = size[x] + E(w \ {x})
      BY <1>3, <3>1
    <3> HIDE DEF x
    <3>3. CASE x = q
      <4>1. w \ {x} = t
        BY <2>1, <3>3
      <4> HIDE DEF w
      <4>2. E(w) = size[q] + E(t)
        BY <3>2, <3>3, <4>1
      <4>3. E(w) = E(t) + size[q]
        BY <3>1, <4>2
      <4> QED BY <4>3 DEF w
    <3>4. CASE x # q
      <4> DEFINE r == t \ {x}
      <4>1. x \in t /\ x \in DOMAIN size
        BY <3>2, <3>4
      <4>2. r \in SUBSET DOMAIN size /\ Cardinality(r) = n
        BY <1>2, <2>1, <4>1, OneLess
      <4>3. x \notin r /\ q \notin r /\ w \ {x} = r \cup {q} /\ t = r \cup {x}
        BY <2>1, <3>4, <4>1
      <4> HIDE DEF r, w
      <4>4. E(r \cup {q}) = E(r) + size[q] /\ E(r \cup {x}) = E(r) + size[x]
        <5>1. \A u \in SUBSET DOMAIN size, z \in DOMAIN size :
                z \notin u /\ Cardinality(u) = n => E(u \cup {z}) = E(u) + size[z]
          BY <1>5
        <5> HIDE DEF E
        <5> QED BY <4>1, <4>2, <4>3, <5>1
      <4>5. E(r) \in Nat /\ size[x] \in Nat /\ size[q] \in Nat
        BY <1>1, <1>3, <3>1, <4>1, <4>2
      <4>6. E(w) = size[x] + (E(r) + size[q]) /\ E(t) = E(r) + size[x]
        BY <3>2, <4>3, <4>4
      <4>7. size[x] + (E(r) + size[q]) = (E(r) + size[x]) + size[q]
        <5> HIDE DEF E, Sizes
        <5> QED BY <4>5
      <4>8. E(w) = E(t) + size[q]
        BY <4>6, <4>7
      <4> QED BY <4>8 DEF w
    <3> QED BY <3>3, <3>4
  <2> QED BY <2>1, <1>5
<1> HIDE DEF Sizes
<1>6. Cardinality(s) \in Sizes
  BY <1>2, <1>4, <1>5, Induction
<1>7. E(s \cup {p}) = E(s) + size[p]
  BY <1>6 DEF Sizes
<1> QED BY <1>7 DEF E

\* A bucket has at least the elements of every part of it.
LEMMA ElementsMonotone ==
  ASSUME NEW size \in Seq(Nat), NEW t \in SUBSET DOMAIN size, NEW s \in SUBSET t
  PROVE  Elements(size, s) <= Elements(size, t)
<1> DEFINE E(r) == Elements(size, r)
           Sizes == {n \in Nat : \A r \in SUBSET t :
                       s \subseteq r /\ Cardinality(r \ s) = n => E(s) <= E(r)}
<1>1. IsFiniteSet(DOMAIN size) /\ \A q \in DOMAIN size : size[q] \in Nat
  BY FS_Interval
<1>2. \A r \in SUBSET t : IsFiniteSet(r \ s) /\ Cardinality(r \ s) \in Nat
  BY <1>1, FS_Subset, FS_CardinalityType
<1>3. \A r \in SUBSET t : E(r) \in Nat
  BY ElementsRecursion
<1>4. \A r \in SUBSET t, q \in t : q \notin r => E(r \cup {q}) = E(r) + size[q]
  BY ElementsAdd
<1> HIDE DEF E
<1>5. 0 \in Sizes
  <2>1. ASSUME NEW r \in SUBSET t, s \subseteq r, Cardinality(r \ s) = 0
        PROVE  E(s) <= E(r)
    <3>1. r \ s = {}
      BY <1>2, <2>1, FS_EmptySet
    <3>2. r = s
      BY <2>1, <3>1
    <3> QED BY <1>3, <3>2
  <2> QED BY <2>1
<1>6. ASSUME NEW n \in Nat, n \in Sizes PROVE n + 1 \in Sizes
  <2>1. ASSUME NEW r \in SUBSET t, s \subseteq r, Cardinality(r \ s) = n + 1
        PROVE  E(s) <= E(r)
    <3>1. r \ s # {} /\ \A y \in r \ s : Cardinality((r \ s) \ {y}) = n
      BY <1>2, <2>1, OneLess
    <3>2. PICK q : q \in r \ s
      BY <3>1
    <3> DEFINE w == r \ {q}
    <3>3. w \in SUBSET t /\ s \subseteq w /\ q \in t /\ q \notin w /\ r = w \cup {q}
      BY <2>1, <3>2
    <3>4. w \ s = (r \ s) \ {q}
      OBVIOUS
    <3>5. Cardinality(w \ s) = n
      BY <3>1, <3>2, <3>4
    <3> HIDE DEF w
    <3>6. E(s) <= E(w)
      BY <1>6, <3>3, <3>5
    <3>7. E(r) = E(w) + size[q] /\ size[q] \in Nat
      BY <1>1, <1>4, <3>3
    <3> QED BY <1>3, <3>3, <3>6, <3>7
  <2> QED BY <2>1, <1>6
<1> HIDE DEF Sizes
<1>7. Cardinality(t \ s) \in Sizes
  BY <1>2, <1>5, <1>6, Induction
<1>8. E(s) <= E(t)
  BY <1>7 DEF Sizes
<1> QED BY <1>8 DEF E

-----------------------------------------------------------------------------
(* The buckets, one parameter at a time.                                   *)

\* Max of a set of naturals is its greatest element.
LEMMA GreatestIsMax ==
  ASSUME NEW T, T \subseteq Nat, NEW k \in T, \A y \in T : y <= k
  PROVE  Max(T) = k
<1> DEFINE Top(x) == x \in T /\ \A y \in T : x >= y
<1>1. Top(k)
  OBVIOUS
<1>2. \A x : Top(x) => x = k
  <2>1. ASSUME NEW x, Top(x) PROVE x = k
    <3>1. x \in Nat /\ k \in Nat /\ x >= k /\ x <= k
      BY <2>1
    <3> QED BY <3>1
  <2> QED BY <2>1
<1>3. Top(CHOOSE x : Top(x))
  BY <1>1, Zenon
<1>4. (CHOOSE x : Top(x)) = k
  <2> HIDE DEF Top
  <2> QED BY <1>2, <1>3
<1> QED BY <1>4 DEF Max

\* Max chooses an element of every set of parameters.
LEMMA MaxOfParameters ==
  ASSUME NEW n \in Nat, NEW s \in SUBSET (1 .. n), s # {}
  PROVE  Max(s) \in s
<1> DEFINE Above == {n - x : x \in s}
<1>1. Above \subseteq Nat /\ Above # {}
  <2>1. \A x \in s : n - x \in Nat
    OBVIOUS
  <2> QED BY <2>1
<1>2. PICK d \in Above : \A e \in Above : ~ (<<e, d>> \in OpToRel(<, Nat))
  BY <1>1, NatLessThanWellFounded, WFMin
<1>3. PICK m \in s : d = n - m
  OBVIOUS
<1>4. ASSUME NEW y \in s PROVE m >= y
  <2>1. n - y \in Nat /\ d \in Nat /\ n - y \in Above
    BY <1>1
  <2>2. ~ (n - y < d)
    BY <1>2, <2>1 DEF OpToRel
  <2> QED BY <1>3, <2>1, <2>2
<1> DEFINE Top(x) == x \in s /\ \A y \in s : x >= y
<1>5. Top(m)
  BY <1>4
<1>6. Top(CHOOSE x : Top(x))
  BY <1>5, Zenon
<1> QED BY <1>6 DEF Max

PlaceStep(size, limit, f, s) ==
  IF s = {} THEN <<>>
  ELSE Place(size, limit, f[s \ {Max(s)}], [p \in DOMAIN size |-> p][Max(s)])

Placing(size, limit, f, S) == f = [s \in SUBSET S |-> PlaceStep(size, limit, f, s)]

\* The buckets are a value of a function that satisfies the recursion, if there is one.
LEMMA MakeRangesIsFold ==
  ASSUME NEW size, NEW limit, NEW S, S = DOMAIN [p \in DOMAIN size |-> p],
         NEW g, Placing(size, limit, g, S)
  PROVE  \E f : Placing(size, limit, f, S) /\ MakeRanges(size, limit) = f[S]
<1> DEFINE It == CHOOSE f : f = [s \in SUBSET S |->
                   IF s = {} THEN <<>>
                   ELSE LET x == Max(s)
                        IN Place(size, limit, f[s \ {x}], [p \in DOMAIN size |-> p][x])]
<1>1. MakeRanges(size, limit) = It[S]
  BY Zenon DEF MakeRanges, FoldLeft, MapThenFoldSet
<1>2. g = [s \in SUBSET S |->
             IF s = {} THEN <<>>
             ELSE LET x == Max(s)
                  IN Place(size, limit, g[s \ {x}], [p \in DOMAIN size |-> p][x])]
  BY Zenon DEF Placing, PlaceStep
<1>3. It = [s \in SUBSET S |->
              IF s = {} THEN <<>>
              ELSE LET x == Max(s)
                   IN Place(size, limit, It[s \ {x}], [p \in DOMAIN size |-> p][x])]
  BY <1>2, Zenon
<1> QED BY <1>1, <1>3, Zenon DEF Placing, PlaceStep

\* A parameter is placed in buckets of parameters.
LEMMA PlaceType ==
  ASSUME NEW size, NEW limit, NEW U, NEW B \in Seq(SUBSET U), NEW p \in U
  PROVE  Place(size, limit, B, p) \in Seq(SUBSET U)
<1>1. Append(B, {p}) \in Seq(SUBSET U)
  OBVIOUS
<1>2. [B EXCEPT ![Len(B)] = @ \cup {p}] \in Seq(SUBSET U)
  <2> DEFINE C == [B EXCEPT ![Len(B)] = @ \cup {p}]
  <2>1. B \in [1 .. Len(B) -> SUBSET U] /\ Len(B) \in Nat
    OBVIOUS
  <2>2. DOMAIN C = 1 .. Len(B)
    BY <2>1
  <2>3. ASSUME NEW b \in 1 .. Len(B) PROVE C[b] \in SUBSET U
    <3>1. B[b] \in SUBSET U
      BY <2>1
    <3>2. C[b] = B[b] \/ C[b] = B[b] \cup {p}
      BY <2>1
    <3> QED BY <3>1, <3>2
  <2>4. C = [b \in 1 .. Len(B) |-> C[b]]
    BY <2>2
  <2> HIDE DEF C
  <2>5. C \in [1 .. Len(B) -> SUBSET U]
    BY <2>3, <2>4
  <2>6. C \in Seq(SUBSET U)
    BY <2>1, <2>5, FunctionIsSequence
  <2> QED BY <2>6 DEF C
<1> QED BY <1>1, <1>2 DEF Place

\* make_ranges places the parameters one after the other.
LEMMA MakeRangesRecursion ==
  ASSUME NEW size \in Seq(Nat), NEW limit
  PROVE  \E R : /\ R[0] = <<>>
                /\ \A k \in 1 .. Len(size) : R[k] = Place(size, limit, R[k - 1], k)
                /\ MakeRanges(size, limit) = R[Len(size)]
<1> DEFINE n == Len(size)
           U == 1 .. n
           D == Seq(SUBSET U)
           ch == [s \in SUBSET U |-> Max(s)]
           op == [x \in U \X D |-> Place(size, limit, x[2], x[1])]
           Id == [p \in DOMAIN size |-> p]
<1>1. n \in Nat /\ DOMAIN size = U /\ DOMAIN Id = U /\ IsFiniteSet(U)
  BY FS_Interval
<1>2. \A s \in SUBSET U : s # {} => Max(s) \in s
  BY <1>1, MaxOfParameters
<1>3. \A p \in U : Id[p] = p
  BY <1>1
<1> HIDE DEF n, Id
<1>4. \A s \in SUBSET U : s # {} => ch[s] \in s
  BY <1>2
<1>5. op \in [U \X D -> D]
  <2>1. ASSUME NEW x \in U \X D PROVE Place(size, limit, x[2], x[1]) \in D
    <3>1. x[1] \in U /\ x[2] \in D
      OBVIOUS
    <3> HIDE DEF U
    <3> QED BY <3>1, PlaceType
  <2> QED BY <2>1
<1>6. <<>> \in D
  OBVIOUS
<1>7. PICK h \in [SUBSET U -> D] : Folds(h, SUBSET U, <<>>, ch, op)
  <2> HIDE DEF U, D, ch, op
  <2> QED BY <1>1, <1>4, <1>5, <1>6, FoldExists
<1>8. ASSUME NEW s \in SUBSET U PROVE h[s] = PlaceStep(size, limit, h, s)
  <2>1. CASE s = {}
    BY <1>7, <2>1 DEF Folds, PlaceStep
  <2>2. CASE s # {}
    <3>1. h[s] = op[<<ch[s], h[s \ {ch[s]}]>>]
      BY <1>7, <2>2 DEF Folds
    <3>2. ch[s] = Max(s) /\ Max(s) \in U
      BY <1>2, <2>2
    <3>3. s \ {Max(s)} \in SUBSET U
      OBVIOUS
    <3>4. h[s \ {Max(s)}] \in D
      BY <1>7, <3>3
    <3>5. <<Max(s), h[s \ {Max(s)}]>> \in U \X D
      BY <3>2, <3>4
    <3> HIDE DEF U, D
    <3>6. h[s] = Place(size, limit, h[s \ {Max(s)}], Max(s))
      BY <3>1, <3>2, <3>5
    <3>7. Id[Max(s)] = Max(s)
      BY <1>3, <3>2
    <3> QED BY <3>6, <3>7, <2>2 DEF PlaceStep, Id
  <2> QED BY <2>1, <2>2
<1>9. Placing(size, limit, h, U)
  BY <1>8 DEF Placing
<1>10. U = DOMAIN [p \in DOMAIN size |-> p]
  BY <1>1
<1>11. PICK f : Placing(size, limit, f, U) /\ MakeRanges(size, limit) = f[U]
  <2> HIDE DEF U
  <2> QED BY <1>9, <1>10, MakeRangesIsFold
<1>12. \A s \in SUBSET U : f[s] = PlaceStep(size, limit, f, s)
  BY <1>11 DEF Placing
<1> DEFINE R == [k \in 0 .. n |-> f[1 .. k]]
<1>13. R[0] = <<>>
  <2>1. 1 .. 0 = {} /\ {} \in SUBSET U
    OBVIOUS
  <2>2. f[{}] = <<>>
    BY <1>12, <2>1 DEF PlaceStep
  <2> QED BY <1>1, <2>1, <2>2
<1>14. ASSUME NEW k \in 1 .. n PROVE R[k] = Place(size, limit, R[k - 1], k)
  <2>1. k \in Nat /\ k # 0 /\ k \in U /\ k \in 0 .. n /\ k - 1 \in 0 .. n
    BY <1>1
  <2>2. 1 .. k \in SUBSET U /\ 1 .. k # {} /\ (1 .. k) \ {k} = 1 .. (k - 1)
    <3>1. k \in 1 .. k
      BY <2>1
    <3>2. \A x \in 1 .. k : x \in U
      BY <1>1, <2>1
    <3>3. \A x : x \in (1 .. k) \ {k} <=> x \in 1 .. (k - 1)
      BY <2>1
    <3> QED BY <3>1, <3>2, <3>3
  <2>3. Max(1 .. k) = k
    <3>1. 1 .. k \subseteq Nat /\ k \in 1 .. k /\ \A y \in 1 .. k : y <= k
      BY <2>1
    <3> QED BY <3>1, GreatestIsMax
  <2>4. f[1 .. k] = Place(size, limit, f[1 .. (k - 1)], Id[k])
    BY <1>12, <2>2, <2>3 DEF PlaceStep, Id
  <2>5. R[k] = f[1 .. k] /\ R[k - 1] = f[1 .. (k - 1)]
    BY <2>1
  <2> QED BY <1>3, <2>1, <2>4, <2>5
<1>15. MakeRanges(size, limit) = R[n]
  BY <1>1, <1>11
<1> HIDE DEF R
<1> QED BY <1>13, <1>14, <1>15 DEF n

-----------------------------------------------------------------------------
(* One more parameter.                                                     *)

\* p joins the last bucket of B, which becomes C; p has a bucket of its own in C.
Joins(size, limit, B, C, p) ==
  /\ Len(B) # 0 /\ Len(C) = Len(B)
  /\ C[Len(B)] = B[Len(B)] \cup {p}
  /\ \A b \in 1 .. Len(B) - 1 : C[b] = B[b]
  /\ Elements(size, B[Len(B)]) + size[p] <= limit
Opens(size, limit, B, C, p) ==
  /\ Len(C) = Len(B) + 1
  /\ C[Len(B) + 1] = {p}
  /\ \A b \in 1 .. Len(B) : C[b] = B[b]
  /\ Len(B) # 0 => \/ ~ (Elements(size, B[Len(B)]) < limit)
                   \/ ~ (Elements(size, B[Len(B)]) + size[p] <= limit)

\* The buckets before the last one.
LEMMA BeforeLast ==
  ASSUME NEW m \in Nat, NEW b \in 1 .. m - 1
  PROVE  b \in 1 .. m /\ b # m
  OBVIOUS

\* Place does one or the other.
LEMMA PlaceCases ==
  ASSUME NEW size, NEW limit, NEW U, NEW B \in Seq(SUBSET U), NEW p \in U,
         NEW C, C = Place(size, limit, B, p)
  PROVE  /\ C \in Seq(SUBSET U)
         /\ Joins(size, limit, B, C, p) \/ Opens(size, limit, B, C, p)
<1> DEFINE e == Elements(size, Last(B))
           Room == B # <<>> /\ e < limit /\ e + size[p] <= limit
<1>1. C \in Seq(SUBSET U)
  BY PlaceType
<1>2. Len(B) \in Nat /\ DOMAIN B = 1 .. Len(B) /\ (B # <<>> <=> Len(B) # 0)
  OBVIOUS
<1>3. Last(B) = B[Len(B)]
  BY DEF Last
<1>4. CASE Room
  <2>1. C = [B EXCEPT ![Len(B)] = @ \cup {p}]
    BY <1>4 DEF Place
  <2>2. Len(B) \in 1 .. Len(B) /\ Len(B) # 0
    BY <1>2, <1>4
  <2>3. DOMAIN C = 1 .. Len(B) /\ C[Len(B)] = B[Len(B)] \cup {p}
    BY <1>2, <2>1, <2>2
  <2>4. ASSUME NEW b \in 1 .. Len(B) - 1 PROVE C[b] = B[b]
    <3>1. b \in DOMAIN B /\ b # Len(B)
      BY <1>2, BeforeLast
    <3> QED BY <2>1, <3>1
  <2>5. Len(C) = Len(B)
    BY <1>1, <1>2, <2>3
  <2>6. Elements(size, B[Len(B)]) + size[p] <= limit
    BY <1>3, <1>4
  <2> QED BY <1>1, <2>2, <2>3, <2>4, <2>5, <2>6 DEF Joins
<1>5. CASE ~Room
  <2>1. C = Append(B, {p})
    BY <1>5 DEF Place
  <2>2. Len(C) = Len(B) + 1 /\ C[Len(B) + 1] = {p} /\ \A b \in 1 .. Len(B) : C[b] = B[b]
    BY <2>1
  <2>3. Len(B) # 0 => \/ ~ (Elements(size, B[Len(B)]) < limit)
                      \/ ~ (Elements(size, B[Len(B)]) + size[p] <= limit)
    BY <1>2, <1>3, <1>5
  <2> QED BY <1>1, <2>2, <2>3 DEF Opens
<1> QED BY <1>4, <1>5

\* B divides the first k parameters into buckets that keep the limit, the last of
\* which ends with parameter k.
Placed(size, limit, B, k) ==
  /\ B \in Seq(SUBSET (1 .. k))
  /\ \A b \in 1 .. Len(B) : B[b] # {}
  /\ \A p \in 1 .. k : \E b \in 1 .. Len(B) : p \in B[b]
  /\ \A b, c \in 1 .. Len(B) : b < c => \A p \in B[b], q \in B[c] : p < q
  /\ \A b \in 1 .. Len(B) : Cardinality(B[b]) = 1 \/ Elements(size, B[b]) <= limit
  /\ k # 0 => Len(B) # 0 /\ k \in B[Len(B)]

\* Placing the next parameter keeps that.
LEMMA PlacedNext ==
  ASSUME NEW size \in Seq(Nat), NEW limit \in Nat, NEW k \in Nat, k < Len(size), NEW B,
         Placed(size, limit, B, k)
  PROVE  Placed(size, limit, Place(size, limit, B, k + 1), k + 1)
<1> DEFINE C == Place(size, limit, B, k + 1)
           m == Len(B)
<1>1. /\ B \in Seq(SUBSET (1 .. k)) /\ m \in Nat
      /\ \A b \in 1 .. m : B[b] \in SUBSET (1 .. k) /\ B[b] # {}
  BY DEF Placed
<1>2. \A p \in 1 .. k : \E b \in 1 .. m : p \in B[b]
  BY DEF Placed
<1>3. \A b, c \in 1 .. m : b < c => \A p \in B[b], q \in B[c] : p < q
  BY DEF Placed
<1>4. \A b \in 1 .. m : Cardinality(B[b]) = 1 \/ Elements(size, B[b]) <= limit
  BY DEF Placed
<1>5. B \in Seq(SUBSET (1 .. k + 1)) /\ k + 1 \in 1 .. k + 1
  <2>1. 1 .. k \subseteq 1 .. k + 1 /\ k + 1 \in 1 .. k + 1
    OBVIOUS
  <2>2. \A b \in 1 .. Len(B) : B[b] \in SUBSET (1 .. k + 1)
    BY <1>1, <2>1
  <2> QED BY <1>1, <2>1, <2>2, SequenceOf
<1>6. C \in Seq(SUBSET (1 .. k + 1)) /\
      (Joins(size, limit, B, C, k + 1) \/ Opens(size, limit, B, C, k + 1))
  <2>1. C = Place(size, limit, B, k + 1)
    OBVIOUS
  <2> HIDE DEF C
  <2> QED BY <1>5, <2>1, PlaceCases
<1>7. \A b \in 1 .. m : \A p \in B[b] : p \in 1 .. k
  BY <1>1
<1> HIDE DEF C, m
<1>8. CASE Joins(size, limit, B, C, k + 1)
  <2>1. /\ m # 0 /\ Len(C) = m /\ C[m] = B[m] \cup {k + 1}
        /\ \A b \in 1 .. m - 1 : C[b] = B[b]
        /\ Elements(size, B[m]) + size[k + 1] <= limit
    BY <1>8 DEF Joins, m
  <2>2. m \in 1 .. m /\ \A b \in 1 .. m : B[b] \subseteq C[b] /\ (b # m => C[b] = B[b])
    BY <1>1, <2>1
  <2>3. \A b \in 1 .. m : C[b] # {}
    BY <1>1, <2>2
  <2>4. \A p \in 1 .. k + 1 : \E b \in 1 .. m : p \in C[b]
    <3>1. ASSUME NEW p \in 1 .. k + 1 PROVE \E b \in 1 .. m : p \in C[b]
      <4>1. CASE p = k + 1
        BY <2>1, <2>2, <4>1
      <4>2. CASE p # k + 1
        <5>1. p \in 1 .. k
          BY <4>2
        <5> QED BY <1>2, <2>2, <5>1
      <4> QED BY <4>1, <4>2
    <3> QED BY <3>1
  <2>5. ASSUME NEW b \in 1 .. m, NEW c \in 1 .. m, b < c, NEW p \in C[b], NEW q \in C[c]
        PROVE  p < q
    <3>1. b # m /\ C[b] = B[b] /\ p \in B[b] /\ p \in 1 .. k
      BY <1>1, <1>7, <2>2, <2>5
    <3>2. CASE q \in B[c]
      BY <1>3, <2>5, <3>1, <3>2
    <3>3. CASE q \notin B[c]
      <4>1. q = k + 1
        BY <2>1, <2>2, <2>5, <3>3
      <4> QED BY <3>1, <4>1
    <3> QED BY <3>2, <3>3
  <2>6. ASSUME NEW b \in 1 .. m PROVE Cardinality(C[b]) = 1 \/ Elements(size, C[b]) <= limit
    <3>1. CASE b # m
      BY <1>4, <2>2, <3>1
    <3>2. CASE b = m
      <4>1. B[m] \in SUBSET DOMAIN size /\ k + 1 \in DOMAIN size /\ k + 1 \notin B[m]
        <5>1. DOMAIN size = 1 .. Len(size) /\ Len(size) \in Nat
          OBVIOUS
        <5> QED BY <1>7, <2>2, <5>1
      <4>2. Elements(size, B[m] \cup {k + 1}) = Elements(size, B[m]) + size[k + 1]
        BY <4>1, ElementsAdd
      <4> QED BY <2>1, <3>2, <4>2
    <3> QED BY <3>1, <3>2
  <2>7. k + 1 \in C[m]
    BY <2>1
  <2> QED BY <1>6, <2>1, <2>3, <2>4, <2>5, <2>6, <2>7 DEF Placed, C
<1>9. CASE Opens(size, limit, B, C, k + 1)
  <2>1. Len(C) = m + 1 /\ C[m + 1] = {k + 1} /\ \A b \in 1 .. m : C[b] = B[b]
    BY <1>9 DEF Opens, m
  <2>2. m + 1 \in 1 .. m + 1 /\ \A b \in 1 .. m + 1 : b # m + 1 => b \in 1 .. m
    BY <1>1
  <2>3. \A b \in 1 .. m + 1 : C[b] # {}
    BY <1>1, <2>1, <2>2
  <2>4. \A p \in 1 .. k + 1 : \E b \in 1 .. m + 1 : p \in C[b]
    <3>1. ASSUME NEW p \in 1 .. k + 1 PROVE \E b \in 1 .. m + 1 : p \in C[b]
      <4>1. CASE p = k + 1
        BY <2>1, <2>2, <4>1
      <4>2. CASE p # k + 1
        <5>1. p \in 1 .. k
          BY <4>2
        <5>2. PICK b \in 1 .. m : p \in B[b]
          BY <1>2, <5>1
        <5>3. b \in 1 .. m + 1
          BY <1>1
        <5> QED BY <2>1, <5>2, <5>3
      <4> QED BY <4>1, <4>2
    <3> QED BY <3>1
  <2>5. ASSUME NEW b \in 1 .. m + 1, NEW c \in 1 .. m + 1, b < c,
               NEW p \in C[b], NEW q \in C[c]
        PROVE  p < q
    <3>1. b \in 1 .. m /\ p \in B[b] /\ p \in 1 .. k
      <4>1. b \in 1 .. m
        BY <1>1, <2>5
      <4> QED BY <1>7, <2>1, <2>5, <4>1
    <3>2. CASE c # m + 1
      <4>1. c \in 1 .. m /\ q \in B[c]
        BY <2>1, <2>2, <2>5, <3>2
      <4> QED BY <1>3, <2>5, <3>1, <4>1
    <3>3. CASE c = m + 1
      <4>1. q = k + 1
        BY <2>1, <2>5, <3>3
      <4> QED BY <3>1, <4>1
    <3> QED BY <3>2, <3>3
  <2>6. ASSUME NEW b \in 1 .. m + 1
        PROVE  Cardinality(C[b]) = 1 \/ Elements(size, C[b]) <= limit
    <3>1. CASE b # m + 1
      BY <1>4, <2>1, <2>2, <3>1
    <3>2. CASE b = m + 1
      BY <2>1, <3>2, FS_Singleton
    <3> QED BY <3>1, <3>2
  <2>7. m + 1 # 0 /\ k + 1 \in C[m + 1]
    BY <1>1, <2>1
  <2> QED BY <1>6, <2>1, <2>3, <2>4, <2>5, <2>6, <2>7 DEF Placed, C
<1> QED BY <1>6, <1>8, <1>9 DEF C

-----------------------------------------------------------------------------
(* The buckets of a model.                                                 *)

\* R[k] are the buckets of the first k parameters.
LEMMA BucketsPlaced ==
  ASSUME NEW size \in Seq(Nat), NEW limit \in Nat
  PROVE  \E R : /\ R[0] = <<>>
                /\ \A k \in 1 .. Len(size) : R[k] = Place(size, limit, R[k - 1], k)
                /\ \A k \in 0 .. Len(size) : Placed(size, limit, R[k], k)
                /\ MakeRanges(size, limit) = R[Len(size)]
<1> DEFINE n == Len(size)
<1>1. PICK R : /\ R[0] = <<>>
               /\ \A k \in 1 .. n : R[k] = Place(size, limit, R[k - 1], k)
               /\ MakeRanges(size, limit) = R[n]
  BY MakeRangesRecursion
<1> DEFINE T == {k \in Nat : k <= n => Placed(size, limit, R[k], k)}
<1>2. n \in Nat
  OBVIOUS
<1>3. 0 \in T
  <2>1. 1 .. 0 = {} /\ Len(<<>>) = 0 /\ <<>> \in Seq(SUBSET (1 .. 0))
    OBVIOUS
  <2>2. Placed(size, limit, <<>>, 0)
    BY <2>1 DEF Placed
  <2> QED BY <1>1, <2>2
<1>4. ASSUME NEW k \in Nat, k \in T PROVE k + 1 \in T
  <2>1. SUFFICES ASSUME k + 1 <= n PROVE Placed(size, limit, R[k + 1], k + 1)
    OBVIOUS
  <2>2. k < n /\ Placed(size, limit, R[k], k)
    BY <1>2, <1>4, <2>1
  <2>3. k + 1 \in 1 .. n /\ (k + 1) - 1 = k
    BY <1>2, <2>1
  <2>4. R[k + 1] = Place(size, limit, R[k], k + 1)
    BY <1>1, <2>3
  <2> QED BY <2>2, <2>4, PlacedNext
<1>5. \A k \in Nat : k \in T
  <2> HIDE DEF T
  <2> QED BY <1>3, <1>4, Induction
<1>6. \A k \in 0 .. n : Placed(size, limit, R[k], k)
  BY <1>2, <1>5
<1> QED BY <1>1, <1>6

\* make_ranges divides the parameters of every model into consecutive buckets, in
\* order, none left out, and no bucket of several parameters exceeds the limit.
THEOREM BucketsOfEveryModel ==
  \A size \in Seq(Nat), limit \in Nat :
    LET buckets == MakeRanges(size, limit)
    IN Divides(buckets, size) /\ Fits(buckets, size, limit)
<1> SUFFICES ASSUME NEW size \in Seq(Nat), NEW limit \in Nat
             PROVE  /\ Divides(MakeRanges(size, limit), size)
                    /\ Fits(MakeRanges(size, limit), size, limit)
  OBVIOUS
<1> DEFINE B == MakeRanges(size, limit)
           n == Len(size)
<1>1. n \in Nat /\ DOMAIN size = 1 .. n /\ n \in 0 .. n
  OBVIOUS
<1>2. Placed(size, limit, B, n)
  <2>1. PICK R : /\ \A k \in 0 .. n : Placed(size, limit, R[k], k)
                 /\ B = R[n]
    BY BucketsPlaced
  <2> QED BY <1>1, <2>1
<1> HIDE DEF B, n
<1>3. B \in Seq(SUBSET (1 .. n)) /\ DOMAIN B = 1 .. Len(B)
  BY <1>2 DEF Placed
<1>4. UNION Range(B) = DOMAIN size
  <2>1. Range(B) = {B[b] : b \in 1 .. Len(B)}
    BY <1>3 DEF Range
  <2>2. \A b \in 1 .. Len(B) : B[b] \in SUBSET (1 .. n)
    BY <1>3
  <2>3. \A p \in 1 .. n : \E b \in 1 .. Len(B) : p \in B[b]
    BY <1>2 DEF Placed
  <2> QED BY <1>1, <2>1, <2>2, <2>3
<1>5. Divides(B, size)
  BY <1>2, <1>3, <1>4 DEF Divides, Placed
<1>6. Fits(B, size, limit)
  BY <1>2, <1>3 DEF Fits, Placed
<1> QED BY <1>5, <1>6 DEF B

\* A model with parameters has buckets, none empty, and every parameter is in exactly
\* one of them: what OverlapAssumption takes for granted of Ranges, make_ranges provides.
THEOREM BucketsSuitOverlap ==
  \A size \in Seq(Nat), limit \in Nat :
    size # <<>> =>
      LET buckets == MakeRanges(size, limit)
      IN /\ buckets \in Seq((SUBSET DOMAIN size) \ {{}}) /\ buckets # <<>>
         /\ \A p \in DOMAIN size : \E b \in DOMAIN buckets : p \in buckets[b]
         /\ \A b, c \in DOMAIN buckets : b # c => buckets[b] \cap buckets[c] = {}
<1> SUFFICES ASSUME NEW size \in Seq(Nat), NEW limit \in Nat, size # <<>>
             PROVE  LET B == MakeRanges(size, limit)
                    IN /\ B \in Seq((SUBSET DOMAIN size) \ {{}}) /\ B # <<>>
                       /\ \A p \in DOMAIN size : \E b \in DOMAIN B : p \in B[b]
                       /\ \A b, c \in DOMAIN B : b # c => B[b] \cap B[c] = {}
  OBVIOUS
<1> DEFINE B == MakeRanges(size, limit)
           n == Len(size)
<1>1. n \in Nat /\ n # 0 /\ DOMAIN size = 1 .. n /\ n \in 0 .. n
  OBVIOUS
<1>2. Placed(size, limit, B, n)
  <2>1. PICK R : /\ \A k \in 0 .. n : Placed(size, limit, R[k], k)
                 /\ B = R[n]
    BY BucketsPlaced
  <2> QED BY <1>1, <2>1
<1> HIDE DEF B, n
<1>3. B \in Seq(SUBSET (1 .. n)) /\ DOMAIN B = 1 .. Len(B) /\ Len(B) \in Nat
  BY <1>2 DEF Placed
<1>4. B # <<>>
  <2>1. Len(B) # 0
    BY <1>1, <1>2 DEF Placed
  <2> QED BY <2>1
<1>5. B \in Seq((SUBSET (1 .. n)) \ {{}})
  <2>1. \A b \in 1 .. Len(B) : B[b] \in (SUBSET (1 .. n)) \ {{}}
    BY <1>2, <1>3 DEF Placed
  <2> QED BY <1>3, <2>1, SequenceOf
<1>6. \A p \in 1 .. n : \E b \in 1 .. Len(B) : p \in B[b]
  BY <1>2 DEF Placed
<1>7. ASSUME NEW b \in 1 .. Len(B), NEW c \in 1 .. Len(B), b # c, NEW p \in B[b]
      PROVE  p \notin B[c]
  <2>1. \A x, y \in 1 .. Len(B) : x < y => \A i \in B[x], j \in B[y] : i < j
    BY <1>2 DEF Placed
  <2>2. b < c \/ c < b
    BY <1>3, <1>7
  <2>3. p \in Nat
    BY <1>1, <1>3
  <2>4. ~ (p < p)
    BY <2>3
  <2> QED BY <1>7, <2>1, <2>2, <2>4
<1> QED BY <1>1, <1>3, <1>4, <1>5, <1>6, <1>7 DEF B

\* When every parameter has elements, no division of them into consecutive buckets
\* within the limit has fewer buckets, and with them fewer collectives.  After any
\* number of parameters make_ranges is at most in the bucket in which the other
\* division is, and if they are in the same, its bucket is a part of the other's.
THEOREM FewestBuckets ==
  \A size \in Seq(Nat \ {0}), limit \in Nat : \A d \in Seq(SUBSET DOMAIN size) :
    Divides(d, size) /\ Fits(d, size, limit) => Len(MakeRanges(size, limit)) <= Len(d)
<1> SUFFICES ASSUME NEW size \in Seq(Nat \ {0}), NEW limit \in Nat,
                    NEW d \in Seq(SUBSET DOMAIN size),
                    Divides(d, size), Fits(d, size, limit)
             PROVE  Len(MakeRanges(size, limit)) <= Len(d)
  OBVIOUS
<1> DEFINE n == Len(size)
           w == Len(d)
<1>1. /\ size \in Seq(Nat) /\ n \in Nat /\ DOMAIN size = 1 .. n
      /\ \A p \in 1 .. n : size[p] \in Nat \ {0}
      /\ w \in Nat /\ DOMAIN d = 1 .. w /\ \A c \in 1 .. w : d[c] \in SUBSET (1 .. n)
  OBVIOUS
<1>2. \A p \in 1 .. n : \E c \in 1 .. w : p \in d[c]
  <2> HIDE DEF n, w
  <2> QED BY <1>1, DivisionCovers
<1>3. \A b, c \in 1 .. w : b < c => \A p \in d[b], q \in d[c] : p < q
  BY <1>1 DEF Divides
<1>4. \A c \in 1 .. w : Cardinality(d[c]) = 1 \/ Elements(size, d[c]) <= limit
  BY <1>1 DEF Fits
<1>5. PICK R : /\ R[0] = <<>>
               /\ \A k \in 1 .. n : R[k] = Place(size, limit, R[k - 1], k)
               /\ \A k \in 0 .. n : Placed(size, limit, R[k], k)
               /\ MakeRanges(size, limit) = R[n]
  BY <1>1, BucketsPlaced
<1> DEFINE Ahead(k, c) == LET m == Len(R[k]) IN m <= c /\ (m = c => R[k][m] \subseteq d[c])
           T == {k \in Nat : k <= n => \A c \in 1 .. w : k \in d[c] => Ahead(k, c)}
<1>6. 0 \in T
  <2>1. \A c \in 1 .. w : 0 \notin d[c]
    BY <1>1
  <2> QED BY <2>1
<1>7. ASSUME NEW k \in Nat, k \in T PROVE k + 1 \in T
  <2>1. SUFFICES ASSUME k + 1 <= n, NEW c \in 1 .. w, k + 1 \in d[c] PROVE Ahead(k + 1, c)
    OBVIOUS
  <2> DEFINE B == R[k]
             C == R[k + 1]
             m == Len(B)
  <2>2. k \in 0 .. n /\ k + 1 \in 1 .. n /\ (k + 1) - 1 = k /\ c \in Nat
    BY <1>1, <2>1
  <2>3. C = Place(size, limit, B, k + 1) /\ Placed(size, limit, B, k)
    BY <1>5, <2>2
  <2>4. /\ B \in Seq(SUBSET (1 .. k)) /\ m \in Nat
        /\ \A b \in 1 .. m : B[b] \in SUBSET (1 .. k)
        /\ k # 0 => m # 0 /\ k \in B[m]
    BY <2>3 DEF Placed
  <2>5. B \in Seq(SUBSET (1 .. n))
    <3>1. 1 .. k \subseteq 1 .. n
      BY <1>1, <2>2
    <3>2. \A b \in 1 .. Len(B) : B[b] \in SUBSET (1 .. n)
      BY <2>4, <3>1
    <3> HIDE DEF B, n
    <3> QED BY <2>4, <3>2, SequenceOf
  <2>6. Joins(size, limit, B, C, k + 1) \/ Opens(size, limit, B, C, k + 1)
    <3> HIDE DEF B, C, n
    <3> QED BY <2>2, <2>3, <2>5, PlaceCases
  \* Where the other division is after k parameters.
  <2>7. k # 0 => \E a \in 1 .. w : k \in d[a] /\ a <= c /\ Ahead(k, a)
    <3>1. SUFFICES ASSUME k # 0 PROVE \E a \in 1 .. w : k \in d[a] /\ a <= c /\ Ahead(k, a)
      OBVIOUS
    <3>2. k \in 1 .. n /\ k <= n
      BY <2>2, <3>1
    <3>3. PICK a \in 1 .. w : k \in d[a]
      BY <1>2, <3>2
    <3>4. Ahead(k, a)
      BY <1>7, <3>2, <3>3
    <3>5. ~ (c < a)
      <4>1. c < a => k + 1 < k
        BY <1>3, <2>1, <3>3
      <4> QED BY <4>1
    <3> HIDE DEF Ahead
    <3> QED BY <2>2, <3>3, <3>4, <3>5
  <2> HIDE DEF C, B, n, T
  <2>8. CASE Joins(size, limit, B, C, k + 1)
    <3>1. m # 0 /\ Len(C) = m /\ C[m] = B[m] \cup {k + 1}
      BY <2>8 DEF Joins
    <3>2. k # 0
      <4>1. m \in 1 .. m
        BY <2>4, <3>1
      <4>2. m # 0 => B[m] # {} /\ B[m] \in SUBSET (1 .. k)
        BY <2>3, <2>4, <4>1 DEF Placed
      <4> QED BY <3>1, <4>2
    <3>3. PICK a \in 1 .. w : k \in d[a] /\ a <= c /\ Ahead(k, a)
      BY <2>7, <3>2
    <3>4. m <= a /\ (m = a => B[m] \subseteq d[a])
      BY <3>3 DEF B
    <3>5. m <= c /\ (m = c => a = m)
      BY <2>2, <2>4, <3>3, <3>4
    <3>6. m = c => B[m] \subseteq d[c]
      BY <3>4, <3>5
    <3>7. m = c => C[m] \subseteq d[c]
      BY <2>1, <3>1, <3>6
    <3> QED BY <3>1, <3>5, <3>7 DEF C
  <2>9. CASE Opens(size, limit, B, C, k + 1)
    <3>1. Len(C) = m + 1 /\ C[m + 1] = {k + 1}
      BY <2>9 DEF Opens
    <3>2. m + 1 <= c
      <4>1. CASE k = 0
        <5>1. m = 0
          BY <1>5, <4>1 DEF B
        <5> QED BY <2>2, <5>1
      <4>2. CASE k # 0
        <5>1. PICK a \in 1 .. w : k \in d[a] /\ a <= c /\ Ahead(k, a)
          BY <2>7, <4>2
        <5>2. a \in Nat /\ m <= a /\ (m = a => B[m] \subseteq d[a])
          BY <5>1 DEF B
        <5>3. SUFFICES ASSUME m = c PROVE FALSE
          BY <2>2, <2>4, <5>1, <5>2
        <5>4. a = c /\ B[m] \subseteq d[c]
          BY <2>2, <5>1, <5>2, <5>3
        <5>5. m # 0 /\ k \in B[m] /\ m \in 1 .. m /\ B[m] \in SUBSET (1 .. k)
          BY <2>4, <4>2
        <5>6. B[m] \cup {k + 1} \subseteq d[c] /\ k + 1 \notin B[m]
          BY <2>1, <5>4, <5>5
        <5>7. Cardinality(d[c]) # 1
          <6>1. IsFiniteSet(d[c])
            <7>1. d[c] \in SUBSET (1 .. n) /\ IsFiniteSet(1 .. n)
              BY <1>1, FS_Interval
            <7> QED BY <7>1, FS_Subset
          <6>2. k \in d[c] /\ k + 1 \in d[c] /\ k # k + 1
            BY <5>5, <5>6
          <6> QED BY <6>1, <6>2, FS_Singleton
        <5>8. Elements(size, d[c]) <= limit
          BY <1>4, <5>7
        <5>9. /\ d[c] \in SUBSET DOMAIN size /\ B[m] \in SUBSET DOMAIN size
              /\ k + 1 \in DOMAIN size
          BY <1>1, <2>2, <5>6
        <5>10. Elements(size, B[m] \cup {k + 1}) <= Elements(size, d[c])
          BY <1>1, <5>6, <5>9, ElementsMonotone
        <5>11. Elements(size, B[m] \cup {k + 1}) = Elements(size, B[m]) + size[k + 1]
          BY <1>1, <5>6, <5>9, ElementsAdd
        <5>12. Elements(size, B[m]) \in Nat /\ Elements(size, d[c]) \in Nat
          BY <1>1, <5>9, ElementsRecursion
        <5>13. size[k + 1] \in Nat \ {0}
          BY <1>1, <2>2
        <5>14. \/ ~ (Elements(size, B[m]) < limit)
               \/ ~ (Elements(size, B[m]) + size[k + 1] <= limit)
          BY <2>9, <5>5 DEF Opens
        <5> QED BY <5>8, <5>10, <5>11, <5>12, <5>13, <5>14
      <4> QED BY <4>1, <4>2
    <3>3. C[m + 1] \subseteq d[c]
      BY <2>1, <3>1
    <3>4. m + 1 = c => C[m + 1] \subseteq d[c]
      BY <3>3
    <3> QED BY <3>1, <3>2, <3>4 DEF C
  <2> QED BY <2>6, <2>8, <2>9
<1>8. n \in T
  <2> HIDE DEF T
  <2> QED BY <1>1, <1>6, <1>7, Induction
<1>9. CASE n = 0
  <2>1. Len(MakeRanges(size, limit)) = 0
    BY <1>5, <1>9
  <2> QED BY <1>1, <2>1
<1>10. CASE n # 0
  <2>1. n \in 1 .. n
    BY <1>1, <1>10
  <2>2. PICK c \in 1 .. w : n \in d[c]
    BY <1>2, <2>1
  <2>3. Ahead(n, c)
    BY <1>1, <1>8, <2>2
  <2>4. R[n] \in Seq(SUBSET (1 .. n))
    <3>1. n \in 0 .. n
      BY <1>1
    <3> QED BY <1>5, <3>1 DEF Placed
  <2>5. Len(R[n]) \in Nat /\ c \in Nat /\ c <= w
    BY <1>1, <2>4
  <2>6. Len(R[n]) <= c
    BY <2>3
  <2> QED BY <1>1, <1>5, <2>5, <2>6
<1> QED BY <1>9, <1>10

-----------------------------------------------------------------------------
(* The properties of the runs.                                             *)

\* The divisions that the runs compare with are divisions.
LEMMA DivisionsDivide ==
  ASSUME NEW size \in Seq(Nat), NEW d \in Divisions(size)
  PROVE  d \in Seq(SUBSET DOMAIN size) /\ Divides(d, size)
<1> DEFINE n == Len(size)
<1>1. n \in Nat /\ DOMAIN size = 1 .. n /\ (size = <<>> <=> n = 0)
  OBVIOUS
<1>2. CASE n = 0
  <2>1. d = <<>> /\ DOMAIN size = {}
    BY <1>1, <1>2 DEF Divisions
  <2> QED BY <2>1 DEF Divides, Range
<1>3. CASE n # 0
  <2>1. PICK ends \in SUBSET (1 .. n - 1) : d = EndingAt(ends \cup {n})
    BY <1>1, <1>3 DEF Divisions
  <2> DEFINE E == ends \cup {n}
             m == Cardinality(E)
             Before(p) == Cardinality({e \in E : e < p})
  <2> HIDE DEF n
  <2>2. E \subseteq 1 .. n /\ E \subseteq Nat /\ n \in E
        /\ \A e \in E : e \in Nat /\ 1 <= e /\ e <= n
    BY <1>1, <1>3
  <2>3. IsFiniteSet(E) /\ m \in Nat
    <3>1. IsFiniteSet(1 .. n)
      BY <1>1, FS_Interval
    <3> QED BY <2>2, <3>1, FS_Subset, FS_CardinalityType
  <2>4. Max(E) = n
    BY <2>2, GreatestIsMax
  <2>5. d = [b \in 1 .. m |-> {p \in 1 .. n : Before(p) = b - 1}]
    <3> HIDE DEF E
    <3> QED BY <2>1, <2>4 DEF EndingAt, E
  <2>6a. \A p : IsFiniteSet({e \in E : e < p})
    <3>1. ASSUME NEW p PROVE IsFiniteSet({e \in E : e < p})
      <4>1. {e \in E : e < p} \subseteq E
        OBVIOUS
      <4> HIDE DEF E
      <4> QED BY <2>3, <4>1, FS_Subset
    <3> QED BY <3>1
  <2>6. \A p : Before(p) \in Nat
    BY <2>6a, FS_CardinalityType
  <2> HIDE DEF E, m
  <2>7. ASSUME NEW p \in Nat, NEW q \in Nat, p <= q PROVE Before(p) <= Before(q)
    <3>1. {e \in E : e < p} \subseteq {e \in E : e < q}
      <4>1. ASSUME NEW e \in E, e < p PROVE e < q
        <5>1. e \in Nat
          BY <2>2
        <5> QED BY <2>7, <4>1, <5>1
      <4> QED BY <4>1
    <3> QED BY <2>6a, <3>1, FS_Subset
  <2>8. Before(1) = 0
    <3>1. {e \in E : e < 1} = {}
      <4>1. ASSUME NEW e \in E PROVE ~ (e < 1)
        <5>1. e \in Nat /\ 1 <= e
          BY <2>2
        <5> QED BY <5>1
      <4> QED BY <4>1
    <3> QED BY <3>1, FS_EmptySet
  <2>9. ASSUME NEW p \in Nat PROVE Before(p + 1) <= Before(p) + 1
    <3> DEFINE P == {e \in E : e < p}
    <3>1. {e \in E : e < p + 1} \subseteq P \cup {p}
      <4>1. ASSUME NEW e \in E, e < p + 1 PROVE e < p \/ e = p
        <5>1. e \in Nat
          BY <2>2
        <5> QED BY <4>1, <5>1
      <4> QED BY <4>1
    <3>2. IsFiniteSet(P) /\ Cardinality(P) \in Nat
      BY <2>6a, FS_CardinalityType
    <3>3. IsFiniteSet(P \cup {p}) /\ Cardinality(P \cup {p}) \in Nat
      BY <3>2, FS_AddElement, FS_CardinalityType
    <3>4. Cardinality(P \cup {p}) <= Cardinality(P) + 1
      <4>1. p \notin P /\ Cardinality(P \cup {p}) = Cardinality(P) + 1
        <5>1. p \notin P
          OBVIOUS
        <5> HIDE DEF P
        <5> QED BY <3>2, <5>1, FS_AddElement
      <4> HIDE DEF P
      <4> QED BY <3>2, <4>1
    <3>5. Before(p + 1) <= Cardinality(P \cup {p})
      BY <3>1, <3>3, FS_Subset
    <3>6. Before(p + 1) \in Nat
      BY <2>6
    <3> HIDE DEF P
    <3>7. Before(p + 1) <= Cardinality(P) + 1
      BY <3>2, <3>3, <3>4, <3>5, <3>6
    <3> QED BY <3>7 DEF P
  <2>10. Before(n) = m - 1
    <3>1. {e \in E : e < n} = E \ {n}
      <4>1. ASSUME NEW e \in E PROVE e < n <=> e # n
        <5>1. e \in Nat /\ e <= n
          BY <2>2
        <5> QED BY <1>1, <5>1
      <4> QED BY <4>1
    <3>2. Cardinality(E \ {n}) = m - 1
      BY <2>2, <2>3, FS_RemoveElement DEF m
    <3> QED BY <3>1, <3>2
  <2> HIDE DEF Before
  <2>11. ASSUME NEW p \in 1 .. n PROVE Before(p) + 1 \in 1 .. m
    <3>1. p \in Nat /\ p <= n
      BY <1>1
    <3>2. Before(p) <= Before(n)
      BY <1>1, <2>7, <3>1
    <3> QED BY <2>3, <2>6, <2>10, <3>2
  <2>12. ASSUME NEW b \in 1 .. m PROVE \E p \in 1 .. n : Before(p) = b - 1
    <3> DEFINE Found == \E p \in 1 .. n : Before(p) = b - 1
               T == {k \in Nat : k + 1 <= n => Before(k + 1) < b - 1 \/ Found}
    <3>1. 0 \in T
      <4>1. 1 \in 1 .. n /\ b - 1 \in Nat
        BY <1>1, <1>3, <2>3
      <4>2. CASE b - 1 = 0
        BY <2>8, <4>1, <4>2
      <4>3. CASE b - 1 # 0
        BY <2>8, <4>1, <4>3
      <4> QED BY <4>2, <4>3
    <3>2. ASSUME NEW k \in Nat, k \in T PROVE k + 1 \in T
      <4>1. SUFFICES ASSUME (k + 1) + 1 <= n PROVE Before((k + 1) + 1) < b - 1 \/ Found
        OBVIOUS
      <4>2. CASE Found
        BY <4>2
      <4>3. CASE ~Found
        <5>1. Before(k + 1) < b - 1
          BY <1>1, <3>2, <4>1, <4>3
        <5>2. Before((k + 1) + 1) <= Before(k + 1) + 1
          BY <2>9
        <5>3. Before((k + 1) + 1) \in Nat /\ Before(k + 1) \in Nat /\ b - 1 \in Nat
          BY <2>3, <2>6
        <5>4. Before((k + 1) + 1) <= b - 1
          BY <5>1, <5>2, <5>3
        <5>5. (k + 1) + 1 \in 1 .. n
          BY <1>1, <4>1
        <5>6. Before((k + 1) + 1) # b - 1
          BY <4>3, <5>5
        <5> QED BY <5>3, <5>4, <5>6
      <4> QED BY <4>2, <4>3
    <3>3. n - 1 \in T
      <4>1. n - 1 \in Nat
        BY <1>1, <1>3
      <4> HIDE DEF T
      <4> QED BY <3>1, <3>2, <4>1, Induction
    <3>4. Before(n) < b - 1 \/ Found
      <4>1. (n - 1) + 1 = n /\ n <= n
        BY <1>1
      <4> QED BY <3>3, <4>1
    <3>5. ~ (Before(n) < b - 1)
      BY <2>3, <2>10
    <3> QED BY <3>4, <3>5
  <2>13. DOMAIN d = 1 .. m /\ \A b \in 1 .. m : d[b] = {p \in 1 .. n : Before(p) = b - 1}
    BY <2>5
  <2>14. d \in Seq(SUBSET (1 .. n))
    <3>1. d \in [1 .. m -> SUBSET (1 .. n)]
      BY <2>5
    <3> QED BY <2>3, <3>1, FunctionIsSequence
  <2>15. \A b \in 1 .. m : d[b] # {}
    BY <2>12, <2>13
  <2>16. UNION Range(d) = 1 .. n
    <3>1. ASSUME NEW p \in 1 .. n PROVE \E b \in 1 .. m : p \in d[b]
      <4>1. Before(p) + 1 \in 1 .. m /\ (Before(p) + 1) - 1 = Before(p)
        BY <2>6, <2>11
      <4> QED BY <2>13, <4>1
    <3>2. \A b \in 1 .. m : d[b] \subseteq 1 .. n
      BY <2>13
    <3>3. Range(d) = {d[b] : b \in 1 .. m}
      BY <2>13 DEF Range
    <3> QED BY <3>1, <3>2, <3>3
  <2>17. ASSUME NEW b \in 1 .. m, NEW c \in 1 .. m, b < c, NEW p \in d[b], NEW q \in d[c]
         PROVE  p < q
    <3>1. p \in Nat /\ q \in Nat /\ Before(p) = b - 1 /\ Before(q) = c - 1
      BY <1>1, <2>13
    <3>2. b \in Nat /\ c \in Nat
      BY <2>3
    <3>3. ~ (q <= p)
      <4>1. q <= p => Before(q) <= Before(p)
        BY <2>7, <3>1
      <4> QED BY <2>17, <3>1, <3>2, <4>1
    <3> QED BY <3>1, <3>3
  <2> QED BY <1>1, <2>13, <2>14, <2>15, <2>16, <2>17 DEF Divides
<1> QED BY <1>2, <1>3

\* The plan of every model divides its parameters into buckets (RangesAreBuckets), for
\* all models and limits, also models some parameters of which have no elements.
THEOREM DivisionIsCorrect == Spec => []RangesAreBuckets
<1>1. RangesAreBuckets
  BY PlanAssumption, BucketsOfEveryModel DEF RangesAreBuckets
<1> QED BY <1>1, PTL

\* And no plan could do with fewer (FewestCollectives), for all models and limits.
THEOREM DivisionIsShortest == Spec => []FewestCollectives
<1>1. FewestCollectives
  <2> SUFFICES ASSUME NEW size \in Models, NEW limit \in Limits,
                      \A p \in DOMAIN size : size[p] > 0,
                      NEW d \in Divisions(size), Fits(d, size, limit)
               PROVE  Len(MakeRanges(size, limit)) <= Len(d)
    BY DEF FewestCollectives
  <2>1. size \in Seq(Nat) /\ limit \in Nat
    BY PlanAssumption
  <2>2. size \in Seq(Nat \ {0})
    <3>1. size \in [1 .. Len(size) -> Nat] /\ Len(size) \in Nat
      BY <2>1
    <3>2. \A p \in 1 .. Len(size) : size[p] \in Nat \ {0}
      BY <3>1
    <3>3. size \in [1 .. Len(size) -> Nat \ {0}]
      BY <3>1, <3>2
    <3> QED BY <3>1, <3>3
  <2>3. d \in Seq(SUBSET DOMAIN size) /\ Divides(d, size)
    BY <2>1, DivisionsDivide
  <2> QED BY <2>1, <2>2, <2>3, FewestBuckets
<1> QED BY <1>1, PTL
=============================================================================
