------------------------- MODULE RankOverlapProofs -------------------------
(***************************************************************************)
(* Theorems about RankOverlap, for every number of ranks, every graph,     *)
(* division into buckets and number of steps, and any failures: the ranks  *)
(* enter the same collectives in the same order, they stay in lockstep,    *)
(* every bucket is enqueued before the backward pass ends, every optimizer *)
(* step reads complete averages, somebody can always go on, and every step *)
(* brings its rank closer to its end.                                      *)
(***************************************************************************)
EXTENDS RankOverlap, NaturalsInduction, WellFoundedInduction, FunctionTheorems,
        FiniteSetTheorems, TLAPS

-----------------------------------------------------------------------------
(* Facts about the operators.                                              *)

\* What the assumption on the constants says of buckets and parameters.
LEMMA Constants ==
  /\ Len(Ranges) \in Nat \ {0} /\ Buckets = 1 .. Len(Ranges)
  /\ \A b \in Buckets : Ranges[b] \subseteq Parameters /\ Ranges[b] # {}
  /\ \A p \in Parameters : Uses[p] \in Nat \ {0}
  /\ Ranks # {} /\ MaxSteps \in Nat /\ MaxFailures \in Nat
  /\ \A b, c \in Buckets : b # c => Ranges[b] \cap Ranges[c] = {}
<1>1. Ranges \in Seq((SUBSET Parameters) \ {{}}) /\ Ranges # <<>> /\ Uses \in Seq(Nat \ {0})
  BY OverlapAssumption
<1>2. Len(Ranges) \in Nat \ {0} /\ Buckets = 1 .. Len(Ranges)
  BY <1>1 DEF Buckets
<1>3. \A b \in Buckets : Ranges[b] \subseteq Parameters /\ Ranges[b] # {}
  <2>1. \A b \in 1 .. Len(Ranges) : Ranges[b] \in (SUBSET Parameters) \ {{}}
    BY <1>1
  <2> QED BY <2>1, <1>2
<1>4. \A p \in Parameters : Uses[p] \in Nat \ {0}
  BY <1>1 DEF Parameters
<1> QED BY <1>2, <1>3, <1>4, OverlapAssumption

\* A set of naturals below a bound has a greatest element, which Max denotes.
LEMMA Greatest ==
  ASSUME NEW T, T \subseteq Nat, T # {}, NEW b \in Nat, \A y \in T : y <= b
  PROVE  Max(T) \in T /\ \A y \in T : y <= Max(T)
<1> DEFINE Below == {b - y : y \in T}
<1>1. Below \subseteq Nat /\ Below # {}
  <2>1. ASSUME NEW y \in T PROVE b - y \in Nat
    <3>1. y \in Nat /\ y <= b
      OBVIOUS
    <3> QED BY <3>1
  <2> QED BY <2>1
<1>2. PICK d \in Below : \A e \in Below : ~ (<<e, d>> \in OpToRel(<, Nat))
  BY <1>1, NatLessThanWellFounded, WFMin
<1>3. PICK x \in T : d = b - x
  OBVIOUS
<1>4. ASSUME NEW y \in T PROVE y <= x
  <2>1. b - y \in Below
    OBVIOUS
  <2>2. b - y \in Nat /\ d \in Nat
    BY <1>1, <2>1
  <2>3. ~ (<<b - y, d>> \in OpToRel(<, Nat))
    BY <1>2, <2>1
  <2>4. ~ (b - y < d)
    BY <2>2, <2>3 DEF OpToRel
  <2> QED BY <1>3, <2>2, <2>4
<1>5. \A y \in T : x >= y
  BY <1>4
<1> DEFINE Top(z) == z \in T /\ \A y \in T : z >= y
<1>6. Top(x)
  BY <1>5
<1>7. Top(CHOOSE z : Top(z))
  BY <1>6, Zenon
<1>8. Top(Max(T))
  BY <1>7 DEF Max
<1> QED
  <2>1. Max(T) \in T
    BY <1>8
  <2>2. \A y \in T : Max(T) >= y
    BY <1>8
  <2> QED BY <2>1, <2>2

\* SetToSeq lists exactly the elements of a finite set.
LEMMA SetToSeqLists ==
  ASSUME NEW S, IsFiniteSet(S)
  PROVE  /\ SetToSeq(S) \in Seq(S)
         /\ \A x \in S : \E j \in DOMAIN SetToSeq(S) : SetToSeq(S)[j] = x
<1> DEFINE n == Cardinality(S)
           Lists(f) == f \in [1 .. n -> S] /\ IsInjective(f)
<1>1. n \in Nat /\ ExistsBijection(1 .. n, S)
  BY FS_CardinalityType
<1> HIDE DEF n
<1>2. PICK f : f \in Injection(1 .. n, S)
  BY <1>1 DEF ExistsBijection, Bijection
<1>3. Lists(f)
  BY <1>2 DEF Injection
<1>4. Lists(CHOOSE g : Lists(g))
  BY <1>3, Zenon
<1>5. SetToSeq(S) = CHOOSE g : Lists(g)
  BY DEF SetToSeq, n
<1> DEFINE s == SetToSeq(S)
<1>6. s \in [1 .. n -> S] /\ IsInjective(s)
  BY <1>4, <1>5
<1> HIDE DEF s
<1>7. s \in Seq(S)
  BY <1>1, <1>6
<1>8. s \in Injection(1 .. n, S)
  BY <1>6 DEF Injection
<1>9. Cardinality(1 .. n) = n
  BY <1>1, FS_Interval
<1>10. s \in Surjection(1 .. n, S)
  BY <1>8, <1>9, FS_Injection DEF n
<1>11. \A x \in S : \E j \in 1 .. n : s[j] = x
  BY <1>10 DEF Surjection
<1> QED BY <1>6, <1>7, <1>11 DEF s

\* The next bucket of an overlapped step: all after it, up to the one that was next,
\* are complete, and it is not.
LEMMA NextRangeIs ==
  ASSUME NEW r \in Ranks, next[r] \in 0 .. Len(Ranges), NEW done \in SUBSET Parameters
  PROVE  /\ NextRange(r, done) \in 0 .. next[r]
         /\ NextRange(r, done) > 0 => ~Complete(NextRange(r, done), done)
         /\ \A b \in Buckets :
              b > NextRange(r, done) /\ b <= next[r] => Complete(b, done)
<1> DEFINE T == {b \in 0 .. next[r] : b = 0 \/ (b \in Buckets /\ ~Complete(b, done))}
<1>1. T \subseteq Nat /\ T # {} /\ \A y \in T : y <= next[r]
  <2>1. 0 \in T
    OBVIOUS
  <2> QED BY <2>1
<1>2. next[r] \in Nat
  OBVIOUS
<1>3. NextRange(r, done) = Max(T)
  BY DEF NextRange
<1> DEFINE m == NextRange(r, done)
<1>4. m \in T /\ \A y \in T : y <= m
  BY <1>1, <1>2, <1>3, Greatest
<1> HIDE DEF m
<1>5. m \in 0 .. next[r] /\ (m > 0 => ~Complete(m, done))
  BY <1>4
<1>6. ASSUME NEW b \in Buckets, b > m, b <= next[r] PROVE Complete(b, done)
  <2>1. b \in 0 .. next[r]
    BY <1>5, <1>6, Constants
  <2>2. b \notin T
    BY <1>4, <1>5, <1>6, <2>1
  <2> QED BY <2>1, <2>2
<1> QED BY <1>5, <1>6 DEF m

\* Tasks of a default stream, and where the gradients of p wait in it.
Adding(p) == [op |-> "add", of |-> p]
Recording(b) == [op |-> "record", of |-> b]
Adds(q, p) == {i \in DOMAIN q : q[i] = Adding(p)}

\* The gradients of p that wait in a stream: how many, and what each change of the
\* stream does to them.
LEMMA AddsCounted ==
  ASSUME NEW q \in Seq(Tasks), NEW p
  PROVE  IsFiniteSet(Adds(q, p)) /\ Cardinality(Adds(q, p)) \in Nat
<1>1. Adds(q, p) \in SUBSET (1 .. Len(q)) /\ Len(q) \in Nat
  BY DEF Adds
<1>2. IsFiniteSet(1 .. Len(q))
  BY <1>1, FS_Interval
<1> QED BY <1>1, <1>2, FS_Subset, FS_CardinalityType

LEMMA AddsOfAdd ==
  ASSUME NEW q \in Seq(Tasks), NEW t \in Parameters, NEW p \in Parameters
  PROVE  /\ Adds(Append(q, Adding(t)), p)
            = IF t = p THEN Adds(q, p) \cup {Len(q) + 1} ELSE Adds(q, p)
         /\ Cardinality(Adds(Append(q, Adding(t)), p))
            = IF t = p THEN Cardinality(Adds(q, p)) + 1 ELSE Cardinality(Adds(q, p))
<1> DEFINE s == Append(q, Adding(t))
<1>1. Len(q) \in Nat /\ DOMAIN s = 1 .. Len(q) + 1 /\ DOMAIN q = 1 .. Len(q)
  OBVIOUS
<1>2. \A i \in 1 .. Len(q) : s[i] = q[i]
  OBVIOUS
<1>3. s[Len(q) + 1] = Adding(t)
  OBVIOUS
<1>4. Adding(t) = Adding(p) <=> t = p
  BY DEF Adding
<1> HIDE DEF s
<1>5. Adds(s, p) = IF t = p THEN Adds(q, p) \cup {Len(q) + 1} ELSE Adds(q, p)
  <2>1. \A i : i \in Adds(s, p) <=> i \in Adds(q, p) \/ (i = Len(q) + 1 /\ t = p)
    BY <1>1, <1>2, <1>3, <1>4 DEF Adds
  <2> QED BY <2>1
<1>6. Len(q) + 1 \notin Adds(q, p)
  BY <1>1 DEF Adds
<1>7. IsFiniteSet(Adds(q, p))
  BY AddsCounted
<1>8. Cardinality(Adds(q, p) \cup {Len(q) + 1}) = Cardinality(Adds(q, p)) + 1
  BY <1>6, <1>7, FS_AddElement
<1> QED BY <1>5, <1>8 DEF s

LEMMA AddsThenRecords ==
  ASSUME NEW q \in Seq(Tasks), NEW s \in Seq([op : {"record"}, of : Buckets]),
         NEW p \in Parameters
  PROVE  Adds(q \o s, p) = Adds(q, p)
<1>1. /\ Len(q) \in Nat /\ Len(s) \in Nat /\ DOMAIN (q \o s) = 1 .. Len(q) + Len(s)
      /\ DOMAIN q = 1 .. Len(q)
  OBVIOUS
<1>2. \A i \in 1 .. Len(q) : (q \o s)[i] = q[i]
  OBVIOUS
<1>3. \A i \in Len(q) + 1 .. Len(q) + Len(s) : (q \o s)[i] # Adding(p)
  <2> TAKE i \in Len(q) + 1 .. Len(q) + Len(s)
  <2>1. (q \o s)[i] = s[i - Len(q)] /\ i - Len(q) \in 1 .. Len(s)
    BY <1>1
  <2>2. s[i - Len(q)] \in [op : {"record"}, of : Buckets]
    <3>1. \A j \in 1 .. Len(s) : s[j] \in [op : {"record"}, of : Buckets]
      <4> DEFINE R == [op : {"record"}, of : Buckets]
      <4>1. s \in Seq(R)
        OBVIOUS
      <4> HIDE DEF R
      <4>2. \A j \in 1 .. Len(s) : s[j] \in R
        BY <4>1
      <4> QED BY <4>2 DEF R
    <3> QED BY <2>1, <3>1
  <2>3. s[i - Len(q)].op # Adding(p).op
    BY <2>2 DEF Adding
  <2> QED BY <2>1, <2>3
<1>4. \A i : i \in Adds(q \o s, p) <=> i \in Adds(q, p)
  <2> DEFINE t == q \o s
  <2> HIDE DEF t
  <2>1. DOMAIN t = 1 .. Len(q) + Len(s) /\ (\A i \in 1 .. Len(q) : t[i] = q[i])
        /\ \A i \in Len(q) + 1 .. Len(q) + Len(s) : t[i] # Adding(p)
    BY <1>1, <1>2, <1>3 DEF t
  <2>2. \A i : i \in Adds(t, p) <=> i \in Adds(q, p)
    BY <1>1, <2>1 DEF Adds
  <2> QED BY <2>2 DEF t
<1> QED BY <1>4

LEMMA AddsOfTail ==
  ASSUME NEW q \in Seq(Tasks), q # <<>>, NEW p \in Parameters
  PROVE  /\ \A i : i \in Adds(Tail(q), p) <=> i \in Nat \ {0} /\ i + 1 \in Adds(q, p)
         /\ Cardinality(Adds(q, p))
            = IF Head(q) = Adding(p) THEN Cardinality(Adds(Tail(q), p)) + 1
                                     ELSE Cardinality(Adds(Tail(q), p))
<1> DEFINE s == Tail(q)
           f == [i \in Adds(s, p) |-> i + 1]
<1>1. /\ Len(q) \in Nat \ {0} /\ s \in Seq(Tasks) /\ DOMAIN s = 1 .. Len(q) - 1
      /\ DOMAIN q = 1 .. Len(q)
  OBVIOUS
<1>2. \A i \in 1 .. Len(q) - 1 : s[i] = q[i + 1]
  OBVIOUS
<1>3. q[1] = Head(q)
  OBVIOUS
<1> HIDE DEF s
<1>4. \A i : i \in Adds(s, p) <=> i \in Nat \ {0} /\ i + 1 \in Adds(q, p)
  BY <1>1, <1>2 DEF Adds
<1>5. Adds(q, p) \subseteq 1 .. Len(q)
  BY <1>1 DEF Adds
<1>6. f \in [Adds(s, p) -> Adds(q, p) \ {1}]
  BY <1>4
<1>7. \A i, j \in Adds(s, p) : f[i] = f[j] => i = j
  BY <1>4
<1>8. \A j \in Adds(q, p) \ {1} : \E i \in Adds(s, p) : f[i] = j
  <2> TAKE j \in Adds(q, p) \ {1}
  <2>1. j - 1 \in Nat \ {0} /\ (j - 1) + 1 = j
    BY <1>1, <1>5
  <2>2. j - 1 \in Adds(s, p)
    BY <1>4, <2>1
  <2> QED BY <2>1, <2>2
<1> HIDE DEF f
<1>9. ExistsBijection(Adds(s, p), Adds(q, p) \ {1})
  BY <1>6, <1>7, <1>8, Fun_IsBij DEF ExistsBijection
<1>10. Cardinality(Adds(q, p) \ {1}) = Cardinality(Adds(s, p))
  BY <1>1, <1>9, AddsCounted, FS_Bijection
<1>11. IsFiniteSet(Adds(q, p)) /\ Cardinality(Adds(q, p)) \in Nat
  BY AddsCounted
<1>12. Cardinality(Adds(q, p) \ {1})
       = IF 1 \in Adds(q, p) THEN Cardinality(Adds(q, p)) - 1 ELSE Cardinality(Adds(q, p))
  BY <1>11, FS_RemoveElement
<1>13. 1 \in Adds(q, p) <=> Head(q) = Adding(p)
  BY <1>1, <1>3 DEF Adds
<1>14. Cardinality(Adds(q, p))
       = IF Head(q) = Adding(p) THEN Cardinality(Adds(s, p)) + 1 ELSE Cardinality(Adds(s, p))
  BY <1>10, <1>11, <1>12, <1>13
<1> QED BY <1>4, <1>14 DEF s

\* One sequence after another, of whatever each is.
LEMMA Concatenation ==
  ASSUME NEW S, NEW T, NEW a \in Seq(S), NEW b \in Seq(T)
  PROVE  /\ Len(a) \in Nat /\ Len(b) \in Nat /\ DOMAIN b = 1 .. Len(b)
         /\ DOMAIN (a \o b) = 1 .. Len(a) + Len(b)
         /\ \A k \in 1 .. Len(a) : (a \o b)[k] = a[k]
         /\ \A k \in DOMAIN b : (a \o b)[Len(a) + k] = b[k]
<1>1. a \in Seq(S \cup T) /\ b \in Seq(S \cup T)
  OBVIOUS
<1>2. Len(a) \in Nat /\ Len(b) \in Nat /\ DOMAIN b = 1 .. Len(b)
  OBVIOUS
<1>3. DOMAIN (a \o b) = 1 .. Len(a) + Len(b)
  BY <1>1, <1>2
<1>4. ASSUME NEW k \in 1 .. Len(a) PROVE (a \o b)[k] = a[k]
  BY <1>1, <1>2
<1>5. ASSUME NEW k \in DOMAIN b PROVE (a \o b)[Len(a) + k] = b[k]
  BY <1>1, <1>2
<1> QED BY <1>2, <1>3, <1>4, <1>5

\* The bucket of a collective, counted from the range that was next and from the last.
LEMMA SameBucket ==
  ASSUME NEW last \in Nat, NEW next0 \in Nat, NEW d \in Nat, NEW c \in Nat, NEW k \in Nat,
         last - next0 = d + c
  PROVE  next0 + 1 - (k - c) = last + 1 - (d + k)
  OBVIOUS

-----------------------------------------------------------------------------
(* The inductive invariant.                                                *)

\* A rank that has its place in the collectives: it lives, and its communicator too.
Good(r) == pc[r] \notin {"failed", "killed"} /\ ~aborted[r]

\* The buckets of a step that a rank has brought to its communication stream, and the
\* order they are brought in.
Issued(r) ==
  IF pc[r] \in {"begin", "done", "optimizer"} THEN Len(Ranges)
  ELSE IF active[r] THEN Len(Ranges) - next[r]
  ELSE IF pc[r] = "await" THEN next[r]
  ELSE IF pc[r] = "reduce" THEN next[r] - 1
  ELSE 0
Order(r, k) == IF step[r] = 1 THEN k ELSE Len(Ranges) + 1 - k

\* d collectives of its step are behind rank r: their buckets are averaged, and the
\* others that were issued wait in its stream, in the order of the step.
Collectives(r, d) ==
  /\ Issued(r) = d + Len(comm[r])
  /\ \A k \in DOMAIN comm[r] : comm[r][k] = [bucket |-> Order(r, d + k), step |-> step[r]]
  /\ step[r] >= 1 => \A k \in 1 .. d :
       \A b \in Buckets : b = Order(r, k) => contents[r][b] = Ranks \X {step[r]} \X {b}

\* Where the loop is, the plan and its overlap.
HostFollows(r) ==
  /\ active[r] <=> pc[r] \in {"backward", "freeing", "finish"} /\ step[r] >= 2
  /\ pc[r] \notin {"begin", "done"} => step[r] >= 1
  /\ pc[r] = "finish" => active[r] /\ next[r] = 0
  /\ pc[r] \in {"settle", "reduce", "await"} => step[r] = 1
  /\ pc[r] \in {"reduce", "await"} => next[r] >= 1
  /\ pc[r] \in {"finish", "settle", "reduce", "await"} => left[r] = NoContribution
PlanFollows(r) ==
  /\ active[r] \/ pc[r] \in {"reduce", "await", "optimizer"} => planned[r]
  /\ pc[r] = "begin" => (planned[r] <=> step[r] >= 1)

\* In an overlapped step a parameter is ready when nothing is missing, and the buckets
\* after next are complete.
ReadyFollows(r) ==
  active[r] => /\ ready[r] = {p \in Parameters : left[r][p] = 0}
               /\ next[r] > 0 => ~Complete(next[r], ready[r])
               /\ \A b \in Buckets : b > next[r] => Complete(b, ready[r])

StreamsFollow(r) ==
  /\ pc[r] \in {"begin", "done", "reduce", "await"} => work[r] = <<>>
  /\ comm[r] # <<>> => active[r] \/ pc[r] = "await"
  /\ pc[r] = "await" => Len(comm[r]) <= 1
  /\ packed[r] => comm[r] # <<>>

\* A contribution is added up, or in the stream, or still to come.
NoneLost(r) ==
  step[r] >= 1 => \A p \in Parameters :
    sum[r][p] + Cardinality(Adds(work[r], p)) + left[r][p] = Uses[p]

\* The event of a complete bucket comes after all its gradients.
EventsFollow(r) ==
  active[r] => \A b \in Buckets : Complete(b, ready[r]) =>
    \A p \in Ranges[b] : \A i \in Adds(work[r], p) :
      \E j \in DOMAIN work[r] : j > i /\ work[r][j] = Recording(b)

HeadPacked(r) ==
  packed[r] => \A b \in Buckets :
    b = Head(comm[r]).bucket => contents[r][b] = {<<r, step[r], b>>}

Lives(r) ==
  /\ HostFollows(r) /\ PlanFollows(r) /\ ReadyFollows(r) /\ StreamsFollow(r)
  /\ NoneLost(r) /\ EventsFollow(r) /\ HeadPacked(r) /\ ~aborted[r]
Ended(r) ==
  /\ comm[r] # <<>> => aborted[r] /\ step[r] >= 1
  /\ pc[r] \notin {"failed", "killed"} =>
       /\ raised[r] /\ pc[r] \in {"finish", "await"}
       /\ pc[r] = "finish" => next[r] = 0
RankFollows(r) == IF Good(r) THEN Lives(r) ELSE Ended(r)

\* The group is at the K-th collective of step S: a rank has K behind it, or it has
\* not begun the step and nothing of it is reduced.
Stands(r, S, K) ==
  IF Good(r)
  THEN \/ step[r] = S /\ Collectives(r, K)
       \/ K = 0 /\ step[r] = S - 1 /\ Collectives(r, Len(Ranges))
  ELSE step[r] \in {S - 1, S}
At(S, K) == \A r \in Ranks : Stands(r, S, K)
InLockstep == \E S \in 1 .. MaxSteps + 1, K \in 0 .. Len(Ranges) - 1 : At(S, K)

Inv == TypeOK /\ (\A r \in Ranks : RankFollows(r)) /\ InLockstep

\* The part of the types that concerns one rank.
Typed(r) ==
  /\ pc[r] \in {"begin", "backward", "freeing", "finish", "settle", "reduce", "await",
                "optimizer"} \cup Stopped
  /\ step[r] \in 0 .. MaxSteps /\ planned[r] \in BOOLEAN /\ active[r] \in BOOLEAN
  /\ left[r] \in [Parameters -> Nat] /\ ready[r] \in SUBSET Parameters
  /\ next[r] \in 0 .. Len(Ranges)
  /\ work[r] \in Seq(Tasks) /\ sum[r] \in [Parameters -> Nat]
  /\ comm[r] \in Seq(Jobs) /\ packed[r] \in BOOLEAN
  /\ contents[r] \in [Buckets -> SUBSET Gradients]
  /\ aborted[r] \in BOOLEAN /\ raised[r] \in BOOLEAN

LEMMA TypesOfRank == ASSUME TypeOK, NEW r \in Ranks PROVE Typed(r)
  BY DEF TypeOK, Typed

\* Both kinds of tasks are tasks, and a job of a step is a job.
LEMMA TaskTypes ==
  /\ \A p \in Parameters : Adding(p) \in Tasks
  /\ [op : {"record"}, of : Buckets] \subseteq Tasks
  /\ \A b \in Buckets : Recording(b) \in [op : {"record"}, of : Buckets]
  BY DEF Tasks, Adding, Recording

\* The bucket at the head of a communication stream.
LEMMA HeadIsJob ==
  ASSUME NEW q \in Seq(Jobs), q # <<>>
  PROVE  Head(q).bucket \in Buckets /\ Head(q) = q[1] /\ 1 \in DOMAIN q
<1>1. Head(q) \in Jobs /\ Head(q) = q[1] /\ 1 \in DOMAIN q
  OBVIOUS
<1> QED BY <1>1 DEF Jobs

\* The records behind a last contribution: one for each bucket it completes.
Records(S) == SetToSeq({[op |-> "record", of |-> b] : b \in S})
LEMMA RecordsList ==
  ASSUME NEW S \in SUBSET Buckets
  PROVE  /\ Records(S) \in Seq([op : {"record"}, of : Buckets])
         /\ \A b \in S : \E j \in DOMAIN Records(S) : Records(S)[j] = Recording(b)
<1> DEFINE f == [b \in S |-> Recording(b)]
           R == {Recording(b) : b \in S}
           s == SetToSeq(R)
<1>1. IsFiniteSet(S)
  <2>1. IsFiniteSet(1 .. Len(Ranges))
    BY Constants, FS_Interval
  <2> QED BY <2>1, Constants, FS_Subset
<1>2. f \in Surjection(S, R)
  BY DEF Surjection
<1>3. IsFiniteSet(R)
  BY <1>1, <1>2, FS_Surjection
<1>4. Records(S) = s
  BY DEF Records, Recording
<1>5. R \subseteq [op : {"record"}, of : Buckets]
  BY TaskTypes
<1> HIDE DEF R, f
<1>6. s \in Seq(R) /\ \A x \in R : \E j \in DOMAIN s : s[j] = x
  BY <1>3, SetToSeqLists
<1>7. \A b \in S : Recording(b) \in R
  BY DEF R
<1> HIDE DEF s
<1>8. s \in Seq([op : {"record"}, of : Buckets])
  <2> DEFINE Q == [op : {"record"}, of : Buckets]
  <2>1. R \subseteq Q
    BY <1>5
  <2> HIDE DEF Q
  <2>2. s \in Seq(Q)
    BY <1>6, <2>1
  <2> QED BY <2>2 DEF Q
<1> QED BY <1>4, <1>6, <1>7, <1>8

\* The jobs of a ready parameter: from the bucket that was next, downwards.
LEMMA EnqueuedIs ==
  ASSUME NEW r \in Ranks, next[r] \in 0 .. Len(Ranges), step[r] \in 1 .. MaxSteps,
         NEW done \in SUBSET Parameters
  PROVE  /\ Enqueued(r, done) \in Seq(Jobs)
         /\ Len(Enqueued(r, done)) = next[r] - NextRange(r, done)
         /\ next[r] - NextRange(r, done) \in Nat
         /\ \A i \in 1 .. next[r] - NextRange(r, done) :
              Enqueued(r, done)[i] = [bucket |-> next[r] + 1 - i, step |-> step[r]]
<1> DEFINE m == next[r] - NextRange(r, done)
           s == [i \in 1 .. m |-> [bucket |-> next[r] + 1 - i, step |-> step[r]]]
<1>1. m \in Nat /\ m <= next[r] /\ next[r] <= Len(Ranges) /\ next[r] \in Nat
  BY NextRangeIs, Constants
<1> HIDE DEF m
<1>2. Enqueued(r, done) = s
  BY DEF Enqueued, Job, m
<1>3. \A i \in 1 .. m : next[r] + 1 - i \in Buckets
  BY <1>1, Constants
<1>4. s \in [1 .. m -> Jobs]
  BY <1>3 DEF Jobs
<1>5. s \in Seq(Jobs) /\ Len(s) = m
  BY <1>1, <1>4
<1> QED BY <1>1, <1>2, <1>5 DEF m

\* What a last contribution does: the parameter is ready, its gradient and the events
\* of the buckets it completes go to the stream, and the buckets up to the next
\* incomplete one are enqueued.
Done(r, p) == ready[r] \cup {p}
Completes(r, p) == {b \in Buckets : p \in Ranges[b] /\ Complete(b, Done(r, p))}

LEMMA LastContributionDoes ==
  ASSUME TypeOK, NEW r \in Ranks, NEW p \in Parameters, LastContribution(r, p)
  PROVE  /\ left' = [left EXCEPT ![r][p] = 0]
         /\ ready' = [ready EXCEPT ![r] = Done(r, p)]
         /\ work' = [work EXCEPT ![r] = Append(@, Adding(p)) \o Records(Completes(r, p))]
         /\ next' = [next EXCEPT ![r] = NextRange(r, Done(r, p))]
         /\ comm' = [comm EXCEPT ![r] = @ \o Enqueued(r, Done(r, p))]
<1>1. work' = [work EXCEPT ![r] = Append(work[r], Adding(p)) \o Records(Completes(r, p))]
  BY DEF LastContribution, Add, Adding, Done, Completes, Records
<1>2. work' = [work EXCEPT ![r] = Append(@, Adding(p)) \o Records(Completes(r, p))]
  BY <1>1 DEF TypeOK
<1> QED BY <1>2 DEF LastContribution, Done

\* What the loop of a rank does, a rank does that has its place.
LEMMA GoesOn ==
  ASSUME NEW r \in Ranks, RankFollows(r), pc[r] \notin {"failed", "killed"},
         ~raised[r] \/ pc[r] \notin {"finish", "await"}
  PROVE  Good(r)
  BY DEF RankFollows, Ended

LEMMA TypesKept ==
  ASSUME Inv, [Next]_vars
  PROVE  TypeOK'
<1>0. TypeOK /\ \A r \in Ranks : RankFollows(r)
  BY DEF Inv
<1>1. ASSUME NEW r \in Ranks, BeginStep(r) PROVE TypeOK'
  <2>1. Uses \in [Parameters -> Nat] /\ NoContribution \in [Parameters -> Nat]
    <3>1. Uses \in Seq(Nat \ {0})
      BY OverlapAssumption
    <3>2. Uses \in [1 .. Len(Uses) -> Nat] /\ Parameters = 1 .. Len(Uses)
      BY <3>1 DEF Parameters
    <3> QED BY <3>2 DEF NoContribution
  <2>2. Len(Ranges) \in Nat
    BY Constants
  <2>3. step[r] + 1 \in 0 .. MaxSteps
    BY <1>0, <1>1, Constants DEF BeginStep, TypeOK
  <2> QED BY <1>0, <1>1, <2>1, <2>2, <2>3 DEF BeginStep, TypeOK, Goto
<1>2. ASSUME NEW r \in Ranks, Finished(r) PROVE TypeOK'
  BY <1>0, <1>2 DEF Finished, TypeOK, Goto, Stopped, deviceVars
<1>3. ASSUME NEW r \in Ranks, NEW p \in Parameters, Accumulate(r, p) PROVE TypeOK'
  <2>1. left[r][p] - 1 \in Nat /\ left[r] \in [Parameters -> Nat]
    BY <1>0, <1>3 DEF Accumulate, TypeOK
  <2>2. left' \in [Ranks -> [Parameters -> Nat]]
    BY <1>0, <1>3, <2>1 DEF Accumulate, TypeOK
  <2>3. Add(r, p) \in Seq(Tasks)
    BY <1>0, TaskTypes DEF Add, Adding, TypeOK
  <2>4. work' \in [Ranks -> Seq(Tasks)]
    BY <1>0, <1>3, <2>3 DEF Accumulate, TypeOK
  <2> QED BY <1>0, <1>3, <2>2, <2>4 DEF Accumulate, FreesOrNot, TypeOK, Goto
<1>4. ASSUME NEW r \in Ranks, NEW p \in Parameters, LastContribution(r, p) PROVE TypeOK'
  <2>0. /\ left' = [left EXCEPT ![r][p] = 0]
        /\ ready' = [ready EXCEPT ![r] = Done(r, p)]
        /\ work' = [work EXCEPT ![r] = Append(@, Adding(p)) \o Records(Completes(r, p))]
        /\ next' = [next EXCEPT ![r] = NextRange(r, Done(r, p))]
        /\ comm' = [comm EXCEPT ![r] = @ \o Enqueued(r, Done(r, p))]
    BY <1>0, <1>4, LastContributionDoes
  <2>1. Typed(r) /\ Good(r)
    BY <1>0, <1>4, TypesOfRank, GoesOn DEF LastContribution
  <2>2. step[r] \in 1 .. MaxSteps
    BY <1>0, <1>4, <2>1, Constants DEF RankFollows, Lives, HostFollows, LastContribution, Typed
  <2>3. Done(r, p) \in SUBSET Parameters
    BY <2>1 DEF Typed, Done
  <2>4. left' \in [Ranks -> [Parameters -> Nat]] /\ ready' \in [Ranks -> SUBSET Parameters]
    BY <1>0, <2>0, <2>3 DEF TypeOK
  <2>5. work' \in [Ranks -> Seq(Tasks)]
    <3>1. Records(Completes(r, p)) \in Seq(Tasks)
      <4> DEFINE Q == [op : {"record"}, of : Buckets]
      <4>1. Completes(r, p) \in SUBSET Buckets
        BY DEF Completes
      <4>2. Records(Completes(r, p)) \in Seq(Q) /\ Q \subseteq Tasks
        BY <4>1, RecordsList, TaskTypes
      <4> HIDE DEF Q
      <4> QED BY <4>2
    <3>2. Append(work[r], Adding(p)) \in Seq(Tasks)
      BY <2>1, TaskTypes DEF Typed
    <3>3. Append(work[r], Adding(p)) \o Records(Completes(r, p)) \in Seq(Tasks)
      BY <3>1, <3>2
    <3> QED BY <1>0, <2>0, <3>3 DEF TypeOK
  <2>6. next' \in [Ranks -> 0 .. Len(Ranges)]
    <3>1. NextRange(r, Done(r, p)) \in 0 .. Len(Ranges)
      BY <2>1, <2>3, NextRangeIs, Constants DEF Typed
    <3> QED BY <1>0, <2>0, <3>1 DEF TypeOK
  <2>7. comm' \in [Ranks -> Seq(Jobs)]
    <3>1. comm[r] \o Enqueued(r, Done(r, p)) \in Seq(Jobs)
      BY <2>1, <2>2, <2>3, EnqueuedIs DEF Typed
    <3> QED BY <1>0, <2>0, <3>1 DEF TypeOK
  <2> QED
    BY <1>0, <1>4, <2>4, <2>5, <2>6, <2>7 DEF LastContribution, FreesOrNot, TypeOK, Goto
<1>5. ASSUME NEW r \in Ranks, Freed(r) \/ EndBackward(r) \/ FinishOverlap(r) \/ Optimize(r)
      PROVE  TypeOK'
  BY <1>0, <1>5 DEF Freed, EndBackward, FinishOverlap, Optimize, TypeOK, Goto, deviceVars
<1>6. ASSUME NEW r \in Ranks, Settle(r) PROVE TypeOK'
  <2>1. 1 \in 0 .. Len(Ranges)
    BY Constants
  <2> QED BY <1>0, <1>6, <2>1 DEF Settle, TypeOK, Goto, deviceVars
<1>7. ASSUME NEW r \in Ranks, Reduce(r) PROVE TypeOK'
  <2>1. Typed(r) /\ Good(r)
    BY <1>0, <1>7, TypesOfRank, GoesOn DEF Reduce
  <2>2. step[r] \in 1 .. MaxSteps /\ next[r] \in 1 .. Len(Ranges)
    BY <1>0, <1>7, <2>1, Constants DEF RankFollows, Lives, HostFollows, Reduce, Typed
  <2>3. Job(r, next[r]) \in Jobs
    BY <2>2, Constants DEF Job, Jobs
  <2>4. comm' \in [Ranks -> Seq(Jobs)]
    <3>1. Append(comm[r], Job(r, next[r])) \in Seq(Jobs)
      BY <2>1, <2>3 DEF Typed
    <3> QED BY <1>0, <1>7, <3>1 DEF Reduce, TypeOK
  <2> QED BY <1>0, <1>7, <2>4 DEF Reduce, TypeOK, Goto
<1>8. ASSUME NEW r \in Ranks, Await(r) PROVE TypeOK'
  <2>1. next[r] < Len(Ranges) => next[r] + 1 \in 0 .. Len(Ranges)
    BY <1>0, Constants DEF TypeOK
  <2>2. 0 \in 0 .. Len(Ranges)
    BY Constants
  <2>3. next' \in [Ranks -> 0 .. Len(Ranges)]
    BY <1>0, <1>8, <2>1, <2>2 DEF Await, TypeOK
  <2> QED BY <1>0, <1>8, <2>3 DEF Await, TypeOK, Goto, deviceVars
<1>9. ASSUME NEW r \in Ranks, Clear(r) PROVE TypeOK'
  <2>1. 0 \in 0 .. Len(Ranges)
    BY Constants
  <2> QED BY <1>0, <1>9, <2>1 DEF Clear, TypeOK, Goto, Stopped, deviceVars
<1>10. ASSUME NEW r \in Ranks, Execute(r) PROVE TypeOK'
  <2>1. Typed(r)
    BY <1>0, TypesOfRank
  <2>2. Tail(work[r]) \in Seq(Tasks) /\ Head(work[r]) \in Tasks
    BY <1>10, <2>1 DEF Execute, Typed
  <2>3. work' \in [Ranks -> Seq(Tasks)]
    BY <1>0, <1>10, <2>2 DEF Execute, TypeOK
  <2>4. sum' \in [Ranks -> [Parameters -> Nat]]
    <3> DEFINE h == Head(work[r])
    <3>1. h.op = "add" => h.of \in Parameters
      BY <2>2 DEF Tasks
    <3>2. sum' = IF h.op = "add" THEN [sum EXCEPT ![r][h.of] = @ + 1] ELSE sum
      BY <1>10 DEF Execute
    <3> HIDE DEF h
    <3> QED BY <1>0, <3>1, <3>2 DEF TypeOK
  <2> QED BY <1>0, <1>10, <2>3, <2>4 DEF Execute, TypeOK, hostVars
<1>11. ASSUME NEW r \in Ranks, Pack(r) PROVE TypeOK'
  <2>1. Typed(r)
    BY <1>0, TypesOfRank
  <2>2. PICK b \in Buckets : b = Head(comm[r]).bucket
    BY <1>11, <2>1, HeadIsJob DEF Pack, Typed
  <2>3. step[r] \in 1 .. MaxSteps
    <3>1. step[r] \in 0 .. MaxSteps /\ MaxSteps \in Nat
      BY <2>1, Constants DEF Typed
    <3>2. step[r] >= 1
      BY <1>0, <1>11 DEF Pack, RankFollows, Lives, Ended, StreamsFollow, HostFollows
    <3> QED BY <3>1, <3>2
  <2>4. <<r, step[r], b>> \in Gradients
    BY <2>3 DEF Gradients
  <2>5. contents' \in [Ranks -> [Buckets -> SUBSET Gradients]]
    <3>1. PICK c \in SUBSET Gradients : contents' = [contents EXCEPT ![r][b] = c]
      BY <1>11, <2>2, <2>4 DEF Pack
    <3> QED BY <1>0, <3>1 DEF TypeOK
  <2> QED BY <1>0, <1>11, <2>5 DEF Pack, TypeOK, hostVars
<1>12. ASSUME AllReduce PROVE TypeOK'
  <2> DEFINE mine(r) == Head(comm[r]).bucket
             average == UNION {contents[r][mine(r)] : r \in Ranks}
  <2>1. \A r \in Ranks : mine(r) \in Buckets
    <3> TAKE r \in Ranks
    <3>1. comm[r] \in Seq(Jobs) /\ comm[r] # <<>>
      BY <1>0, <1>12 DEF AllReduce, TypeOK
    <3> QED BY <3>1, HeadIsJob
  <2>2. \A r \in Ranks : contents[r][mine(r)] \subseteq Gradients
    BY <1>0, <2>1 DEF TypeOK
  <2>3. average \subseteq Gradients
    BY <2>2
  <2>4. contents' = [r \in Ranks |-> [contents[r] EXCEPT ![mine(r)] = average]]
    BY <1>12 DEF AllReduce
  <2> HIDE DEF average, mine
  <2>5. contents' \in [Ranks -> [Buckets -> SUBSET Gradients]]
    BY <1>0, <2>1, <2>3, <2>4 DEF TypeOK
  <2>6. comm' \in [Ranks -> Seq(Jobs)]
    BY <1>0, <1>12 DEF AllReduce, TypeOK
  <2> QED BY <1>0, <1>12, <2>5, <2>6 DEF AllReduce, TypeOK, hostVars
<1>13. ASSUME NEW r \in Ranks, AbortedReduce(r) PROVE TypeOK'
  <2>1. comm' \in [Ranks -> Seq(Jobs)]
    BY <1>0, <1>13 DEF AbortedReduce, TypeOK
  <2> QED BY <1>0, <1>13, <2>1 DEF AbortedReduce, TypeOK, hostVars
<1>14. ASSUME NEW r \in Ranks, Throw(r) PROVE TypeOK'
  <2>1. failures + 1 \in 0 .. MaxFailures
    BY <1>0, <1>14, Constants DEF Throw, TypeOK
  <2> QED BY <1>0, <1>14, <2>1 DEF Throw, TypeOK, hostVars, deviceVars
<1>15. ASSUME NEW r \in Ranks, NEW how \in {"failed", "killed"}, Dies(r, how),
              failures' \in 0 .. MaxFailures
       PROVE  TypeOK'
  BY <1>0, <1>15 DEF Dies, TypeOK, Goto, Stopped
<1>16. ASSUME NEW r \in Ranks, Crash(r) \/ Terminate(r) PROVE TypeOK'
  <2>1. failures' \in 0 .. MaxFailures
    BY <1>0, <1>16, Constants DEF Crash, Terminate, TypeOK
  <2> QED BY <1>15, <1>16, <2>1 DEF Crash, Terminate
<1>17. CASE UNCHANGED vars
  BY <1>0, <1>17 DEF vars, hostVars, deviceVars, TypeOK
<1> QED
  BY <1>1, <1>2, <1>3, <1>4, <1>5, <1>6, <1>7, <1>8, <1>9, <1>10, <1>11, <1>12, <1>13, <1>14,
     <1>16, <1>17 DEF Next, Runs, Host, Loop, Device

-----------------------------------------------------------------------------
(* A step of one rank leaves the others alone, so that what follows is about  *)
(* the rank that moves.                                                       *)

Same(r) ==
  /\ pc'[r] = pc[r] /\ step'[r] = step[r] /\ planned'[r] = planned[r]
  /\ active'[r] = active[r] /\ left'[r] = left[r] /\ ready'[r] = ready[r]
  /\ next'[r] = next[r] /\ work'[r] = work[r] /\ sum'[r] = sum[r]
  /\ comm'[r] = comm[r] /\ packed'[r] = packed[r] /\ contents'[r] = contents[r]
  /\ aborted'[r] = aborted[r]

StepOf(q) == Host(q) \/ Device(q) \/ Throw(q) \/ Crash(q) \/ Terminate(q)

LEMMA OthersKeep ==
  ASSUME TypeOK, NEW q \in Ranks, StepOf(q), NEW r \in Ranks, r # q
  PROVE  Same(r) /\ raised'[r] = raised[r]
<1>1. CASE BeginStep(q) \/ Finished(q) \/ Freed(q) \/ EndBackward(q) \/ FinishOverlap(q)
  BY <1>1 DEF BeginStep, Finished, Freed, EndBackward, FinishOverlap, Goto, Same, TypeOK,
              deviceVars
<1>2. CASE \E p \in Parameters : Accumulate(q, p)
  BY <1>2 DEF Accumulate, FreesOrNot, Goto, Same, TypeOK
<1>3. ASSUME NEW p \in Parameters, LastContribution(q, p)
      PROVE  Same(r) /\ raised'[r] = raised[r]
  <2>1. /\ left' = [left EXCEPT ![q][p] = 0]
        /\ ready' = [ready EXCEPT ![q] = Done(q, p)]
        /\ work' = [work EXCEPT ![q] = Append(@, Adding(p)) \o Records(Completes(q, p))]
        /\ next' = [next EXCEPT ![q] = NextRange(q, Done(q, p))]
        /\ comm' = [comm EXCEPT ![q] = @ \o Enqueued(q, Done(q, p))]
    BY <1>3, LastContributionDoes
  <2>2. left'[r] = left[r] /\ ready'[r] = ready[r] /\ work'[r] = work[r]
        /\ next'[r] = next[r] /\ comm'[r] = comm[r]
    BY <2>1 DEF TypeOK
  <2> QED BY <1>3, <2>2 DEF LastContribution, FreesOrNot, Goto, Same, TypeOK
<1>4. CASE Settle(q) \/ Reduce(q) \/ Await(q) \/ Optimize(q) \/ Clear(q)
  BY <1>4 DEF Settle, Reduce, Await, Optimize, Clear, Goto, Same, TypeOK, deviceVars
<1>5. CASE Device(q)
  BY <1>5 DEF Device, Execute, Pack, AbortedReduce, Same, TypeOK, hostVars
<1>6. CASE Throw(q) \/ Crash(q) \/ Terminate(q)
  BY <1>6 DEF Throw, Crash, Terminate, Dies, Goto, Same, TypeOK, hostVars, deviceVars
<1> QED BY <1>1, <1>2, <1>3, <1>4, <1>5, <1>6 DEF StepOf, Host, Loop

LEMMA RankKept ==
  ASSUME NEW r \in Ranks, Same(r), raised[r] => raised'[r]
  PROVE  /\ RankFollows(r) => RankFollows(r)'
         /\ \A S, K : Stands(r, S, K) => Stands(r, S, K)'
<1>1. Good(r)' <=> Good(r)
  BY DEF Same, Good
<1>2. Lives(r) => Lives(r)'
  <2>1. HostFollows(r) => HostFollows(r)'
    BY DEF Same, HostFollows
  <2>2. PlanFollows(r) => PlanFollows(r)'
    BY DEF Same, PlanFollows
  <2>3. ReadyFollows(r) => ReadyFollows(r)'
    BY DEF Same, ReadyFollows, Complete
  <2>4. StreamsFollow(r) => StreamsFollow(r)'
    BY DEF Same, StreamsFollow
  <2>5. NoneLost(r) => NoneLost(r)'
    BY DEF Same, NoneLost, Adds
  <2>6. EventsFollow(r) => EventsFollow(r)'
    BY DEF Same, EventsFollow, Complete, Adds
  <2>7. HeadPacked(r) => HeadPacked(r)'
    BY DEF Same, HeadPacked
  <2> QED BY <2>1, <2>2, <2>3, <2>4, <2>5, <2>6, <2>7 DEF Same, Lives
<1>3. Ended(r) => Ended(r)'
  BY DEF Same, Ended
<1>4. Issued(r)' = Issued(r) /\ \A k : Order(r, k)' = Order(r, k)
  BY DEF Same, Issued, Order
<1>5. ASSUME NEW d PROVE Collectives(r, d) => Collectives(r, d)'
  BY <1>4 DEF Same, Collectives, Issued, Order
<1>6. ASSUME NEW S, NEW K PROVE Stands(r, S, K) => Stands(r, S, K)'
  BY <1>1, <1>5 DEF Same, Stands
<1> QED BY <1>1, <1>2, <1>3, <1>6 DEF RankFollows

\* Rank q moves and stays where it is in the order of collectives.
Moves(q) ==
  /\ RankFollows(q)'
  /\ step'[q] = step[q]
  /\ Good(q)' => Good(q) /\ \A d \in 0 .. Len(Ranges) : Collectives(q, d) => Collectives(q, d)'

LEMMA MovesSuffice ==
  ASSUME Inv, NEW q \in Ranks, StepOf(q), Moves(q)
  PROVE  (\A r \in Ranks : RankFollows(r)') /\ InLockstep'
<1>1. \A r \in Ranks : r # q => Same(r) /\ raised'[r] = raised[r]
  BY OthersKeep DEF Inv
<1>2. \A r \in Ranks : RankFollows(r)'
  BY <1>1, RankKept DEF Inv, Moves
<1>3. InLockstep'
  <2>1. PICK S \in 1 .. MaxSteps + 1, K \in 0 .. Len(Ranges) - 1 : At(S, K)
    BY DEF Inv, InLockstep
  <2>2. Len(Ranges) \in Nat /\ K \in 0 .. Len(Ranges) /\ Len(Ranges) \in 0 .. Len(Ranges)
    BY Constants
  <2>3. Stands(q, S, K)'
    <3>1. Stands(q, S, K)
      BY <2>1 DEF At
    <3>2. CASE Good(q)'
      <4>1. Good(q) /\ \A d \in 0 .. Len(Ranges) : Collectives(q, d) => Collectives(q, d)'
        BY <3>2 DEF Moves
      <4>2. \/ step[q] = S /\ Collectives(q, K)
            \/ K = 0 /\ step[q] = S - 1 /\ Collectives(q, Len(Ranges))
        BY <3>1, <4>1 DEF Stands
      <4>3. \/ step'[q] = S /\ Collectives(q, K)'
            \/ K = 0 /\ step'[q] = S - 1 /\ Collectives(q, Len(Ranges))'
        BY <2>2, <4>1, <4>2 DEF Moves
      <4> QED BY <3>2, <4>3 DEF Stands
    <3>3. CASE ~Good(q)'
      <4>1. step[q] \in {S - 1, S}
        BY <3>1 DEF Stands
      <4> QED BY <3>3, <4>1 DEF Stands, Moves
    <3> QED BY <3>2, <3>3
  <2>4. \A r \in Ranks : Stands(r, S, K)'
    BY <1>1, <2>1, <2>3, RankKept DEF At
  <2>5. At(S, K)'
    BY <2>4 DEF At
  <2> QED BY <2>5 DEF InLockstep
<1> QED BY <1>2, <1>3

-----------------------------------------------------------------------------
(* The steps of the training loop.                                         *)

\* What a step of the host leaves alone that only moves its program counter.
Steady(q) ==
  /\ step'[q] = step[q] /\ left'[q] = left[q] /\ ready'[q] = ready[q]
  /\ work'[q] = work[q] /\ sum'[q] = sum[q] /\ comm'[q] = comm[q]
  /\ packed'[q] = packed[q] /\ contents'[q] = contents[q] /\ aborted'[q] = aborted[q]

LEMMA SteadyKeeps ==
  ASSUME NEW q \in Ranks, Steady(q), Lives(q), Good(q)',
         active'[q] => active[q] /\ next'[q] = next[q],
         Issued(q)' = Issued(q),
         HostFollows(q)', PlanFollows(q)', StreamsFollow(q)', Good(q)
  PROVE  Moves(q)
<1>1. ReadyFollows(q)'
  BY DEF Steady, Lives, ReadyFollows, Complete
<1>2. NoneLost(q)'
  BY DEF Steady, Lives, NoneLost, Adds
<1>3. EventsFollow(q)'
  BY DEF Steady, Lives, EventsFollow, Complete, Adds
<1>4. HeadPacked(q)'
  BY DEF Steady, Lives, HeadPacked
<1>5. Lives(q)'
  BY <1>1, <1>2, <1>3, <1>4 DEF Lives, Steady
<1>6. \A k : Order(q, k)' = Order(q, k)
  BY DEF Order, Steady
<1>7. ASSUME NEW d PROVE Collectives(q, d) => Collectives(q, d)'
  <2>1. comm'[q] = comm[q] /\ step'[q] = step[q] /\ contents'[q] = contents[q]
    BY DEF Steady
  <2>2. Issued(q)' = Issued(q)
    OBVIOUS
  <2>3. \A k : (IF step'[q] = 1 THEN k ELSE Len(Ranges) + 1 - k)
               = (IF step[q] = 1 THEN k ELSE Len(Ranges) + 1 - k)
    BY <2>1
  <2> QED BY <2>1, <2>2, <2>3, <1>6 DEF Collectives, Order
<1> QED BY <1>5, <1>7 DEF Moves, RankFollows, Steady

\* The live rank behind a step of its loop.
LEMMA RankOf ==
  ASSUME Inv, NEW q \in Ranks, Good(q)
  PROVE  TypeOK /\ Typed(q) /\ Lives(q)
  BY TypesOfRank DEF Inv, RankFollows

LEMMA FinishedMoves ==
  ASSUME Inv, NEW q \in Ranks, Finished(q) PROVE Moves(q)
<1>1. pc[q] = "begin" /\ Good(q)
  BY GoesOn DEF Inv, Finished
<1>2. TypeOK /\ Typed(q) /\ Lives(q)
  BY <1>1, RankOf
<1>3. /\ pc'[q] = "done" /\ Steady(q) /\ active'[q] = active[q] /\ next'[q] = next[q]
      /\ planned'[q] = planned[q]
  BY <1>2 DEF Finished, Goto, TypeOK, Steady, deviceVars
<1>4. HostFollows(q)' /\ PlanFollows(q)' /\ StreamsFollow(q)' /\ Good(q)'
  BY <1>1, <1>2, <1>3
     DEF Lives, HostFollows, PlanFollows, StreamsFollow, Good, Steady
<1>5. Issued(q)' = Issued(q)
  BY <1>1, <1>3 DEF Issued
<1> QED BY <1>1, <1>2, <1>3, <1>4, <1>5, SteadyKeeps

LEMMA FreedMoves ==
  ASSUME Inv, NEW q \in Ranks, Freed(q) PROVE Moves(q)
<1>1. pc[q] = "freeing" /\ Good(q)
  BY GoesOn DEF Inv, Freed
<1>2. TypeOK /\ Typed(q) /\ Lives(q)
  BY <1>1, RankOf
<1>3. /\ pc'[q] = "backward" /\ Steady(q) /\ active'[q] = active[q] /\ next'[q] = next[q]
      /\ planned'[q] = planned[q]
  BY <1>2 DEF Freed, Goto, TypeOK, Steady, deviceVars
<1>4. HostFollows(q)' /\ PlanFollows(q)' /\ StreamsFollow(q)' /\ Good(q)'
  BY <1>1, <1>2, <1>3
     DEF Lives, HostFollows, PlanFollows, StreamsFollow, Good, Steady
<1>5. Issued(q)' = Issued(q)
  BY <1>1, <1>3 DEF Issued
<1> QED BY <1>1, <1>2, <1>3, <1>4, <1>5, SteadyKeeps

\* When nothing is missing every parameter is ready, so every bucket is enqueued.
LEMMA EndBackwardMoves ==
  ASSUME Inv, NEW q \in Ranks, EndBackward(q) PROVE Moves(q)
<1>1. pc[q] = "backward" /\ left[q] = NoContribution /\ Good(q)
  BY GoesOn DEF Inv, EndBackward
<1>2. TypeOK /\ Typed(q) /\ Lives(q)
  BY <1>1, RankOf
<1>3. /\ pc'[q] = (IF active[q] THEN "finish" ELSE "settle") /\ Steady(q)
      /\ active'[q] = active[q] /\ next'[q] = next[q] /\ planned'[q] = planned[q]
  BY <1>2 DEF EndBackward, Goto, TypeOK, Steady, deviceVars
<1>4. ASSUME active[q] PROVE next[q] = 0
  <2>1. ready[q] = Parameters
    BY <1>1, <1>2, <1>4 DEF Lives, ReadyFollows, NoContribution, Typed
  <2>2. \A b \in Buckets : Complete(b, ready[q])
    BY <2>1, Constants DEF Complete
  <2>3. next[q] \in 0 .. Len(Ranges) /\ Len(Ranges) \in Nat /\ Buckets = 1 .. Len(Ranges)
    BY <1>2, Constants DEF Typed
  <2>4. next[q] > 0 => ~Complete(next[q], ready[q])
    BY <1>2, <1>4 DEF Lives, ReadyFollows
  <2> QED BY <2>2, <2>3, <2>4
<1>5. HostFollows(q)' /\ StreamsFollow(q)' /\ PlanFollows(q)' /\ Good(q)'
  <2>1. active[q] <=> step[q] >= 2
    BY <1>1, <1>2 DEF Lives, HostFollows
  <2>2. step[q] \in Nat /\ step[q] >= 1
    BY <1>1, <1>2, Constants DEF Lives, HostFollows, Typed
  <2>3. ~active[q] => step[q] = 1
    BY <2>1, <2>2
  <2>4. HostFollows(q)'
    BY <1>1, <1>3, <1>4, <2>1, <2>2, <2>3 DEF HostFollows, Steady
  <2>5. StreamsFollow(q)' /\ PlanFollows(q)' /\ Good(q)'
    BY <1>1, <1>2, <1>3 DEF Lives, StreamsFollow, PlanFollows, Good, Steady
  <2> QED BY <2>4, <2>5
<1>6. Issued(q)' = Issued(q)
  BY <1>1, <1>3 DEF Issued
<1> QED BY <1>1, <1>2, <1>3, <1>5, <1>6, SteadyKeeps

LEMMA FinishOverlapMoves ==
  ASSUME Inv, NEW q \in Ranks, FinishOverlap(q), ~raised[q] PROVE Moves(q)
<1>1. pc[q] = "finish" /\ next[q] = 0 /\ comm[q] = <<>> /\ Good(q)
  BY GoesOn DEF Inv, FinishOverlap, CommDrained
<1>2. TypeOK /\ Typed(q) /\ Lives(q)
  BY <1>1, RankOf
<1>3. /\ pc'[q] = "optimizer" /\ Steady(q) /\ active'[q] = FALSE /\ next'[q] = next[q]
      /\ planned'[q] = planned[q]
  BY <1>2 DEF FinishOverlap, Goto, TypeOK, Steady, deviceVars
<1>4. HostFollows(q)' /\ PlanFollows(q)' /\ StreamsFollow(q)' /\ Good(q)'
  BY <1>1, <1>2, <1>3
     DEF Lives, HostFollows, PlanFollows, StreamsFollow, Good, Steady
<1>5. Issued(q)' = Issued(q)
  <2>1. active[q] /\ Len(Ranges) - 0 = Len(Ranges)
    BY <1>1, <1>2, Constants DEF Lives, HostFollows
  <2> QED BY <1>1, <1>3, <2>1 DEF Issued
<1> QED BY <1>1, <1>2, <1>3, <1>4, <1>5, SteadyKeeps

LEMMA SettleMoves ==
  ASSUME Inv, NEW q \in Ranks, Settle(q) PROVE Moves(q)
<1>1. pc[q] = "settle" /\ work[q] = <<>> /\ comm[q] = <<>> /\ Good(q)
  BY GoesOn DEF Inv, Settle, DeviceIdle
<1>2. TypeOK /\ Typed(q) /\ Lives(q)
  BY <1>1, RankOf
<1>3. /\ pc'[q] = "reduce" /\ Steady(q) /\ active'[q] = active[q] /\ next'[q] = 1
      /\ planned'[q] = TRUE
  BY <1>2 DEF Settle, Goto, TypeOK, Steady, deviceVars
<1>4. ~active[q] /\ step[q] = 1
  BY <1>1, <1>2 DEF Lives, HostFollows
<1>5. HostFollows(q)' /\ PlanFollows(q)' /\ StreamsFollow(q)' /\ Good(q)'
  BY <1>1, <1>2, <1>3, <1>4
     DEF Lives, HostFollows, PlanFollows, StreamsFollow, Good, Steady
<1>6. Issued(q)' = Issued(q)
  BY <1>1, <1>3, <1>4 DEF Issued
<1> QED BY <1>1, <1>2, <1>3, <1>4, <1>5, <1>6, SteadyKeeps

LEMMA AwaitMoves ==
  ASSUME Inv, NEW q \in Ranks, Await(q), ~raised[q] PROVE Moves(q)
<1>1. pc[q] = "await" /\ comm[q] = <<>> /\ Good(q)
  BY GoesOn DEF Inv, Await
<1>2. TypeOK /\ Typed(q) /\ Lives(q)
  BY <1>1, RankOf
<1>3. /\ IF next[q] < Len(Ranges) THEN pc'[q] = "reduce" /\ next'[q] = next[q] + 1
                                  ELSE pc'[q] = "optimizer" /\ next'[q] = 0
      /\ Steady(q) /\ active'[q] = active[q] /\ planned'[q] = planned[q]
  BY <1>2 DEF Await, Goto, TypeOK, Steady, deviceVars
<1>4. ~active[q] /\ step[q] = 1 /\ planned[q] /\ work[q] = <<>> /\ left[q] = NoContribution
  BY <1>1, <1>2 DEF Lives, HostFollows, PlanFollows, StreamsFollow
<1>5. next[q] \in 1 .. Len(Ranges) /\ Len(Ranges) \in Nat
  BY <1>1, <1>2, Constants DEF Lives, HostFollows, Typed
<1>6. HostFollows(q)'
  BY <1>1, <1>3, <1>4, <1>5 DEF HostFollows, Steady
<1>7. PlanFollows(q)' /\ Good(q)'
  BY <1>1, <1>3, <1>4 DEF PlanFollows, Good, Steady
<1>8. StreamsFollow(q)'
  BY <1>1, <1>2, <1>3, <1>4 DEF Lives, StreamsFollow, Steady
<1>9. Issued(q)' = Issued(q)
  <2>1. CASE next[q] < Len(Ranges)
    BY <1>1, <1>3, <1>4, <1>5, <2>1 DEF Issued
  <2>2. CASE ~(next[q] < Len(Ranges))
    <3>1. next[q] = Len(Ranges)
      BY <1>5, <2>2
    <3> QED BY <1>1, <1>3, <1>4, <2>2, <3>1 DEF Issued
  <2> QED BY <2>1, <2>2
<1> QED BY <1>1, <1>2, <1>3, <1>4, <1>6, <1>7, <1>8, <1>9, SteadyKeeps

LEMMA OptimizeMoves ==
  ASSUME Inv, NEW q \in Ranks, Optimize(q) PROVE Moves(q)
<1>1. pc[q] = "optimizer" /\ work[q] = <<>> /\ Good(q)
  BY GoesOn DEF Inv, Optimize
<1>2. TypeOK /\ Typed(q) /\ Lives(q)
  BY <1>1, RankOf
<1>3. /\ pc'[q] = "begin" /\ Steady(q) /\ active'[q] = active[q] /\ next'[q] = next[q]
      /\ planned'[q] = planned[q]
  BY <1>2 DEF Optimize, Goto, TypeOK, Steady, deviceVars
<1>4. HostFollows(q)' /\ PlanFollows(q)' /\ StreamsFollow(q)' /\ Good(q)'
  BY <1>1, <1>2, <1>3
     DEF Lives, HostFollows, PlanFollows, StreamsFollow, Good, Steady
<1>5. Issued(q)' = Issued(q)
  BY <1>1, <1>3 DEF Issued
<1> QED BY <1>1, <1>2, <1>3, <1>4, <1>5, SteadyKeeps

LEMMA AccumulateMoves ==
  ASSUME Inv, NEW q \in Ranks, NEW p \in Parameters, Accumulate(q, p) PROVE Moves(q)
<1>1. /\ pc[q] = "backward" /\ Good(q) /\ left[q][p] > 0 /\ (left[q][p] > 1 \/ ~active[q])
  BY GoesOn DEF Inv, Accumulate
<1>2. TypeOK /\ Typed(q) /\ Lives(q)
  BY <1>1, RankOf
<1>3. /\ pc'[q] \in {"backward", "freeing"} /\ work'[q] = Append(work[q], Adding(p))
      /\ left'[q] = [left[q] EXCEPT ![p] = @ - 1]
      /\ step'[q] = step[q] /\ planned'[q] = planned[q] /\ active'[q] = active[q]
      /\ ready'[q] = ready[q] /\ next'[q] = next[q] /\ sum'[q] = sum[q]
      /\ comm'[q] = comm[q] /\ packed'[q] = packed[q] /\ contents'[q] = contents[q]
      /\ aborted'[q] = aborted[q]
  BY <1>1, <1>2 DEF Accumulate, FreesOrNot, Goto, Add, Adding, TypeOK
<1>4. left[q] \in [Parameters -> Nat] /\ work[q] \in Seq(Tasks)
  BY <1>2 DEF Typed
<1>5. HostFollows(q)' /\ PlanFollows(q)' /\ StreamsFollow(q)' /\ Good(q)'
  BY <1>1, <1>2, <1>3 DEF Lives, HostFollows, PlanFollows, StreamsFollow, Good
<1>6. ReadyFollows(q)'
  <2> SUFFICES ASSUME active[q] PROVE ReadyFollows(q)'
    BY <1>3 DEF ReadyFollows
  <2>1. \A x \in Parameters : left'[q][x] = 0 <=> left[q][x] = 0
    BY <1>1, <1>3, <1>4
  <2>2. {x \in Parameters : left'[q][x] = 0} = {x \in Parameters : left[q][x] = 0}
    BY <2>1
  <2> QED BY <1>2, <1>3, <2>2 DEF Lives, ReadyFollows, Complete
<1>7. NoneLost(q)'
  <2> SUFFICES ASSUME step[q] >= 1, NEW x \in Parameters
               PROVE  sum[q][x] + Cardinality(Adds(work[q], x))' + left'[q][x] = Uses[x]
    BY <1>3 DEF NoneLost
  <2>1. sum[q][x] + Cardinality(Adds(work[q], x)) + left[q][x] = Uses[x]
    BY <1>2 DEF Lives, NoneLost
  <2>2. Cardinality(Adds(work[q], x))'
        = IF p = x THEN Cardinality(Adds(work[q], x)) + 1 ELSE Cardinality(Adds(work[q], x))
    <3> DEFINE w == work[q]
    <3>1. w \in Seq(Tasks)
      BY <1>4
    <3>2. Cardinality(Adds(work[q], x))' = Cardinality(Adds(Append(w, Adding(p)), x))
      BY <1>3 DEF Adds, Adding
    <3> HIDE DEF w
    <3>3. Cardinality(Adds(Append(w, Adding(p)), x))
          = IF p = x THEN Cardinality(Adds(w, x)) + 1 ELSE Cardinality(Adds(w, x))
      BY <3>1, AddsOfAdd
    <3> QED BY <3>2, <3>3 DEF w
  <2>3. left'[q][x] = IF p = x THEN left[q][x] - 1 ELSE left[q][x]
    BY <1>3, <1>4
  <2>4. Cardinality(Adds(work[q], x)) \in Nat /\ left[q][x] \in Nat /\ sum[q][x] \in Nat
    BY <1>2, AddsCounted DEF Typed
  <2> QED BY <2>1, <2>2, <2>3, <2>4
<1>8. EventsFollow(q)'
  <2> SUFFICES ASSUME active[q], NEW b \in Buckets, Complete(b, ready[q]),
                      NEW x \in Ranges[b], NEW i \in Adds(work[q], x)'
               PROVE  \E j \in DOMAIN work'[q] : j > i /\ work'[q][j] = Recording(b)
    BY <1>3 DEF EventsFollow, Complete, Recording
  <2>1. x \in Parameters /\ x \in ready[q]
    BY Constants DEF Complete
  <2>2. left[q][x] = 0
    BY <1>2, <2>1 DEF Lives, ReadyFollows
  <2>3. x # p
    BY <1>1, <2>2
  <2>4. i \in Adds(work[q], x)
    <3> DEFINE w == work[q]
    <3>1. w \in Seq(Tasks)
      BY <1>4
    <3>2. Adds(work[q], x)' = Adds(Append(w, Adding(p)), x)
      BY <1>3 DEF Adds, Adding
    <3> HIDE DEF w
    <3>3. Adds(Append(w, Adding(p)), x) = Adds(w, x)
      BY <2>1, <2>3, <3>1, AddsOfAdd
    <3> QED BY <3>2, <3>3 DEF w
  <2>5. PICK j \in DOMAIN work[q] : j > i /\ work[q][j] = Recording(b)
    BY <1>2, <2>4 DEF Lives, EventsFollow
  <2>6. j \in DOMAIN work'[q] /\ work'[q][j] = work[q][j]
    BY <1>3, <1>4
  <2> QED BY <2>5, <2>6
<1>9. HeadPacked(q)'
  BY <1>2, <1>3 DEF Lives, HeadPacked
<1>10. Lives(q)'
  BY <1>2, <1>3, <1>5, <1>6, <1>7, <1>8, <1>9 DEF Lives
<1>11. \A d : Collectives(q, d) => Collectives(q, d)'
  <2>1. Issued(q)' = Issued(q)
    BY <1>1, <1>3 DEF Issued
  <2> QED BY <1>3, <2>1 DEF Collectives, Order
<1> QED BY <1>1, <1>3, <1>5, <1>10, <1>11 DEF Moves, RankFollows

LEMMA LastContributionMoves ==
  ASSUME Inv, NEW q \in Ranks, NEW p \in Parameters, LastContribution(q, p) PROVE Moves(q)
<1> DEFINE done == Done(q, p)
           w == Append(work[q], Adding(p))
           R == Records(Completes(q, p))
           e == Enqueued(q, done)
           m == NextRange(q, done)
<1>1. pc[q] = "backward" /\ Good(q) /\ left[q][p] = 1 /\ active[q]
  BY GoesOn DEF Inv, LastContribution
<1>2. TypeOK /\ Typed(q) /\ Lives(q)
  BY <1>1, RankOf
<1>3. /\ pc'[q] \in {"backward", "freeing"}
      /\ step'[q] = step[q] /\ planned'[q] = planned[q] /\ active'[q] = active[q]
      /\ sum'[q] = sum[q] /\ packed'[q] = packed[q] /\ contents'[q] = contents[q]
      /\ aborted'[q] = aborted[q]
  BY <1>1, <1>2 DEF LastContribution, FreesOrNot, Goto, TypeOK
<1>4. /\ left'[q] = [left[q] EXCEPT ![p] = 0] /\ ready'[q] = done
      /\ work'[q] = w \o R /\ next'[q] = m /\ comm'[q] = comm[q] \o e
  <2>1. /\ left' = [left EXCEPT ![q][p] = 0]
        /\ ready' = [ready EXCEPT ![q] = Done(q, p)]
        /\ work' = [work EXCEPT ![q] = Append(@, Adding(p)) \o Records(Completes(q, p))]
        /\ next' = [next EXCEPT ![q] = NextRange(q, Done(q, p))]
        /\ comm' = [comm EXCEPT ![q] = @ \o Enqueued(q, Done(q, p))]
    BY <1>2, LastContributionDoes
  <2> QED BY <1>2, <2>1 DEF TypeOK
<1>5. /\ left[q] \in [Parameters -> Nat] /\ work[q] \in Seq(Tasks) /\ comm[q] \in Seq(Jobs)
      /\ done \in SUBSET Parameters /\ next[q] \in 0 .. Len(Ranges) /\ Len(Ranges) \in Nat
  BY <1>2, Constants DEF Typed, Done
<1>6. step[q] \in 1 .. MaxSteps /\ step[q] >= 2 /\ step[q] # 1
  BY <1>1, <1>2, Constants DEF Lives, HostFollows, Typed
<1>7. /\ e \in Seq(Jobs) /\ Len(e) = next[q] - m /\ next[q] - m \in Nat
      /\ \A i \in 1 .. next[q] - m : e[i] = [bucket |-> next[q] + 1 - i, step |-> step[q]]
  BY <1>5, <1>6, EnqueuedIs
<1>8. /\ m \in 0 .. next[q] /\ (m > 0 => ~Complete(m, done))
      /\ \A b \in Buckets : b > m /\ b <= next[q] => Complete(b, done)
  BY <1>5, NextRangeIs
<1>9. /\ R \in Seq([op : {"record"}, of : Buckets])
      /\ \A b \in Completes(q, p) : \E j \in DOMAIN R : R[j] = Recording(b)
  <2>1. Completes(q, p) \in SUBSET Buckets
    BY DEF Completes
  <2> QED BY <2>1, RecordsList
<1>10. done = ready[q] \cup {p}
  BY DEF Done
<1>11. w \in Seq(Tasks) /\ Len(w) = Len(work[q]) + 1
  BY <1>5, TaskTypes
<1>12. \A b \in Buckets : p \in Ranges[b] /\ Complete(b, done) => b \in Completes(q, p)
  BY DEF Completes
<1> HIDE DEF done, e, m, R
<1>13. HostFollows(q)' /\ PlanFollows(q)' /\ Good(q)'
  BY <1>1, <1>2, <1>3 DEF Lives, HostFollows, PlanFollows, Good
<1>14. StreamsFollow(q)'
  <2>1. packed[q] => comm[q] # <<>>
    BY <1>2 DEF Lives, StreamsFollow
  <2>2. packed'[q] => comm'[q] # <<>>
    BY <1>3, <1>4, <1>5, <1>7, <2>1
  <2> QED BY <1>1, <1>3, <2>2 DEF StreamsFollow
<1>15. ReadyFollows(q)'
  <2>1. ready[q] = {x \in Parameters : left[q][x] = 0}
    BY <1>1, <1>2 DEF Lives, ReadyFollows
  <2>2. \A x \in Parameters : left'[q][x] = 0 <=> x \in done
    BY <1>4, <1>5, <1>10, <2>1
  <2>3. done = {x \in Parameters : left'[q][x] = 0}
    BY <1>5, <2>2
  <2>4. \A b \in Buckets : b > m => Complete(b, done)
    <3> TAKE b \in Buckets
    <3>1. CASE b <= next[q]
      BY <1>8, <3>1
    <3>2. CASE b > next[q]
      <4>1. Complete(b, ready[q])
        BY <1>1, <1>2, <3>2 DEF Lives, ReadyFollows
      <4> QED BY <1>10, <4>1 DEF Complete
    <3>3. b \in Nat /\ next[q] \in Nat
      BY <1>5, Constants
    <3> QED BY <3>1, <3>2, <3>3
  <2> QED BY <1>4, <1>8, <2>3, <2>4 DEF ReadyFollows, Complete
<1>16. \A x \in Parameters : Adds(work[q], x)' = Adds(w, x)
  <2> TAKE x \in Parameters
  <2>1. Adds(work[q], x)' = Adds(w \o R, x)
    BY <1>4 DEF Adds, Adding
  <2> HIDE DEF w
  <2>2. Adds(w \o R, x) = Adds(w, x)
    BY <1>9, <1>11, AddsThenRecords
  <2> QED BY <2>1, <2>2
<1>17. NoneLost(q)'
  <2> SUFFICES ASSUME NEW x \in Parameters
               PROVE  sum[q][x] + Cardinality(Adds(w, x)) + left'[q][x] = Uses[x]
    BY <1>3, <1>16 DEF NoneLost
  <2>1. sum[q][x] + Cardinality(Adds(work[q], x)) + left[q][x] = Uses[x]
    BY <1>2, <1>6 DEF Lives, NoneLost
  <2>2. Cardinality(Adds(w, x))
        = IF p = x THEN Cardinality(Adds(work[q], x)) + 1 ELSE Cardinality(Adds(work[q], x))
    BY <1>5, AddsOfAdd
  <2>3. left'[q][x] = IF p = x THEN left[q][x] - 1 ELSE left[q][x]
    BY <1>1, <1>4, <1>5
  <2>4. Cardinality(Adds(work[q], x)) \in Nat /\ left[q][x] \in Nat /\ sum[q][x] \in Nat
    BY <1>2, AddsCounted DEF Typed
  <2> HIDE DEF w
  <2> QED BY <2>1, <2>2, <2>3, <2>4
<1>18. EventsFollow(q)'
  <2> SUFFICES ASSUME NEW b \in Buckets, Complete(b, done),
                      NEW x \in Ranges[b], NEW i \in Adds(work[q], x)'
               PROVE  \E j \in DOMAIN work'[q] : j > i /\ work'[q][j] = Recording(b)
    BY <1>4 DEF EventsFollow, Complete, Recording
  <2> SUFFICES \E j \in DOMAIN (w \o R) : j > i /\ (w \o R)[j] = Recording(b)
    <3> HIDE DEF w
    <3> QED BY <1>4
  <2>1. x \in Parameters /\ x \in done /\ i \in Adds(w, x)
    BY <1>16, Constants DEF Complete
  <2>2. /\ DOMAIN (w \o R) = 1 .. Len(w) + Len(R) /\ Len(w) \in Nat /\ Len(R) \in Nat
        /\ DOMAIN R = 1 .. Len(R)
        /\ \A k \in DOMAIN R : (w \o R)[Len(w) + k] = R[k]
        /\ \A k \in 1 .. Len(w) : (w \o R)[k] = w[k]
    <3> DEFINE kinds == [op : {"record"}, of : Buckets]
    <3>1. w \in Seq(Tasks) /\ R \in Seq(kinds)
      BY <1>9, <1>11
    <3> HIDE DEF w, kinds
    <3> QED BY <3>1, Concatenation
  <2>3. CASE p \in Ranges[b]
    <3>1. PICK j \in DOMAIN R : R[j] = Recording(b)
      BY <1>9, <1>12, <2>3
    <3>2. i \in 1 .. Len(w)
      <4> HIDE DEF w
      <4> QED BY <1>11, <2>1 DEF Adds
    <3>3. (w \o R)[Len(w) + j] = R[j]
      <4> HIDE DEF w
      <4> QED BY <2>2
    <3>4. Len(w) + j \in DOMAIN (w \o R) /\ Len(w) + j > i
      BY <2>2, <3>2
    <3> QED BY <3>1, <3>3, <3>4
  <2>4. CASE p \notin Ranges[b]
    <3>1. Complete(b, ready[q]) /\ x # p
      BY <1>10, <2>4 DEF Complete
    <3>2. Adds(w, x) = Adds(work[q], x)
      BY <1>5, <2>1, <3>1, AddsOfAdd
    <3>3. PICK j \in DOMAIN work[q] : j > i /\ work[q][j] = Recording(b)
      <4>1. i \in Adds(work[q], x)
        BY <2>1, <3>2
      <4>2. EventsFollow(q) /\ active[q]
        BY <1>1, <1>2 DEF Lives
      <4> QED BY <3>1, <4>1, <4>2 DEF EventsFollow
    <3>4. j \in 1 .. Len(w) /\ w[j] = work[q][j]
      BY <1>5, <1>11
    <3>5. (w \o R)[j] = w[j]
      <4> HIDE DEF w
      <4> QED BY <2>2, <3>4
    <3> QED BY <2>2, <3>3, <3>4, <3>5
  <2> QED BY <2>3, <2>4
<1>19. HeadPacked(q)'
  <2>1. packed[q] => comm[q] # <<>>
    BY <1>2 DEF Lives, StreamsFollow
  <2>2. packed[q] => Head(comm[q] \o e) = Head(comm[q])
    BY <1>5, <1>7, <2>1
  <2> QED BY <1>2, <1>3, <1>4, <2>2 DEF Lives, HeadPacked
<1>20. Lives(q)'
  BY <1>2, <1>3, <1>13, <1>14, <1>15, <1>17, <1>18, <1>19 DEF Lives
<1>21. ASSUME NEW d \in 0 .. Len(Ranges), Collectives(q, d) PROVE Collectives(q, d)'
  <2>1. Issued(q) = Len(Ranges) - next[q] /\ Issued(q)' = Len(Ranges) - m
    BY <1>1, <1>3, <1>4 DEF Issued
  <2>2. Len(Ranges) - next[q] = d + Len(comm[q]) /\ d \in Nat /\ Len(comm[q]) \in Nat
    BY <1>5, <1>21, <2>1 DEF Collectives
  <2>3. Len(comm[q] \o e) = Len(comm[q]) + (next[q] - m)
    <3>1. Len(comm[q] \o e) = Len(comm[q]) + Len(e)
      <4>1. comm[q] \in Seq(Jobs) /\ e \in Seq(Jobs)
        BY <1>5, <1>7
      <4> QED BY <4>1
    <3> QED BY <1>7, <3>1
  <2>4. Issued(q)' = d + Len(comm'[q])
    <3>1. next[q] \in Nat /\ m \in Nat
      BY <1>5, <1>8
    <3>2. Len(Ranges) - m = d + (Len(comm[q]) + (next[q] - m))
      <4>1. Len(Ranges) \in Nat
        BY Constants
      <4>2. \A x, y, z, n, k \in Nat : x - n = y + z => x - k = y + (z + (n - k))
        OBVIOUS
      <4> QED BY <2>2, <3>1, <4>1, <4>2
    <3>3. Issued(q)' = d + Len(comm[q] \o e)
      BY <2>1, <2>3, <3>2
    <3> QED BY <1>4, <3>3
  <2>5. ASSUME NEW k \in DOMAIN (comm[q] \o e)
        PROVE  (comm[q] \o e)[k] = [bucket |-> Len(Ranges) + 1 - (d + k), step |-> step[q]]
    <3>1. k \in 1 .. Len(comm[q]) + Len(e)
      BY <1>5, <1>7, <2>5
    <3>2. CASE k <= Len(comm[q])
      <4>1. (comm[q] \o e)[k] = comm[q][k] /\ k \in DOMAIN comm[q]
        BY <1>5, <1>7, <3>1, <3>2
      <4> QED BY <1>6, <1>21, <4>1 DEF Collectives, Order
    <3>3. CASE k > Len(comm[q])
      <4>1. k - Len(comm[q]) \in 1 .. next[q] - m
        <5>1. Len(e) \in Nat /\ Len(e) = next[q] - m /\ Len(comm[q]) \in Nat
          BY <1>7, <2>2
        <5>2. \A x, y \in Nat : \A i \in 1 .. x + y : i > x => i - x \in 1 .. y
          OBVIOUS
        <5>3. k - Len(comm[q]) \in 1 .. Len(e)
          BY <3>1, <3>3, <5>1, <5>2
        <5> QED BY <5>1, <5>3
      <4>2. (comm[q] \o e)[k] = e[k - Len(comm[q])]
        BY <1>5, <1>7, <3>1, <3>3
      <4>3. e[k - Len(comm[q])]
            = [bucket |-> next[q] + 1 - (k - Len(comm[q])), step |-> step[q]]
        BY <1>7, <4>1
      <4>4. next[q] + 1 - (k - Len(comm[q])) = Len(Ranges) + 1 - (d + k)
        <5>1. next[q] \in Nat /\ k \in Nat /\ Len(comm[q]) \in Nat /\ Len(Ranges) \in Nat
          BY <1>5, <2>2, <3>1
        <5> QED BY <2>2, <5>1, SameBucket
      <4> QED BY <4>2, <4>3, <4>4
    <3>4. k \in Nat
      BY <3>1
    <3> QED BY <2>2, <3>2, <3>3, <3>4
  <2>6. \A k \in DOMAIN comm'[q] :
          comm'[q][k] = [bucket |-> Len(Ranges) + 1 - (d + k), step |-> step[q]]
    BY <1>4, <2>5
  <2>7. \A k \in 1 .. d : \A b \in Buckets : b = Order(q, k) =>
          contents[q][b] = Ranks \X {step[q]} \X {b}
    BY <1>6, <1>21 DEF Collectives
  <2> QED BY <1>3, <1>6, <2>4, <2>6, <2>7 DEF Collectives, Order
<1> QED BY <1>1, <1>3, <1>13, <1>20, <1>21 DEF Moves, RankFollows

LEMMA ReduceMoves ==
  ASSUME Inv, NEW q \in Ranks, Reduce(q) PROVE Moves(q)
<1>1. pc[q] = "reduce" /\ Good(q)
  BY GoesOn DEF Inv, Reduce
<1>2. TypeOK /\ Typed(q) /\ Lives(q)
  BY <1>1, RankOf
<1>3. ~active[q] /\ step[q] = 1 /\ next[q] >= 1 /\ comm[q] = <<>> /\ ~packed[q]
  BY <1>1, <1>2 DEF Lives, HostFollows, StreamsFollow
<1> DEFINE j == [bucket |-> next[q], step |-> step[q]]
<1>4. /\ pc'[q] = "await" /\ comm'[q] = <<j>>
      /\ step'[q] = step[q] /\ planned'[q] = planned[q] /\ active'[q] = active[q]
      /\ left'[q] = left[q] /\ ready'[q] = ready[q] /\ next'[q] = next[q]
      /\ work'[q] = work[q] /\ sum'[q] = sum[q] /\ packed'[q] = packed[q]
      /\ contents'[q] = contents[q] /\ aborted'[q] = aborted[q]
  <2>1. comm'[q] = Append(comm[q], j)
    BY <1>2 DEF Reduce, TypeOK, Job
  <2>2. comm'[q] = <<j>>
    BY <1>3, <2>1
  <2> QED BY <1>2, <2>2 DEF Reduce, Goto, TypeOK
<1>5. Len(comm'[q]) = 1 /\ DOMAIN comm'[q] = {1} /\ comm'[q][1] = j
  BY <1>4
<1> HIDE DEF j
<1>6. HostFollows(q)' /\ PlanFollows(q)' /\ Good(q)'
  BY <1>1, <1>2, <1>4 DEF Lives, HostFollows, PlanFollows, Good
<1>7. StreamsFollow(q)'
  BY <1>1, <1>2, <1>3, <1>4, <1>5 DEF Lives, StreamsFollow
<1>8. ReadyFollows(q)' /\ EventsFollow(q)' /\ HeadPacked(q)'
  BY <1>3, <1>4 DEF ReadyFollows, EventsFollow, HeadPacked
<1>9. NoneLost(q)'
  BY <1>2, <1>4 DEF Lives, NoneLost, Adds, Adding
<1>10. Lives(q)'
  BY <1>2, <1>4, <1>6, <1>7, <1>8, <1>9 DEF Lives
<1>11. ASSUME NEW d \in 0 .. Len(Ranges), Collectives(q, d) PROVE Collectives(q, d)'
  <2>1. next[q] \in Nat /\ d \in Nat
    BY <1>2, Constants DEF Typed
  <2>2. next[q] - 1 = d + 0
    BY <1>1, <1>3, <1>11 DEF Collectives, Issued
  <2>3. next[q] = d + 1
    BY <2>1, <2>2
  <2>4. Issued(q)' = d + Len(comm'[q])
    BY <1>3, <1>4, <1>5, <2>3 DEF Issued
  <2>5. \A k \in DOMAIN comm'[q] : comm'[q][k] = [bucket |-> d + k, step |-> step[q]]
    BY <1>5, <2>3 DEF j
  <2>6. \A k \in 1 .. d : \A b \in Buckets : b = k => contents[q][b] = Ranks \X {step[q]} \X {b}
    BY <1>3, <1>11 DEF Collectives, Order
  <2> QED BY <1>3, <1>4, <2>4, <2>5, <2>6 DEF Collectives, Order
<1> QED BY <1>1, <1>4, <1>6, <1>10, <1>11 DEF Moves, RankFollows

-----------------------------------------------------------------------------
(* The steps of a device.                                                  *)

LEMMA ExecuteMoves ==
  ASSUME Inv, NEW q \in Ranks, Execute(q) PROVE Moves(q)
<1>1. TypeOK /\ Typed(q) /\ RankFollows(q)
  BY TypesOfRank DEF Inv
<1>2. work[q] # <<>> /\ work[q] \in Seq(Tasks)
  BY <1>1 DEF Execute, Typed
<1>3. /\ pc'[q] = pc[q] /\ step'[q] = step[q] /\ planned'[q] = planned[q]
      /\ active'[q] = active[q] /\ left'[q] = left[q] /\ ready'[q] = ready[q]
      /\ next'[q] = next[q] /\ work'[q] = Tail(work[q]) /\ comm'[q] = comm[q]
      /\ packed'[q] = packed[q] /\ contents'[q] = contents[q] /\ aborted'[q] = aborted[q]
      /\ raised'[q] = raised[q]
  BY <1>1 DEF Execute, TypeOK, hostVars
<1>4. \A d : Collectives(q, d) => Collectives(q, d)'
  <2>1. Issued(q)' = Issued(q)
    BY <1>3 DEF Issued
  <2> QED BY <1>3, <2>1 DEF Collectives, Order
<1>5. CASE ~Good(q)
  <2>1. Ended(q)' /\ ~Good(q)'
    BY <1>1, <1>3, <1>5 DEF RankFollows, Ended, Good
  <2> QED BY <1>3, <2>1 DEF Moves, RankFollows
<1>6. CASE Good(q)
  <2>1. Lives(q)
    BY <1>1, <1>6 DEF RankFollows
  <2>2. HostFollows(q)' /\ PlanFollows(q)' /\ ReadyFollows(q)' /\ StreamsFollow(q)'
        /\ HeadPacked(q)' /\ Good(q)' /\ ~aborted'[q]
    BY <1>2, <1>3, <1>6, <2>1
       DEF Lives, HostFollows, PlanFollows, ReadyFollows, Complete, StreamsFollow, HeadPacked,
           Good
  <2>3. \A x \in Parameters : Adds(work[q], x)' = Adds(Tail(work[q]), x)
    BY <1>3 DEF Adds, Adding
  <2>4. NoneLost(q)'
    <3> SUFFICES ASSUME step[q] >= 1, NEW x \in Parameters
                 PROVE  sum'[q][x] + Cardinality(Adds(Tail(work[q]), x)) + left[q][x] = Uses[x]
      BY <1>3, <2>3 DEF NoneLost
    <3> DEFINE h == Head(work[q])
    <3>1. sum[q][x] + Cardinality(Adds(work[q], x)) + left[q][x] = Uses[x]
      BY <2>1 DEF Lives, NoneLost
    <3>2. Cardinality(Adds(work[q], x))
          = IF h = Adding(x) THEN Cardinality(Adds(Tail(work[q]), x)) + 1
                             ELSE Cardinality(Adds(Tail(work[q]), x))
      BY <1>2, AddsOfTail
    <3>3. sum'[q][x] = IF h = Adding(x) THEN sum[q][x] + 1 ELSE sum[q][x]
      <4>1. h \in Tasks
        BY <1>2
      <4>2. sum' = IF h.op = "add" THEN [sum EXCEPT ![q][h.of] = @ + 1] ELSE sum
        BY DEF Execute
      <4>3. h.op = "add" => h.of \in Parameters /\ h = Adding(h.of)
        BY <4>1 DEF Tasks, Adding
      <4>4. h = Adding(x) <=> h.op = "add" /\ h.of = x
        BY <4>3 DEF Adding
      <4> HIDE DEF h
      <4>5. sum \in [Ranks -> [Parameters -> Nat]]
        BY <1>1 DEF TypeOK
      <4>6. CASE h.op = "add"
        <5>1. sum'[q] = [sum[q] EXCEPT ![h.of] = @ + 1]
          BY <4>2, <4>5, <4>6
        <5> QED BY <4>3, <4>4, <4>5, <4>6, <5>1
      <4>7. CASE h.op # "add"
        BY <4>2, <4>4, <4>7
      <4> QED BY <4>6, <4>7
    <3>4. /\ Cardinality(Adds(Tail(work[q]), x)) \in Nat
          /\ left[q][x] \in Nat /\ sum[q][x] \in Nat
      <4>1. Tail(work[q]) \in Seq(Tasks)
        BY <1>2
      <4> QED BY <1>1, <4>1, AddsCounted DEF Typed
    <3> HIDE DEF h
    <3> QED BY <3>1, <3>2, <3>3, <3>4
  <2>5. EventsFollow(q)'
    <3> DEFINE s == Tail(work[q])
    <3>1. ASSUME active[q], NEW b \in Buckets, Complete(b, ready[q]),
                 NEW x \in Ranges[b], NEW i \in Adds(s, x)
          PROVE  \E j \in DOMAIN s : j > i /\ s[j] = Recording(b)
      <4>1. x \in Parameters
        BY Constants
      <4>2. i \in Nat \ {0} /\ i + 1 \in Adds(work[q], x)
        BY <1>2, <4>1, AddsOfTail
      <4>3. PICK j \in DOMAIN work[q] : j > i + 1 /\ work[q][j] = Recording(b)
        BY <2>1, <3>1, <4>2 DEF Lives, EventsFollow
      <4>4. j \in 1 .. Len(work[q]) /\ Len(work[q]) \in Nat
        BY <1>2
      <4>5. DOMAIN s = 1 .. Len(work[q]) - 1 /\ \A k \in DOMAIN s : s[k] = work[q][k + 1]
        BY <1>2
      <4> HIDE DEF s
      <4>6. j - 1 \in DOMAIN s /\ j - 1 > i /\ (j - 1) + 1 = j
        BY <4>2, <4>3, <4>4, <4>5
      <4> QED BY <4>3, <4>5, <4>6
    <3>2. active'[q] = active[q] /\ ready'[q] = ready[q] /\ work'[q] = s
      BY <1>3
    <3> HIDE DEF s
    <3> QED BY <3>1, <3>2 DEF EventsFollow, Complete, Adds
  <2>6. Lives(q)'
    BY <2>2, <2>4, <2>5 DEF Lives
  <2> QED BY <1>3, <1>4, <1>6, <2>2, <2>6 DEF Moves, RankFollows
<1> QED BY <1>5, <1>6

\* Where a living rank is in the order of collectives.
LEMMA SomeCollective ==
  ASSUME Inv, NEW q \in Ranks, Good(q)
  PROVE  \E d \in 0 .. Len(Ranges) : Collectives(q, d)
<1>1. PICK S \in 1 .. MaxSteps + 1, K \in 0 .. Len(Ranges) - 1 : At(S, K)
  BY DEF Inv, InLockstep
<1>2. K \in 0 .. Len(Ranges) /\ Len(Ranges) \in 0 .. Len(Ranges)
  BY Constants
<1>3. Collectives(q, K) \/ Collectives(q, Len(Ranges))
  BY <1>1 DEF At, Stands
<1> QED BY <1>2, <1>3

\* The next bucket of the order waits at the head of the stream.
LEMMA HeadIsNext ==
  ASSUME Inv, NEW q \in Ranks, Good(q), comm[q] # <<>>,
         NEW d \in 0 .. Len(Ranges), Collectives(q, d)
  PROVE  /\ d + 1 \in 1 .. Len(Ranges) /\ Order(q, d + 1) \in Buckets
         /\ Head(comm[q]).bucket = Order(q, d + 1)
         /\ active[q] => Order(q, d + 1) > next[q]
         /\ step[q] \in 1 .. MaxSteps
<1>1. TypeOK /\ Typed(q) /\ Lives(q)
  BY RankOf
<1>2. comm[q] \in Seq(Jobs) /\ Len(comm[q]) \in Nat \ {0}
  BY <1>1 DEF Typed
<1>3. Head(comm[q]) = comm[q][1] /\ 1 \in DOMAIN comm[q]
  BY <1>2, HeadIsJob
<1>4. Head(comm[q]).bucket = Order(q, d + 1)
  <2>1. comm[q][1] = [bucket |-> Order(q, d + 1), step |-> step[q]]
    BY <1>3 DEF Collectives
  <2> QED BY <1>3, <2>1
<1>5. active[q] \/ pc[q] = "await"
  BY <1>1 DEF Lives, StreamsFollow
<1>6. d \in Nat /\ next[q] \in 0 .. Len(Ranges) /\ Len(Ranges) \in Nat
  BY <1>1, Constants DEF Typed
<1>7. Issued(q) = d + Len(comm[q])
  BY DEF Collectives
<1>8. step[q] \in 1 .. MaxSteps
  BY <1>1, <1>5, Constants DEF Lives, HostFollows, Typed
<1>9. CASE active[q]
  <2>1. Len(Ranges) - next[q] = d + Len(comm[q])
    BY <1>1, <1>7, <1>9 DEF Issued, Lives, HostFollows
  <2>2. Order(q, d + 1) = Len(Ranges) + 1 - (d + 1)
    BY <1>1, <1>9 DEF Order, Lives, HostFollows
  <2>3. d + 1 <= Len(Ranges) - next[q]
    <3> HIDE DEF Collectives
    <3> QED BY <1>2, <1>6, <2>1
  <2>4. d + 1 \in 1 .. Len(Ranges) /\ Order(q, d + 1) \in 1 .. Len(Ranges)
        /\ Order(q, d + 1) > next[q]
    BY <1>6, <2>2, <2>3
  <2> QED BY <1>4, <1>8, <2>4, Constants
<1>10. CASE ~active[q] /\ pc[q] = "await"
  <2>1. next[q] = d + Len(comm[q])
    BY <1>7, <1>10 DEF Issued
  <2>2. Order(q, d + 1) = d + 1
    BY <1>1, <1>10 DEF Order, Lives, HostFollows
  <2>3. d + 1 <= next[q]
    BY <1>2, <1>6, <2>1
  <2>4. d + 1 \in 1 .. Len(Ranges)
    BY <1>6, <2>3
  <2> QED BY <1>4, <1>8, <1>10, <2>2, <2>4, Constants
<1> QED BY <1>5, <1>9, <1>10

\* When the bucket's event has passed, all its gradients are added up.
LEMMA SumsComplete ==
  ASSUME Inv, NEW q \in Ranks, Good(q), Pack(q)
  PROVE  \A p \in Ranges[Head(comm[q]).bucket] : sum[q][p] = Uses[p]
<1>1. TypeOK /\ Typed(q) /\ Lives(q)
  BY RankOf
<1>2. comm[q] # <<>>
  BY DEF Pack
<1>3. PICK d \in 0 .. Len(Ranges) : Collectives(q, d)
  BY SomeCollective
<1> DEFINE b == Head(comm[q]).bucket
<1>4. b \in Buckets /\ (active[q] => b > next[q]) /\ step[q] >= 1
  BY <1>2, <1>3, HeadIsNext, Constants
<1>5. Recording(b) \notin ToSet(work[q])
  BY DEF Pack, EventPassed, Recording
<1> HIDE DEF b
<1> SUFFICES ASSUME NEW p \in Ranges[b] PROVE sum[q][p] = Uses[p]
  BY DEF b
<1>6. p \in Parameters
  BY <1>4, Constants
<1>7. left[q][p] = 0 /\ Adds(work[q], p) = {}
  <2>1. CASE active[q]
    <3>1. Complete(b, ready[q])
      BY <1>1, <1>4, <2>1 DEF Lives, ReadyFollows
    <3>2. p \in ready[q]
      BY <3>1 DEF Complete
    <3>3. left[q][p] = 0
      BY <1>1, <2>1, <3>2 DEF Lives, ReadyFollows
    <3>4. ASSUME NEW i \in Adds(work[q], p) PROVE FALSE
      <4>1. PICK j \in DOMAIN work[q] : j > i /\ work[q][j] = Recording(b)
        BY <1>1, <1>4, <2>1, <3>1 DEF Lives, EventsFollow
      <4>2. Recording(b) \in ToSet(work[q])
        BY <4>1 DEF ToSet
      <4> QED BY <1>5, <4>2
    <3> QED BY <3>3, <3>4
  <2>2. CASE ~active[q]
    <3>1. pc[q] = "await"
      BY <1>1, <1>2, <2>2 DEF Lives, StreamsFollow
    <3>2. work[q] = <<>> /\ left[q] = NoContribution
      BY <1>1, <3>1 DEF Lives, StreamsFollow, HostFollows
    <3>3. left[q][p] = 0
      BY <1>6, <3>2 DEF NoContribution
    <3>4. Adds(work[q], p) = {}
      BY <3>2 DEF Adds
    <3> QED BY <3>3, <3>4
  <2> QED BY <2>1, <2>2
<1>8. Cardinality(Adds(work[q], p)) = 0
  BY <1>7, FS_EmptySet
<1>9. sum[q][p] + Cardinality(Adds(work[q], p)) + left[q][p] = Uses[p]
  BY <1>1, <1>4, <1>6 DEF Lives, NoneLost
<1>10. sum[q][p] \in Nat
  BY <1>1, <1>6 DEF Typed
<1> QED BY <1>7, <1>8, <1>9, <1>10

LEMMA PackMoves ==
  ASSUME Inv, NEW q \in Ranks, Pack(q) PROVE Moves(q)
<1>1. TypeOK /\ Typed(q) /\ RankFollows(q)
  BY TypesOfRank DEF Inv
<1>2. comm[q] # <<>>
  BY DEF Pack
<1>3. /\ pc'[q] = pc[q] /\ step'[q] = step[q] /\ planned'[q] = planned[q]
      /\ active'[q] = active[q] /\ left'[q] = left[q] /\ ready'[q] = ready[q]
      /\ next'[q] = next[q] /\ work'[q] = work[q] /\ sum'[q] = sum[q] /\ comm'[q] = comm[q]
      /\ aborted'[q] = aborted[q] /\ raised'[q] = raised[q]
  BY <1>1 DEF Pack, TypeOK, hostVars
<1>4. CASE ~Good(q)
  <2>1. Ended(q)' /\ ~Good(q)'
    BY <1>1, <1>3, <1>4 DEF RankFollows, Ended, Good
  <2> QED BY <1>3, <2>1 DEF Moves, RankFollows
<1>5. CASE Good(q)
  <2>1. Lives(q)
    BY <1>1, <1>5 DEF RankFollows
  <2> DEFINE h == Head(comm[q]).bucket
  <2>2. PICK c \in Buckets : c = h
    BY <1>1, <1>2, HeadIsJob DEF Typed
  <2>3. contents'[q] = [contents[q] EXCEPT ![c] = {<<q, step[q], c>>}]
    <3>1. \A p \in Ranges[h] : sum[q][p] = Uses[p]
      BY <1>5, SumsComplete
    <3>2. contents' = [contents EXCEPT ![q][h] =
            IF \A p \in Ranges[h] : sum[q][p] = Uses[p] THEN {<<q, step[q], h>>} ELSE {}]
      BY DEF Pack
    <3> HIDE DEF h
    <3>3. contents' = [contents EXCEPT ![q][c] = {<<q, step[q], c>>}]
      BY <2>2, <3>1, <3>2
    <3> QED BY <1>1, <3>3 DEF TypeOK
  <2>4. contents[q] \in [Buckets -> SUBSET Gradients]
    BY <1>1 DEF Typed
  <2>5. HeadPacked(q)'
    BY <1>3, <2>2, <2>3, <2>4 DEF HeadPacked
  <2>6. HostFollows(q)' /\ PlanFollows(q)' /\ ReadyFollows(q)' /\ StreamsFollow(q)'
        /\ Good(q)' /\ ~aborted'[q]
    BY <1>2, <1>3, <1>5, <2>1
       DEF Lives, HostFollows, PlanFollows, ReadyFollows, Complete, StreamsFollow, Good
  <2>7. NoneLost(q)' /\ EventsFollow(q)'
    <3>1. \A p : Adds(work[q], p)' = Adds(work[q], p)
      BY <1>3 DEF Adds, Adding
    <3>2. NoneLost(q)'
      BY <1>3, <2>1, <3>1 DEF Lives, NoneLost
    <3>3. EventsFollow(q)'
      BY <1>3, <2>1 DEF Lives, EventsFollow, Complete, Adds
    <3> QED BY <3>2, <3>3
  <2>8. Lives(q)'
    BY <2>5, <2>6, <2>7 DEF Lives
  <2>9. ASSUME NEW d \in 0 .. Len(Ranges), Collectives(q, d) PROVE Collectives(q, d)'
    <3>1. /\ d + 1 \in 1 .. Len(Ranges) /\ c = Order(q, d + 1) /\ step[q] >= 1
      BY <1>2, <1>5, <2>2, <2>9, HeadIsNext, Constants
    <3>2. \A k \in 1 .. d : Order(q, k) # c
      <4>1. Len(Ranges) \in Nat
        BY Constants
      <4> QED BY <3>1, <4>1 DEF Order
    <3>3. \A k \in 1 .. d : \A b \in Buckets : b = Order(q, k) =>
            contents'[q][b] = Ranks \X {step[q]} \X {b}
      BY <2>3, <2>4, <2>9, <3>1, <3>2 DEF Collectives
    <3>4. Issued(q)' = Issued(q)
      BY <1>3 DEF Issued
    <3>5. \A k : Order(q, k)' = Order(q, k)
      BY <1>3 DEF Order
    <3> QED BY <1>3, <2>9, <3>3, <3>4, <3>5 DEF Collectives, Order
  <2> QED BY <1>3, <1>5, <2>6, <2>8, <2>9 DEF Moves, RankFollows
<1> QED BY <1>4, <1>5

LEMMA AbortedReduceMoves ==
  ASSUME Inv, NEW q \in Ranks, AbortedReduce(q) PROVE Moves(q)
<1>1. TypeOK /\ RankFollows(q) /\ comm[q] # <<>> /\ aborted[q]
  BY DEF Inv, AbortedReduce
<1>2. ~Good(q)
  BY <1>1 DEF RankFollows, Lives
<1>3. /\ step'[q] = step[q] /\ pc'[q] = pc[q] /\ aborted'[q] = aborted[q]
      /\ raised'[q] = raised[q] /\ next'[q] = next[q]
  BY <1>1 DEF AbortedReduce, TypeOK, hostVars
<1> QED BY <1>1, <1>2, <1>3 DEF Moves, RankFollows, Ended, Good

-----------------------------------------------------------------------------
(* Failures: a rank whose communicator is aborted, or that ends, leaves the   *)
(* order of collectives; one that unwinds stays in it until its device is idle. *)

LEMMA FailureMoves ==
  ASSUME Inv, NEW q \in Ranks, Throw(q) \/ Clear(q) \/ Crash(q) \/ Terminate(q)
  PROVE  Moves(q)
<1>1. TypeOK /\ RankFollows(q)
  BY DEF Inv
<1>2. CASE Throw(q)
  <2>1. ~raised[q] /\ raised'[q] = TRUE /\ UNCHANGED <<hostVars, deviceVars>>
    BY <1>1, <1>2 DEF Throw, TypeOK
  <2>2. Good(q) /\ Lives(q)
    BY <1>1, <1>2, <2>1, GoesOn DEF Throw, Stopped, RankFollows
  <2>3. CASE UNCHANGED aborted
    <3>1. Same(q)
      BY <2>1, <2>3 DEF Same, hostVars, deviceVars
    <3>2. RankFollows(q)' /\ \A d : Collectives(q, d) => Collectives(q, d)'
      <4>1. Issued(q)' = Issued(q) /\ \A k : Order(q, k)' = Order(q, k)
        BY <3>1 DEF Same, Issued, Order
      <4> QED BY <1>1, <2>1, <3>1, <4>1, RankKept DEF Same, Collectives
    <3> QED BY <2>2, <3>1, <3>2 DEF Moves, Same
  <2>4. CASE pc[q] \in {"finish", "await"} /\ aborted' = [aborted EXCEPT ![q] = TRUE]
    <3>1. aborted'[q] = TRUE
      BY <1>1, <2>4 DEF TypeOK
    <3>2. step[q] >= 1 /\ (pc[q] = "finish" => next[q] = 0)
      BY <2>2, <2>4 DEF Lives, HostFollows
    <3> QED BY <2>1, <2>4, <3>1, <3>2 DEF Moves, RankFollows, Ended, Good, hostVars, deviceVars
  <2> QED BY <1>2, <2>3, <2>4 DEF Throw
<1>3. CASE Clear(q)
  BY <1>1, <1>3 DEF Clear, DeviceIdle, Goto, TypeOK, deviceVars, Moves, RankFollows, Ended, Good
<1>4. CASE Crash(q) \/ Terminate(q)
  <2>1. PICK how \in {"failed", "killed"} : Dies(q, how)
    BY <1>4 DEF Crash, Terminate
  <2>2. pc'[q] = how /\ comm'[q] = <<>> /\ step'[q] = step[q]
    BY <1>1, <2>1 DEF Dies, Goto, TypeOK
  <2> QED BY <2>2 DEF Moves, RankFollows, Ended, Good
<1> QED BY <1>2, <1>3, <1>4

-----------------------------------------------------------------------------
(* The two steps that change where a rank is in the order of collectives.     *)

\* A rank begins a step when it has every collective of the one before behind it.
LEMMA BeginStepKeeps ==
  ASSUME Inv, NEW q \in Ranks, BeginStep(q), ~raised[q]
  PROVE  (\A r \in Ranks : RankFollows(r)') /\ InLockstep'
<1>1. pc[q] = "begin" /\ Good(q)
  BY GoesOn DEF Inv, BeginStep
<1>2. TypeOK /\ Typed(q) /\ Lives(q)
  BY <1>1, RankOf
<1>3. /\ pc'[q] = "backward" /\ step'[q] = step[q] + 1 /\ left'[q] = Uses
      /\ sum'[q] = NoContribution /\ active'[q] = planned[q] /\ ready'[q] = {}
      /\ next'[q] = IF planned[q] THEN Len(Ranges) ELSE 0
      /\ planned'[q] = planned[q] /\ work'[q] = work[q] /\ comm'[q] = comm[q]
      /\ packed'[q] = packed[q] /\ contents'[q] = contents[q] /\ aborted'[q] = aborted[q]
  BY <1>2 DEF BeginStep, Goto, TypeOK
<1>4. step[q] \in Nat /\ (planned[q] <=> step[q] >= 1) /\ ~active[q]
  BY <1>1, <1>2, Constants DEF Lives, PlanFollows, HostFollows, Typed
<1>5. work[q] = <<>> /\ comm[q] = <<>> /\ ~packed[q]
  BY <1>1, <1>2, <1>4 DEF Lives, StreamsFollow
<1>6. \A b \in Buckets : ~Complete(b, {})
  BY Constants DEF Complete
<1>7. Lives(q)'
  <2>1. HostFollows(q)'
    BY <1>3, <1>4 DEF HostFollows
  <2>2. PlanFollows(q)'
    BY <1>3 DEF PlanFollows
  <2>3. ReadyFollows(q)'
    <3> SUFFICES ASSUME planned[q]
                 PROVE  /\ {} = {p \in Parameters : Uses[p] = 0}
                        /\ Len(Ranges) > 0 => ~Complete(Len(Ranges), {})
                        /\ \A b \in Buckets : b > Len(Ranges) => Complete(b, {})
      BY <1>3 DEF ReadyFollows, Complete
    <3>1. \A p \in Parameters : Uses[p] # 0
      BY Constants
    <3>2. Len(Ranges) \in Buckets /\ \A b \in Buckets : ~(b > Len(Ranges))
      BY Constants
    <3> QED BY <1>6, <3>1, <3>2
  <2>4. StreamsFollow(q)'
    BY <1>3, <1>5 DEF StreamsFollow
  <2>5. NoneLost(q)'
    <3>1. \A p \in Parameters : Adds(work[q], p)' = {}
      BY <1>3, <1>5 DEF Adds
    <3>2. \A p \in Parameters : Cardinality(Adds(work[q], p))' = 0
      BY <3>1, FS_EmptySet
    <3>3. \A p \in Parameters : NoContribution[p] + 0 + Uses[p] = Uses[p]
      BY Constants DEF NoContribution
    <3> QED BY <1>3, <3>2, <3>3 DEF NoneLost
  <2>6. EventsFollow(q)'
    BY <1>3, <1>6 DEF EventsFollow, Complete
  <2>7. HeadPacked(q)'
    BY <1>3, <1>5 DEF HeadPacked
  <2>8. ~aborted'[q]
    BY <1>2, <1>3 DEF Lives
  <2> QED BY <2>1, <2>2, <2>3, <2>4, <2>5, <2>6, <2>7, <2>8 DEF Lives
<1>8. Good(q)'
  BY <1>2, <1>3 DEF Good, Lives
<1>9. \A r \in Ranks : r # q => Same(r) /\ raised'[r] = raised[r]
  <2>1. StepOf(q)
    BY DEF StepOf, Host, Loop
  <2> QED BY <1>2, <2>1, OthersKeep
<1>10. \A r \in Ranks : RankFollows(r)'
  BY <1>7, <1>8, <1>9, RankKept DEF Inv, RankFollows
<1>11. InLockstep'
  <2>1. PICK S \in 1 .. MaxSteps + 1, K \in 0 .. Len(Ranges) - 1 : At(S, K)
    BY DEF Inv, InLockstep
  <2>2. K \in Nat /\ K < Len(Ranges) /\ S \in Nat /\ Len(Ranges) \in Nat
    BY Constants
  <2>3. Issued(q) = Len(Ranges) /\ Len(comm[q]) = 0
    BY <1>1, <1>5 DEF Issued
  <2>4. ~Collectives(q, K)
    BY <2>2, <2>3 DEF Collectives
  <2>5. K = 0 /\ step[q] = S - 1
    BY <1>1, <2>1, <2>4 DEF At, Stands
  <2>6. Collectives(q, 0)'
    <3>1. Issued(q)' = 0
      BY <1>3, <2>2 DEF Issued
    <3>2. DOMAIN comm'[q] = {} /\ Len(comm'[q]) = 0
      BY <1>3, <1>5
    <3> QED BY <3>1, <3>2 DEF Collectives
  <2>7. step'[q] = S
    BY <1>3, <2>2, <2>5
  <2>8. Stands(q, S, K)'
    BY <1>8, <2>5, <2>6, <2>7 DEF Stands
  <2>9. \A r \in Ranks : Stands(r, S, K)'
    BY <1>9, <2>1, <2>8, RankKept DEF At
  <2>10. At(S, K)'
    BY <2>9 DEF At
  <2> QED BY <2>10 DEF InLockstep
<1> QED BY <1>10, <1>11

\* A rank with work in its communication stream is at the front.
LEMMA WaitingIsInFront ==
  ASSUME Inv, NEW S \in 1 .. MaxSteps + 1, NEW K \in 0 .. Len(Ranges) - 1, At(S, K),
         NEW r \in Ranks, Good(r), comm[r] # <<>>
  PROVE  step[r] = S /\ Collectives(r, K)
<1>1. Len(Ranges) \in Nat /\ Len(Ranges) \in 0 .. Len(Ranges)
  BY Constants
<1>2. ~Collectives(r, Len(Ranges))
  <2> SUFFICES ASSUME Collectives(r, Len(Ranges)) PROVE FALSE
    OBVIOUS
  <2>1. Len(Ranges) + 1 \in 1 .. Len(Ranges)
    BY <1>1, HeadIsNext
  <2> QED BY <1>1, <2>1
<1> QED BY <1>2 DEF At, Stands

\* Only living ranks meet in a collective, all of them at the front with the same
\* bucket, which then holds the gradients of all.
LEMMA AllReduceKeeps ==
  ASSUME Inv, AllReduce
  PROVE  (\A r \in Ranks : RankFollows(r)') /\ InLockstep'
<1>1. TypeOK /\ \A r \in Ranks : RankFollows(r)
  BY DEF Inv
<1>2. \A r \in Ranks : comm[r] # <<>> /\ packed[r] /\ ~aborted[r]
  BY DEF AllReduce
<1>3. \A r \in Ranks : Good(r) /\ Lives(r) /\ Typed(r)
  BY <1>1, <1>2, TypesOfRank DEF RankFollows, Ended
<1>4. PICK S \in 1 .. MaxSteps + 1, K \in 0 .. Len(Ranges) - 1 : At(S, K)
  BY DEF Inv, InLockstep
<1>5. \A r \in Ranks : step[r] = S /\ Collectives(r, K)
  BY <1>2, <1>3, <1>4, WaitingIsInFront
<1>6. K \in 0 .. Len(Ranges) /\ K \in Nat /\ Len(Ranges) \in Nat /\ K + 1 \in 1 .. Len(Ranges)
  BY Constants
<1> DEFINE b == IF S = 1 THEN K + 1 ELSE Len(Ranges) + 1 - (K + 1)
<1>7. \A r \in Ranks : Order(r, K + 1) = b
  BY <1>5 DEF Order
<1>8. b \in Buckets /\ S \in 1 .. MaxSteps
  <2>1. PICK r \in Ranks : TRUE
    BY Constants
  <2>2. Order(r, K + 1) \in Buckets /\ step[r] \in 1 .. MaxSteps
    BY <1>2, <1>3, <1>5, <1>6, HeadIsNext
  <2> QED BY <1>5, <1>7, <2>2
<1>9. \A r \in Ranks : Head(comm[r]).bucket = b
  BY <1>2, <1>3, <1>5, <1>6, <1>7, HeadIsNext
<1>10. \A k \in 1 .. K : \A r \in Ranks : Order(r, k) # b
  BY <1>5, <1>6 DEF Order
<1> HIDE DEF b
<1>11. \A r \in Ranks : contents[r][b] = {<<r, S, b>>}
  BY <1>2, <1>3, <1>5, <1>8, <1>9 DEF Lives, HeadPacked
<1> DEFINE average == Ranks \X {S} \X {b}
<1>12. contents' = [r \in Ranks |-> [contents[r] EXCEPT ![b] = average]]
  <2>1. UNION {contents[r][Head(comm[r]).bucket] : r \in Ranks} = average
    <3>1. \A r \in Ranks : contents[r][Head(comm[r]).bucket] = {<<r, S, b>>}
      BY <1>9, <1>11
    <3>2. \A x : x \in UNION {contents[r][Head(comm[r]).bucket] : r \in Ranks}
                 <=> \E r \in Ranks : x = <<r, S, b>>
      BY <3>1
    <3>3. \A x : x \in average <=> \E r \in Ranks : x = <<r, S, b>>
      OBVIOUS
    <3> QED BY <3>2, <3>3
  <2>2. contents' = [r \in Ranks |-> [contents[r] EXCEPT ![Head(comm[r]).bucket] =
                       UNION {contents[u][Head(comm[u]).bucket] : u \in Ranks}]]
    BY DEF AllReduce
  <2> HIDE DEF average
  <2> QED BY <1>9, <2>1, <2>2
<1> HIDE DEF average
<1>13. ASSUME NEW r \in Ranks
       PROVE  /\ pc'[r] = pc[r] /\ step'[r] = step[r] /\ planned'[r] = planned[r]
              /\ active'[r] = active[r] /\ left'[r] = left[r] /\ ready'[r] = ready[r]
              /\ next'[r] = next[r] /\ work'[r] = work[r] /\ sum'[r] = sum[r]
              /\ aborted'[r] = aborted[r] /\ packed'[r] = FALSE /\ comm'[r] = Tail(comm[r])
              /\ contents'[r] = [contents[r] EXCEPT ![b] = average]
  BY <1>12 DEF AllReduce, hostVars
<1>14. ASSUME NEW r \in Ranks
       PROVE  /\ Len(comm[r]) \in Nat \ {0} /\ Len(Tail(comm[r])) = Len(comm[r]) - 1
              /\ DOMAIN comm[r] = 1 .. Len(comm[r])
              /\ DOMAIN Tail(comm[r]) = 1 .. Len(comm[r]) - 1
              /\ \A k \in 1 .. Len(comm[r]) - 1 : Tail(comm[r])[k] = comm[r][k + 1]
  <2>1. comm[r] \in Seq(Jobs) /\ comm[r] # <<>>
    BY <1>2, <1>3 DEF Typed
  <2> QED BY <2>1
<1>15. ASSUME NEW r \in Ranks PROVE Lives(r)' /\ Good(r)'
  <2>1. Lives(r)
    BY <1>3
  <2>0. /\ pc'[r] = pc[r] /\ step'[r] = step[r] /\ planned'[r] = planned[r]
        /\ active'[r] = active[r] /\ left'[r] = left[r] /\ ready'[r] = ready[r]
        /\ next'[r] = next[r] /\ work'[r] = work[r] /\ sum'[r] = sum[r]
        /\ aborted'[r] = aborted[r]
    BY <1>13
  <2>2. Good(r)' /\ HostFollows(r)' /\ PlanFollows(r)' /\ ReadyFollows(r)' /\ ~aborted'[r]
    <3>1. Good(r)' /\ ~aborted'[r]
      BY <1>3, <2>0, <2>1 DEF Good, Lives
    <3>2. HostFollows(r)'
      BY <2>0, <2>1 DEF Lives, HostFollows
    <3>3. PlanFollows(r)'
      BY <2>0, <2>1 DEF Lives, PlanFollows
    <3>4. ReadyFollows(r)'
      BY <2>0, <2>1 DEF Lives, ReadyFollows, Complete
    <3> QED BY <3>1, <3>2, <3>3, <3>4
  <2>3. StreamsFollow(r)'
    <3>1. pc[r] = "await" => Len(Tail(comm[r])) <= 1
      BY <1>14, <2>1 DEF Lives, StreamsFollow
    <3>2. active[r] \/ pc[r] = "await"
      BY <1>2, <2>1 DEF Lives, StreamsFollow
    <3> QED BY <1>13, <2>1, <3>1, <3>2 DEF Lives, StreamsFollow
  <2>4. NoneLost(r)' /\ EventsFollow(r)'
    <3>1. NoneLost(r)'
      BY <2>0, <2>1 DEF Lives, NoneLost, Adds
    <3>2. EventsFollow(r)'
      BY <2>0, <2>1 DEF Lives, EventsFollow, Complete, Adds
    <3> QED BY <3>1, <3>2
  <2>5. HeadPacked(r)'
    BY <1>13 DEF HeadPacked
  <2> QED BY <2>2, <2>3, <2>4, <2>5 DEF Lives
<1>16. ASSUME NEW r \in Ranks PROVE Collectives(r, K + 1)'
  <2>0. step'[r] = step[r]
    BY <1>13
  <2>1. Collectives(r, K) /\ step[r] = S /\ S >= 1
    BY <1>5, <1>8
  <2>2. Issued(r)' = (K + 1) + Len(comm'[r])
    <3>1. Issued(r)' = Issued(r)
      BY <1>13 DEF Issued
    <3>2. Issued(r) = K + Len(comm[r])
      BY <2>1 DEF Collectives
    <3>3. K + Len(comm[r]) = (K + 1) + (Len(comm[r]) - 1)
      BY <1>6, <1>14
    <3> QED BY <1>13, <1>14, <3>1, <3>2, <3>3
  <2>3. \A k : Order(r, k)' = Order(r, k)
    BY <1>13 DEF Order
  <2>4. ASSUME NEW k \in 1 .. Len(comm[r]) - 1
        PROVE  Tail(comm[r])[k] = [bucket |-> Order(r, (K + 1) + k), step |-> step[r]]
    <3>1. k + 1 \in DOMAIN comm[r] /\ Tail(comm[r])[k] = comm[r][k + 1]
      BY <1>14
    <3>2. comm[r][k + 1] = [bucket |-> Order(r, K + (k + 1)), step |-> step[r]]
      BY <2>1, <3>1 DEF Collectives
    <3>3. K + (k + 1) = (K + 1) + k
      BY <1>6
    <3> QED BY <3>1, <3>2, <3>3
  <2>5. ASSUME NEW k \in 1 .. K + 1, NEW c \in Buckets, c = Order(r, k)
        PROVE  contents'[r][c] = Ranks \X {S} \X {c}
    <3>1. contents[r] \in [Buckets -> SUBSET Gradients]
      BY <1>3 DEF Typed
    <3>2. CASE k = K + 1
      <4>1. c = b
        BY <1>7, <2>5, <3>2
      <4>2. contents'[r] = [contents[r] EXCEPT ![b] = average]
        BY <1>13
      <4>3. contents'[r][b] = average
        BY <1>8, <3>1, <4>2
      <4> QED BY <4>1, <4>3 DEF average
    <3>3. CASE k # K + 1
      <4>1. k \in 1 .. K
        BY <1>6, <3>3
      <4>2. c # b /\ contents[r][c] = Ranks \X {S} \X {c}
        BY <1>10, <2>1, <2>5, <4>1 DEF Collectives
      <4> QED BY <1>13, <3>1, <4>2
    <3> QED BY <3>2, <3>3
  <2>6. \A k \in DOMAIN comm'[r] :
          comm'[r][k] = [bucket |-> Order(r, (K + 1) + k), step |-> step[r]]
    BY <1>13, <1>14, <2>4
  <2>7. \A k \in DOMAIN comm'[r] :
          comm'[r][k] = [bucket |-> IF step'[r] = 1 THEN (K + 1) + k
                                    ELSE Len(Ranges) + 1 - ((K + 1) + k), step |-> step'[r]]
    BY <2>0, <2>6 DEF Order
  <2>8. \A k \in 1 .. K + 1 : \A c \in Buckets :
          c = (IF step'[r] = 1 THEN k ELSE Len(Ranges) + 1 - k) =>
            contents'[r][c] = Ranks \X {step'[r]} \X {c}
    BY <2>0, <2>1, <2>5 DEF Order
  <2> QED BY <2>2, <2>7, <2>8 DEF Collectives, Order
<1>17. \A r \in Ranks : RankFollows(r)'
  BY <1>15 DEF RankFollows
<1>18. InLockstep'
  <2>1. \A r \in Ranks : step'[r] = S
    BY <1>5, <1>13
  <2>2. CASE K + 1 < Len(Ranges)
    <3>1. At(S, K + 1)'
      BY <1>15, <1>16, <2>1 DEF At, Stands
    <3>2. K + 1 \in 0 .. Len(Ranges) - 1
      BY <1>6, <2>2
    <3> QED BY <3>1, <3>2 DEF InLockstep
  <2>3. CASE ~(K + 1 < Len(Ranges))
    <3>1. K + 1 = Len(Ranges)
      BY <1>6, <2>3
    <3>2. \A r \in Ranks : Good(r)' /\ step'[r] = (S + 1) - 1 /\ Collectives(r, Len(Ranges))'
      BY <1>8, <1>15, <1>16, <2>1, <3>1
    <3>3. At(S + 1, 0)'
      BY <3>2 DEF At, Stands
    <3>4. S + 1 \in 1 .. MaxSteps + 1 /\ 0 \in 0 .. Len(Ranges) - 1
      BY <1>6, <1>8, Constants
    <3> QED BY <3>3, <3>4 DEF InLockstep
  <2> QED BY <2>2, <2>3
<1> QED BY <1>17, <1>18

-----------------------------------------------------------------------------
(* The theorems.                                                           *)

LEMMA InitInv == ASSUME Init PROVE Inv
<1>1. TypeOK
  <2>1. 0 \in 0 .. MaxSteps /\ 0 \in 0 .. Len(Ranges) /\ 0 \in 0 .. MaxFailures
    BY Constants
  <2>2. NoContribution \in [Parameters -> Nat]
    BY DEF NoContribution
  <2>3. <<>> \in Seq(Tasks) /\ <<>> \in Seq(Jobs)
    OBVIOUS
  <2>4. [b \in Buckets |-> {}] \in [Buckets -> SUBSET Gradients]
    OBVIOUS
  <2> QED BY <2>1, <2>2, <2>3, <2>4 DEF Init, TypeOK
<1>2. ASSUME NEW r \in Ranks PROVE RankFollows(r)
  <2>1. Good(r)
    BY DEF Init, Good
  <2>2. HostFollows(r) /\ PlanFollows(r) /\ ReadyFollows(r) /\ StreamsFollow(r)
    BY DEF Init, HostFollows, PlanFollows, ReadyFollows, StreamsFollow
  <2>3. NoneLost(r) /\ EventsFollow(r) /\ HeadPacked(r) /\ ~aborted[r]
    BY DEF Init, NoneLost, EventsFollow, HeadPacked
  <2> QED BY <2>1, <2>2, <2>3 DEF RankFollows, Lives
<1>3. InLockstep
  <2>1. Len(Ranges) \in Nat \ {0} /\ MaxSteps \in Nat
    BY Constants
  <2>2. ASSUME NEW r \in Ranks PROVE Stands(r, 1, 0)
    <3>1. Good(r) /\ step[r] = 1 - 1
      BY DEF Init, Good
    <3>2. Issued(r) = Len(Ranges) /\ comm[r] = <<>>
      BY DEF Init, Issued
    <3>3. Issued(r) = Len(Ranges) + Len(comm[r]) /\ DOMAIN comm[r] = {}
      BY <2>1, <3>2
    <3>4. Collectives(r, Len(Ranges))
      BY <3>1, <3>3 DEF Collectives
    <3> QED BY <3>1, <3>4 DEF Stands
  <2>3. At(1, 0)
    BY <2>2 DEF At
  <2>4. 1 \in 1 .. MaxSteps + 1 /\ 0 \in 0 .. Len(Ranges) - 1
    BY <2>1
  <2> QED BY <2>3, <2>4 DEF InLockstep
<1> QED BY <1>1, <1>2, <1>3 DEF Inv

LEMMA NextInv == ASSUME Inv, [Next]_vars PROVE Inv'
<1> DEFINE Rest == (\A r \in Ranks : RankFollows(r)') /\ InLockstep'
<1>1. TypeOK'
  BY TypesKept
<1>2. ASSUME NEW q \in Ranks, BeginStep(q), ~raised[q] PROVE Rest
  BY <1>2, BeginStepKeeps
<1>3. ASSUME NEW q \in Ranks, StepOf(q), ~(BeginStep(q) /\ ~raised[q]) PROVE Rest
  <2>1. Moves(q)
    <3>1. CASE ~raised[q] /\ Loop(q)
      <4>1. CASE Finished(q)
        BY <4>1, FinishedMoves
      <4>2. CASE Freed(q)
        BY <4>2, FreedMoves
      <4>3. CASE EndBackward(q)
        BY <4>3, EndBackwardMoves
      <4>4. CASE FinishOverlap(q)
        BY <3>1, <4>4, FinishOverlapMoves
      <4>5. ASSUME NEW p \in Parameters, Accumulate(q, p) PROVE Moves(q)
        BY <4>5, AccumulateMoves
      <4>6. ASSUME NEW p \in Parameters, LastContribution(q, p) PROVE Moves(q)
        BY <4>6, LastContributionMoves
      <4>7. CASE Settle(q)
        BY <4>7, SettleMoves
      <4>8. CASE Reduce(q)
        BY <4>8, ReduceMoves
      <4>9. CASE Await(q)
        BY <3>1, <4>9, AwaitMoves
      <4>10. CASE Optimize(q)
        BY <4>10, OptimizeMoves
      <4> QED
        BY <1>3, <3>1, <4>1, <4>2, <4>3, <4>4, <4>5, <4>6, <4>7, <4>8, <4>9, <4>10 DEF Loop
    <3>2. CASE Device(q)
      BY <3>2, ExecuteMoves, PackMoves, AbortedReduceMoves DEF Device
    <3>3. CASE Clear(q) \/ Throw(q) \/ Crash(q) \/ Terminate(q)
      BY <3>3, FailureMoves
    <3> QED BY <1>3, <3>1, <3>2, <3>3 DEF StepOf, Host
  <2> QED BY <1>3, <2>1, MovesSuffice
<1>4. ASSUME AllReduce PROVE Rest
  BY <1>4, AllReduceKeeps
<1>5. ASSUME UNCHANGED vars PROVE Rest
  <2>1. \A r \in Ranks : Same(r) /\ raised'[r] = raised[r]
    BY <1>5 DEF vars, hostVars, deviceVars, Same
  <2>2. \A r \in Ranks : RankFollows(r)'
    BY <2>1, RankKept DEF Inv
  <2>3. InLockstep'
    <3>1. PICK S \in 1 .. MaxSteps + 1, K \in 0 .. Len(Ranges) - 1 : At(S, K)
      BY DEF Inv, InLockstep
    <3>2. \A r \in Ranks : Stands(r, S, K)'
      BY <2>1, <3>1, RankKept DEF At
    <3>3. At(S, K)'
      BY <3>2 DEF At
    <3> QED BY <3>3 DEF InLockstep
  <2> QED BY <2>2, <2>3
<1> HIDE DEF Rest
<1>6. Next => Rest
  BY <1>2, <1>3, <1>4 DEF Next, Runs, StepOf
<1>7. Rest
  BY <1>5, <1>6
<1> QED BY <1>1, <1>7 DEF Inv, Rest

THEOREM Invariance == Spec => []Inv
<1>1. Init => Inv
  BY InitInv
<1>2. Inv /\ [Next]_vars => Inv'
  BY NextInv
<1> QED BY <1>1, <1>2, PTL DEF Spec

\* Every variable of the ranks and their devices keeps its type.
THEOREM TypeCorrect == Spec => []TypeOK
<1>1. Inv => TypeOK
  BY DEF Inv
<1> QED BY <1>1, Invariance, PTL

\* All ranks enter the same collectives in the same order, in whatever order their
\* gradients become ready.
THEOREM SameOrder == Spec => []CollectivesAgree
<1>1. Inv => CollectivesAgree
  <2> SUFFICES ASSUME Inv, NEW q \in Ranks, ~aborted[q], NEW r \in Ranks, ~aborted[r],
                      NEW k \in DOMAIN comm[q] \cap DOMAIN comm[r]
               PROVE  comm[q][k] = comm[r][k]
    BY DEF CollectivesAgree
  <2>1. comm[q] # <<>> /\ comm[r] # <<>>
    OBVIOUS
  <2>2. Good(q) /\ Good(r)
    BY <2>1 DEF Inv, RankFollows, Ended
  <2>3. PICK S \in 1 .. MaxSteps + 1, K \in 0 .. Len(Ranges) - 1 : At(S, K)
    BY DEF Inv, InLockstep
  <2>4. step[q] = S /\ Collectives(q, K) /\ step[r] = S /\ Collectives(r, K)
    BY <2>1, <2>2, <2>3, WaitingIsInFront
  <2>5. Order(q, K + k) = Order(r, K + k)
    BY <2>4 DEF Order
  <2> QED BY <2>4, <2>5 DEF Collectives
<1> QED BY <1>1, Invariance, PTL

\* No rank is ever two steps ahead of another.
THEOREM Lockstep == Spec => []RanksInLockstep
<1>1. Inv => RanksInLockstep
  <2> SUFFICES ASSUME Inv, NEW q \in Ranks, NEW r \in Ranks PROVE step[q] <= step[r] + 1
    BY DEF RanksInLockstep
  <2>1. PICK S \in 1 .. MaxSteps + 1, K \in 0 .. Len(Ranges) - 1 : At(S, K)
    BY DEF Inv, InLockstep
  <2>2. step[q] \in {S - 1, S} /\ step[r] \in {S - 1, S}
    BY <2>1 DEF At, Stands
  <2>3. S \in Nat
    BY Constants
  <2> QED BY <2>2, <2>3
<1> QED BY <1>1, Invariance, PTL

\* finish_overlap_step finds every bucket enqueued.
THEOREM EveryBucketEnqueued == Spec => []AllBucketsEnqueued
<1>1. Inv => AllBucketsEnqueued
  BY DEF Inv, AllBucketsEnqueued, RankFollows, Good, Lives, HostFollows, Ended
<1> QED BY <1>1, Invariance, PTL

\* The optimizer of a rank reads the complete gradients of all ranks, of its own step.
THEOREM OptimizerReadsAverages == Spec => []GradientsAreGlobal
<1>1. Inv => GradientsAreGlobal
  <2> SUFFICES ASSUME Inv, NEW r \in Ranks, pc[r] = "optimizer", NEW b \in Buckets
               PROVE  contents[r][b] = Ranks \X {step[r]} \X {b}
    BY DEF GradientsAreGlobal
  <2>1. Good(r)
    BY GoesOn DEF Inv
  <2>2. Lives(r)
    BY <2>1, RankOf
  <2>3. comm[r] = <<>> /\ step[r] >= 1
    BY <2>2 DEF Lives, StreamsFollow, HostFollows
  <2>4. PICK d \in 0 .. Len(Ranges) : Collectives(r, d)
    BY <2>1, SomeCollective
  <2>5. d = Len(Ranges)
    <3>1. Issued(r) = Len(Ranges) /\ Len(comm[r]) = 0
      BY <2>3 DEF Issued
    <3>2. Len(Ranges) = d + 0
      BY <2>4, <3>1 DEF Collectives
    <3> QED BY <3>2
  <2> DEFINE k == IF step[r] = 1 THEN b ELSE Len(Ranges) + 1 - b
  <2>6. k \in 1 .. d /\ b = Order(r, k)
    <3>1. b \in 1 .. Len(Ranges) /\ Len(Ranges) \in Nat
      BY Constants
    <3> QED BY <2>5, <3>1 DEF Order
  <2> HIDE DEF k
  <2> QED BY <2>3, <2>4, <2>6 DEF Collectives
<1> QED BY <1>1, Invariance, PTL

-----------------------------------------------------------------------------
(* Nobody waits forever.  That the group ends (GroupEnds, UnwindingEnds) is  *)
(* a matter of fairness and stays with TLC; these are the two facts the     *)
(* argument rests on: there is always somebody whose next step has nothing  *)
(* to wait for, and every step brings its rank closer to its end.           *)

\* When the guards of a rank's loop and of its unwinding, of its streams and of an
\* all-reduce hold.
CanGoOn(r) ==
  \/ raised[r] /\ pc[r] \notin Stopped /\ DeviceIdle(r)
  \/ /\ ~raised[r]
     /\ \/ pc[r] \in {"begin", "reduce"}
        \/ pc[r] = "backward"
             /\ ((\E p \in Parameters : left[r][p] > 0) \/ left[r] = NoContribution)
        \/ pc[r] \in {"freeing", "settle"} /\ DeviceIdle(r)
        \/ pc[r] = "finish" /\ next[r] = 0 /\ CommDrained(r)
        \/ pc[r] = "await" /\ comm[r] = <<>>
        \/ pc[r] = "optimizer" /\ work[r] = <<>>
CanExecute(r) == work[r] # <<>>
CanPack(r) == comm[r] # <<>> /\ ~packed[r] /\ EventPassed(r, Head(comm[r]).bucket)
CanEndAborted(r) == comm[r] # <<>> /\ packed[r] /\ aborted[r]
CanMove(r) == CanGoOn(r) \/ CanExecute(r) \/ CanPack(r) \/ CanEndAborted(r)
CanAllReduce == \A r \in Ranks : comm[r] # <<>> /\ packed[r] /\ ~aborted[r]

\* As long as no process has ended with a failure, and even while exceptions unwind
\* some of them, some rank or all of them together can go on, unless all have ended.
GroupMoves ==
  \/ \A r \in Ranks : pc[r] \in Stopped
  \/ GroupFailed
  \/ CanAllReduce \/ \E r \in Ranks : CanMove(r)

\* The collective that keeps an unwinding rank r is ahead of every other rank that lives
\* and has not aborted: it has not ended, nor has it gone past that step, and if it waits
\* too it is for the same bucket.
Ahead(r, q) ==
  /\ pc[q] # "done" /\ step[q] <= step[r]
  /\ comm[q] # <<>> => Head(comm[q]) = Head(comm[r])
UnwindingWaits ==
  \A r \in Ranks : raised[r] /\ pc[r] \notin Stopped /\ ~CanMove(r) =>
    /\ comm[r] # <<>> /\ packed[r] /\ ~aborted[r]
    /\ \A q \in Ranks : pc[q] \notin {"failed", "killed"} /\ ~aborted[q] => Ahead(r, q)

\* The loop ends after the last step; the launcher kills only after a failure.
EndsFollow ==
  /\ \A r \in Ranks : pc[r] = "done" => step[r] = MaxSteps
  /\ (\E r \in Ranks : pc[r] = "killed") => GroupFailed

\* A stream that has nothing to wait for goes on.
LEMMA StreamsMove ==
  ASSUME NEW r \in Ranks, ~CanMove(r)
  PROVE  work[r] = <<>> /\ (comm[r] # <<>> => packed[r] /\ ~aborted[r])
<1>1. work[r] = <<>>
  BY DEF CanMove, CanExecute
<1>2. \A b : EventPassed(r, b)
  BY <1>1 DEF EventPassed, ToSet
<1> QED BY <1>1, <1>2 DEF CanMove, CanPack, CanEndAborted

\* A rank with an aborted communicator waits for nobody.
LEMMA AbortedMoves ==
  ASSUME Inv, NEW r \in Ranks, ~Good(r), pc[r] \notin {"failed", "killed"}
  PROVE  CanMove(r)
<1> SUFFICES ASSUME ~CanMove(r) PROVE FALSE
  OBVIOUS
<1>1. work[r] = <<>> /\ (comm[r] # <<>> => packed[r] /\ ~aborted[r])
  BY StreamsMove
<1>2. (comm[r] # <<>> => aborted[r]) /\ raised[r] /\ pc[r] \in {"finish", "await"}
  BY DEF Inv, RankFollows, Ended
<1> QED BY <1>1, <1>2 DEF CanMove, CanGoOn, DeviceIdle, Stopped

\* A live rank that cannot move is done, or waits with a packed bucket.
LEMMA WaitsForOthers ==
  ASSUME Inv, NEW r \in Ranks, Good(r), ~CanMove(r)
  PROVE  /\ pc[r] # "done" => comm[r] # <<>>
         /\ comm[r] # <<>> => packed[r] /\ ~aborted[r] /\ pc[r] # "done"
<1>1. work[r] = <<>> /\ (comm[r] # <<>> => packed[r] /\ ~aborted[r])
  BY StreamsMove
<1>2. TypeOK /\ Typed(r) /\ Lives(r)
  BY RankOf
<1>3. comm[r] # <<>> => active[r] \/ pc[r] = "await"
  BY <1>2 DEF Lives, StreamsFollow
<1>4. ~CanGoOn(r)
  BY DEF CanMove
<1>5. pc[r] \in {"begin", "backward", "freeing", "finish", "settle", "reduce", "await",
                 "optimizer", "done"}
  BY <1>2 DEF Typed, Good, Stopped
<1>6. ~raised[r] => pc[r] # "backward"
  <2>1. left[r] \in [Parameters -> Nat]
    BY <1>2 DEF Typed
  <2>2. left[r] = NoContribution \/ \E p \in Parameters : left[r][p] > 0
    <3>1. SUFFICES ASSUME \A p \in Parameters : ~(left[r][p] > 0) PROVE left[r] = NoContribution
      OBVIOUS
    <3>2. \A p \in Parameters : left[r][p] = 0
      BY <2>1, <3>1
    <3> QED BY <2>1, <3>2 DEF NoContribution
  <2> QED BY <1>4, <2>2 DEF CanGoOn
<1>7. pc[r] # "done" => comm[r] # <<>>
  <2>1. pc[r] = "finish" => next[r] = 0
    BY <1>2 DEF Lives, HostFollows
  <2>2. CASE raised[r]
    BY <1>1, <1>4, <1>5, <2>2 DEF CanGoOn, DeviceIdle, Stopped
  <2>3. CASE ~raised[r]
    BY <1>1, <1>4, <1>5, <1>6, <2>1, <2>3 DEF CanGoOn, DeviceIdle, CommDrained
  <2> QED BY <2>2, <2>3
<1>8. pc[r] = "done" => comm[r] = <<>>
  BY <1>2, <1>3 DEF Lives, HostFollows
<1> QED BY <1>1, <1>7, <1>8

\* No rank has the last step behind it while another waits for it in a collective.
LEMMA NobodyIsLeftBehind ==
  ASSUME Inv, EndsFollow, NEW q \in Ranks, pc[q] = "done", NEW r \in Ranks, Good(r)
  PROVE  comm[r] = <<>>
<1>1. PICK S \in 1 .. MaxSteps + 1, K \in 0 .. Len(Ranges) - 1 : At(S, K)
  BY DEF Inv, InLockstep
<1>2. Good(q) /\ step[q] = MaxSteps /\ MaxSteps \in Nat /\ Len(Ranges) \in Nat
  BY Constants, GoesOn DEF Inv, EndsFollow
<1>3. Lives(q) /\ Typed(q) /\ Typed(r) /\ Lives(r)
  BY <1>2, RankOf
<1>4. comm[q] = <<>>
  BY <1>2, <1>3 DEF Lives, StreamsFollow, HostFollows
<1>5. Issued(q) = Len(Ranges) /\ Len(comm[q]) = 0
  BY <1>4 DEF Issued
<1>6. ~Collectives(q, K)
  <2>1. K # Len(Ranges) /\ K + 0 = K
    BY <1>2
  <2> QED BY <1>5, <2>1 DEF Collectives
<1>7. S = MaxSteps + 1
  <2>1. step[q] = S - 1
    BY <1>1, <1>2, <1>6 DEF At, Stands
  <2> QED BY <1>2, <2>1
<1>8. step[r] # S
  BY <1>2, <1>3, <1>7 DEF Typed
<1>9. Collectives(r, Len(Ranges))
  BY <1>1, <1>8 DEF At, Stands
<1>10. Issued(r) = Len(Ranges) + Len(comm[r]) /\ Len(comm[r]) \in Nat
  BY <1>3, <1>9 DEF Collectives, Typed
<1>11. Issued(r) <= Len(Ranges)
  <2>1. next[r] \in 0 .. Len(Ranges)
    BY <1>3 DEF Typed
  <2> QED BY <1>2, <2>1 DEF Issued
<1>12. Len(comm[r]) = 0
  BY <1>2, <1>10, <1>11
<1> QED BY <1>3, <1>12 DEF Typed

LEMMA GroupGuards == ASSUME Inv, EndsFollow PROVE GroupMoves
<1> SUFFICES ASSUME NEW r \in Ranks, pc[r] \notin Stopped, ~GroupFailed,
                    \A q \in Ranks : ~CanMove(q)
             PROVE  CanAllReduce
  BY DEF GroupMoves
<1>1. \A q \in Ranks : Good(q)
  BY AbortedMoves DEF GroupFailed, EndsFollow
<1>2. comm[r] # <<>>
  BY <1>1, WaitsForOthers DEF Stopped
<1>3. \A q \in Ranks : pc[q] # "done"
  BY <1>1, <1>2, NobodyIsLeftBehind
<1>4. \A q \in Ranks : comm[q] # <<>> /\ packed[q] /\ ~aborted[q]
  BY <1>1, <1>3, WaitsForOthers
<1> QED BY <1>4 DEF CanAllReduce

LEMMA EndsKept == ASSUME Inv, EndsFollow, [Next]_vars PROVE EndsFollow'
<1>0. TypeOK
  BY DEF Inv
<1>1. ASSUME NEW q \in Ranks, StepOf(q)
      PROVE  /\ pc'[q] = "done" => (pc[q] = "done" /\ step'[q] = step[q]) \/ step'[q] = MaxSteps
             /\ pc'[q] = "killed" => pc[q] = "killed" \/ GroupFailed
             /\ pc[q] = "failed" => pc'[q] = "failed"
  <2>1. CASE BeginStep(q) \/ Finished(q) \/ Freed(q) \/ EndBackward(q) \/ FinishOverlap(q)
    BY <1>0, <2>1 DEF BeginStep, Finished, Freed, EndBackward, FinishOverlap, Goto, TypeOK
  <2>2. ASSUME NEW p \in Parameters, Accumulate(q, p) \/ LastContribution(q, p)
        PROVE  pc[q] = "backward" /\ pc'[q] \in {"backward", "freeing"}
    BY <1>0, <2>2 DEF Accumulate, LastContribution, FreesOrNot, Goto, TypeOK
  <2>3. CASE Settle(q) \/ Reduce(q) \/ Await(q) \/ Optimize(q) \/ Clear(q)
    BY <1>0, <2>3 DEF Settle, Reduce, Await, Optimize, Clear, Goto, TypeOK
  <2>4. CASE Device(q)
    BY <2>4 DEF Device, Execute, Pack, AbortedReduce, hostVars
  <2>5. CASE Throw(q) \/ Crash(q) \/ Terminate(q)
    BY <1>0, <2>5 DEF Throw, Crash, Terminate, Dies, Goto, TypeOK, Stopped, hostVars
  <2> QED BY <1>1, <2>1, <2>2, <2>3, <2>4, <2>5 DEF StepOf, Host, Loop
<1>2. CASE \E q \in Ranks : StepOf(q)
  <2>1. PICK q \in Ranks : StepOf(q)
    BY <1>2
  <2>2. \A r \in Ranks \ {q} : pc'[r] = pc[r] /\ step'[r] = step[r]
    BY <1>0, <2>1, OthersKeep DEF Same
  <2>3. GroupFailed => GroupFailed'
    BY <1>1, <2>1, <2>2 DEF GroupFailed
  <2>4. \A r \in Ranks : pc'[r] = "done" => step'[r] = MaxSteps
    BY <1>1, <2>1, <2>2 DEF EndsFollow
  <2>5. ASSUME NEW r \in Ranks, pc'[r] = "killed" PROVE GroupFailed
    BY <1>1, <2>1, <2>2, <2>5 DEF EndsFollow
  <2> QED BY <2>3, <2>4, <2>5 DEF EndsFollow
<1>3. CASE AllReduce
  BY <1>3 DEF AllReduce, hostVars, EndsFollow, GroupFailed
<1>4. CASE UNCHANGED vars
  BY <1>4 DEF vars, hostVars, EndsFollow, GroupFailed
<1> QED BY <1>2, <1>3, <1>4 DEF Next, Runs, StepOf

LEMMA EndsInvariance == Spec => []EndsFollow
<1>1. Init => EndsFollow
  BY DEF Init, EndsFollow
<1>2. Inv /\ EndsFollow /\ [Next]_vars => EndsFollow'
  BY EndsKept
<1> QED BY <1>1, <1>2, Invariance, PTL DEF Spec

\* An exception unwinds a rank without any other rank's help once its communicator is
\* aborted.  Before, its destructors wait at most for the all-reduce that every other
\* living rank has still before it: only one that has failed can keep it.
THEOREM UnwindingWaitsInOrder == Spec => []UnwindingWaits
<1>1. Inv /\ EndsFollow => UnwindingWaits
  <2> SUFFICES ASSUME Inv, EndsFollow, NEW r \in Ranks, raised[r], pc[r] \notin Stopped,
                      ~CanMove(r)
               PROVE  /\ comm[r] # <<>> /\ packed[r] /\ ~aborted[r]
                      /\ \A q \in Ranks : Good(q) => Ahead(r, q)
    BY DEF UnwindingWaits, Good
  <2>1. Good(r)
    BY AbortedMoves DEF Stopped
  <2>2. comm[r] # <<>> /\ packed[r] /\ ~aborted[r]
    BY <2>1, WaitsForOthers DEF Stopped
  <2>3. PICK S \in 1 .. MaxSteps + 1, K \in 0 .. Len(Ranges) - 1 : At(S, K)
    BY DEF Inv, InLockstep
  <2>4. step[r] = S /\ Collectives(r, K)
    BY <2>1, <2>2, <2>3, WaitingIsInFront
  <2>5. ASSUME NEW q \in Ranks, Good(q) PROVE Ahead(r, q)
    <3>1. pc[q] # "done"
      BY <2>1, <2>2, NobodyIsLeftBehind
    <3>2. step[q] <= step[r]
      <4>1. step[q] \in {S - 1, S} /\ S \in Nat
        BY <2>3, <2>5, Constants DEF At, Stands
      <4> QED BY <2>4, <4>1
    <3>3. ASSUME comm[q] # <<>> PROVE Head(comm[q]) = Head(comm[r])
      <4>1. step[q] = S /\ Collectives(q, K)
        BY <2>3, <2>5, <3>3, WaitingIsInFront
      <4>2. comm[q] \in Seq(Jobs) /\ comm[r] \in Seq(Jobs)
        BY TypesOfRank DEF Inv, Typed
      <4>3. /\ Head(comm[q]) = comm[q][1] /\ 1 \in DOMAIN comm[q]
            /\ Head(comm[r]) = comm[r][1] /\ 1 \in DOMAIN comm[r]
        BY <2>2, <3>3, <4>2, HeadIsJob
      <4>4. Order(q, K + 1) = Order(r, K + 1)
        BY <2>4, <4>1 DEF Order
      <4>5. comm[q][1] = [bucket |-> Order(q, K + 1), step |-> S]
        BY <4>1, <4>3 DEF Collectives
      <4>6. comm[r][1] = [bucket |-> Order(r, K + 1), step |-> S]
        BY <2>4, <4>3 DEF Collectives
      <4> QED BY <4>3, <4>4, <4>5, <4>6
    <3> QED BY <3>1, <3>2, <3>3 DEF Ahead
  <2> QED BY <2>2, <2>5
<1> QED BY <1>1, Invariance, EndsInvariance, PTL

\* The ranks never all wait for each other, those included that an exception unwinds and
\* whose destructors wait for the device: until a process has ended with a failure, the
\* next step of some rank or the next all-reduce has nothing to wait for.
THEOREM NoCollectiveDeadlock == Spec => []GroupMoves
<1>1. Inv /\ EndsFollow => GroupMoves
  BY GroupGuards
<1> QED BY <1>1, Invariance, EndsInvariance, PTL

-----------------------------------------------------------------------------
(* How far a rank is from its end: the steps and phases of its loop, what   *)
(* the phase still has to issue, and what waits in its device.              *)

LoopPhase(r) ==
  CASE pc[r] \in {"backward", "freeing"} -> 6
    [] pc[r] \in {"finish", "settle"} -> 5
    [] pc[r] \in {"reduce", "await"} -> 4
    [] pc[r] = "optimizer" -> 3
    [] OTHER -> 2
Phase(r) == IF pc[r] \in Stopped THEN 0 ELSE IF raised[r] THEN 1 ELSE LoopPhase(r)
Stage(r) == 7 * (MaxSteps - step[r]) + Phase(r)
\* The contributions to the parameters' gradients that are still to come.
Missing(f) == UNION {{p} \X (1 .. f[p]) : p \in Parameters}
ToIssue(r) ==
  IF Phase(r) = 6 THEN Cardinality(Missing(left[r]))
  ELSE IF Phase(r) = 4 THEN 2 * (Len(Ranges) - next[r]) + (IF pc[r] = "reduce" THEN 1 ELSE 0)
  ELSE 0
Unpacked(r) == IF packed[r] THEN 0 ELSE 1
Freeing(r) == IF pc[r] = "freeing" THEN 1 ELSE 0
Load(n, m, u, f) == n + 2 * m + u + f
OnDevice(r) == Load(Len(work[r]), Len(comm[r]), Unpacked(r), Freeing(r))
Distance(r) == <<<<Stage(r), ToIssue(r)>>, OnDevice(r)>>

Smaller == OpToRel(<, Nat)
Shorter == LexPairOrdering(LexPairOrdering(Smaller, Smaller, Nat, Nat), Smaller, Nat \X Nat, Nat)

LEMMA ShorterIsWellFounded == IsWellFoundedOn(Shorter, (Nat \X Nat) \X Nat)
<1>1. IsWellFoundedOn(Smaller, Nat)
  BY NatLessThanWellFounded DEF Smaller
<1>2. IsWellFoundedOn(LexPairOrdering(Smaller, Smaller, Nat, Nat), Nat \X Nat)
  BY <1>1, WFLexPairOrdering
<1> QED BY <1>1, <1>2, WFLexPairOrdering DEF Shorter

LEMMA ShorterIs ==
  ASSUME NEW a \in Nat, NEW b \in Nat, NEW c \in Nat, NEW x \in Nat, NEW y \in Nat, NEW z \in Nat,
         a < x \/ (a = x /\ b < y) \/ (a = x /\ b = y /\ c < z)
  PROVE  <<<<<<a, b>>, c>>, <<<<x, y>>, z>>>> \in Shorter
<1> DEFINE Inner == LexPairOrdering(Smaller, Smaller, Nat, Nat)
           m == <<a, b>>
           n == <<x, y>>
<1>1. \A i, j \in Nat : i < j => <<i, j>> \in Smaller
  BY DEF Smaller, OpToRel
<1>2. m \in Nat \X Nat /\ n \in Nat \X Nat /\ m[1] = a /\ m[2] = b /\ n[1] = x /\ n[2] = y
  OBVIOUS
<1>3. a < x \/ (a = x /\ b < y) => <<m, n>> \in Inner
  BY <1>1, <1>2 DEF LexPairOrdering
<1>4. a = x /\ b = y => m = n
  OBVIOUS
<1> HIDE DEF Inner, m, n
<1>5. <<m, n>> \in Inner \/ (m = n /\ <<c, z>> \in Smaller)
  BY <1>1, <1>3, <1>4
<1>6. <<<<m, c>>, <<n, z>>>> \in LexPairOrdering(Inner, Smaller, Nat \X Nat, Nat)
  BY <1>2, <1>5 DEF LexPairOrdering
<1> QED BY <1>6 DEF Shorter, Inner, m, n

\* A contribution that comes in is one less to come.
LEMMA MissingFinite ==
  ASSUME NEW f \in [Parameters -> Nat]
  PROVE  IsFiniteSet(Missing(f)) /\ Cardinality(Missing(f)) \in Nat
<1> DEFINE T(p) == {p} \X (1 .. f[p])
<1>1. IsFiniteSet(Parameters)
  <2>1. Uses \in Seq(Nat \ {0})
    BY OverlapAssumption
  <2>2. Parameters = 1 .. Len(Uses) /\ Len(Uses) \in Nat
    BY <2>1 DEF Parameters
  <2> QED BY <2>2, FS_Interval
<1>2. ASSUME NEW p \in Parameters PROVE IsFiniteSet(T(p))
  <2>1. f[p] \in Nat
    OBVIOUS
  <2>2. IsFiniteSet({p}) /\ IsFiniteSet(1 .. f[p])
    <3>1. \A n \in Nat : IsFiniteSet(1 .. n)
      BY FS_Interval
    <3> QED BY <2>1, <3>1, FS_Singleton
  <2> QED BY <2>2, FS_Product
<1> HIDE DEF T
<1>3. IsFiniteSet({T(p) : p \in Parameters})
  <2> DEFINE g == [p \in Parameters |-> T(p)]
  <2>1. g \in Surjection(Parameters, {T(p) : p \in Parameters})
    BY DEF Surjection
  <2> QED BY <1>1, <2>1, FS_Surjection
<1>4. IsFiniteSet(UNION {T(p) : p \in Parameters})
  BY <1>2, <1>3, FS_UNION
<1> QED BY <1>4, FS_CardinalityType DEF T, Missing

LEMMA OneLessMissing ==
  ASSUME NEW f \in [Parameters -> Nat], NEW g \in [Parameters -> Nat], NEW p \in Parameters,
         f[p] > 0, g = [f EXCEPT ![p] = f[p] - 1]
  PROVE  Cardinality(Missing(g)) < Cardinality(Missing(f))
<1> DEFINE x == <<p, f[p]>>
<1>1. \A q \in Parameters : f[q] \in Nat /\ g[q] = IF q = p THEN f[p] - 1 ELSE f[q]
  OBVIOUS
<1>2. \A e, h : h \in [Parameters -> Nat] =>
        (e \in Missing(h) <=> \E q \in Parameters : \E i \in 1 .. h[q] : e = <<q, i>>)
  BY DEF Missing
<1>3. x \in Missing(f)
  <2>1. f[p] \in 1 .. f[p]
    BY <1>1
  <2> QED BY <1>2, <2>1
<1>4. Missing(g) = Missing(f) \ {x}
  <2>1. \A q \in Parameters : \A i : i \in 1 .. g[q] <=> i \in 1 .. f[q] /\ <<q, i>> # x
    BY <1>1
  <2>2. ASSUME NEW e PROVE e \in Missing(g) <=> e \in Missing(f) /\ e # x
    <3>1. e \in Missing(g) <=> \E q \in Parameters : \E i \in 1 .. g[q] : e = <<q, i>>
      BY <1>2
    <3>2. e \in Missing(f) <=> \E q \in Parameters : \E i \in 1 .. f[q] : e = <<q, i>>
      BY <1>2
    <3>3. ASSUME NEW q \in Parameters, NEW i, e = <<q, i>>
          PROVE  i \in 1 .. g[q] <=> i \in 1 .. f[q] /\ e # x
      BY <2>1, <3>3
    <3> QED BY <3>1, <3>2, <3>3
  <2> QED BY <2>2
<1> HIDE DEF x
<1>5. IsFiniteSet(Missing(f)) /\ Cardinality(Missing(f)) \in Nat
  BY MissingFinite
<1>6. Cardinality(Missing(g)) = Cardinality(Missing(f)) - 1
  BY <1>3, <1>4, <1>5, FS_RemoveElement
<1> QED BY <1>5, <1>6

LEMMA LoadIs == \A n, m \in Nat, u, f \in {0, 1} : Load(n, m, u, f) \in Nat
  BY DEF Load

\* A rank's distance is made of natural numbers.
Parts(r) == Len(work[r]) \in Nat /\ Len(comm[r]) \in Nat /\ Unpacked(r) \in {0, 1}
            /\ Freeing(r) \in {0, 1}
Measured ==
  \A r \in Ranks :
    /\ Phase(r) \in 0 .. 6 /\ Stage(r) \in Nat /\ ToIssue(r) \in Nat
    /\ Parts(r) /\ OnDevice(r) \in Nat

LEMMA DistanceTypes == TypeOK => Measured
<1> SUFFICES ASSUME TypeOK, NEW r \in Ranks
             PROVE  /\ Phase(r) \in 0 .. 6 /\ Stage(r) \in Nat /\ ToIssue(r) \in Nat
                    /\ Parts(r) /\ OnDevice(r) \in Nat
  BY DEF Measured
<1>1. Typed(r)
  BY TypesOfRank
<1>2. MaxSteps \in Nat /\ Len(Ranges) \in Nat
  BY Constants
<1>3. Phase(r) \in 0 .. 6
  BY DEF Phase, LoopPhase
<1>4. Stage(r) \in Nat
  <2>1. MaxSteps - step[r] \in Nat
    BY <1>1, <1>2 DEF Typed
  <2> QED BY <1>3, <2>1 DEF Stage
<1>5. ToIssue(r) \in Nat
  <2>1. Cardinality(Missing(left[r])) \in Nat
    BY <1>1, MissingFinite DEF Typed
  <2>2. 2 * (Len(Ranges) - next[r]) \in Nat
    BY <1>1, <1>2 DEF Typed
  <2> QED BY <2>1, <2>2 DEF ToIssue
<1>6. Parts(r)
  BY <1>1 DEF Typed, Parts, Unpacked, Freeing
<1>7. OnDevice(r) \in Nat
  BY <1>6, LoadIs DEF OnDevice, Parts
<1> QED BY <1>3, <1>4, <1>5, <1>6, <1>7

LEMMA DistanceTypesNext == TypeOK' => Measured'
  BY DistanceTypes, PTL

Nearer(r) == <<Distance(r)', Distance(r)>> \in Shorter

LEMMA NearerIs ==
  ASSUME TypeOK, TypeOK', NEW r \in Ranks,
         \/ Stage(r)' < Stage(r)
         \/ Stage(r)' = Stage(r) /\ ToIssue(r)' < ToIssue(r)
         \/ Stage(r)' = Stage(r) /\ ToIssue(r)' = ToIssue(r) /\ OnDevice(r)' < OnDevice(r)
  PROVE  Nearer(r)
<1>1. Stage(r) \in Nat /\ ToIssue(r) \in Nat /\ OnDevice(r) \in Nat
  BY DistanceTypes DEF Measured
<1>2. Stage(r)' \in Nat /\ ToIssue(r)' \in Nat /\ OnDevice(r)' \in Nat
  BY DistanceTypesNext DEF Measured
<1>3. <<<<<<Stage(r)', ToIssue(r)'>>, OnDevice(r)'>>, <<<<Stage(r), ToIssue(r)>>, OnDevice(r)>>>>
        \in Shorter
  BY <1>1, <1>2, ShorterIs
<1> QED BY <1>3 DEF Nearer, Distance

\* The steps that end a phase.
LEMMA PhaseEnds ==
  ASSUME TypeOK, TypeOK', NEW q \in Ranks,
         \/ /\ ~raised[q]
            /\ \/ BeginStep(q) \/ Finished(q) \/ EndBackward(q) \/ FinishOverlap(q)
               \/ Settle(q) \/ Optimize(q)
         \/ Clear(q) \/ Throw(q) \/ Crash(q) \/ Terminate(q)
  PROVE  Nearer(q)
<1>1. Typed(q) /\ MaxSteps \in Nat
  BY TypesOfRank, Constants
<1>2. CASE ~raised[q] /\ BeginStep(q)
  <2>1. pc[q] = "begin" /\ pc'[q] = "backward" /\ step'[q] = step[q] + 1 /\ ~raised'[q]
    BY <1>2 DEF BeginStep, Goto, TypeOK
  <2>2. Phase(q) = 2 /\ Phase(q)' = 6
    BY <1>2, <2>1 DEF Phase, LoopPhase, Stopped
  <2>3. Stage(q)' < Stage(q)
    BY <1>1, <2>1, <2>2 DEF Stage, Typed
  <2> QED BY <2>3, NearerIs
<1>3. ASSUME step'[q] = step[q], Phase(q)' < Phase(q) PROVE Nearer(q)
  <2>1. Phase(q) \in 0 .. 6 /\ Phase(q)' \in 0 .. 6
    BY DistanceTypes, DistanceTypesNext DEF Measured
  <2>2. MaxSteps - step[q] \in Nat /\ MaxSteps - step'[q] = MaxSteps - step[q]
    BY <1>1, <1>3 DEF Typed
  <2>3. \A n \in Nat, a, b \in 0 .. 6 : a < b => 7 * n + a < 7 * n + b
    OBVIOUS
  <2>4. Stage(q)' < Stage(q)
    BY <1>3, <2>1, <2>2, <2>3 DEF Stage
  <2> QED BY <2>4, NearerIs
<1>4. CASE /\ ~raised[q]
           /\ Finished(q) \/ EndBackward(q) \/ FinishOverlap(q) \/ Settle(q) \/ Optimize(q)
  <2>1. /\ step'[q] = step[q] /\ ~raised[q] /\ ~raised'[q]
        /\ \/ pc[q] = "begin" /\ pc'[q] = "done"
           \/ pc[q] = "backward" /\ pc'[q] \in {"finish", "settle"}
           \/ pc[q] = "finish" /\ pc'[q] = "optimizer"
           \/ pc[q] = "settle" /\ pc'[q] = "reduce"
           \/ pc[q] = "optimizer" /\ pc'[q] = "begin"
    BY <1>4 DEF Finished, EndBackward, FinishOverlap, Settle, Optimize, Goto, TypeOK
  <2>2. Phase(q)' < Phase(q)
    BY <2>1 DEF Phase, LoopPhase, Stopped
  <2> QED BY <1>3, <2>1, <2>2
<1>5. CASE Clear(q) \/ Throw(q) \/ Crash(q) \/ Terminate(q)
  <2>1. /\ step'[q] = step[q] /\ pc[q] \notin Stopped
        /\ \/ /\ ~raised[q] /\ raised'[q] /\ pc'[q] = pc[q] /\ pc[q] # "begin"
           \/ pc'[q] \in {"failed", "killed"}
    BY <1>5 DEF Clear, Throw, Crash, Terminate, Dies, Goto, TypeOK, Stopped, hostVars
  <2>2. Phase(q)' < Phase(q)
    BY <2>1 DEF Phase, LoopPhase, Stopped
  <2> QED BY <1>3, <2>1, <2>2
<1> QED BY <1>2, <1>4, <1>5

\* The steps that issue something to the device.
LEMMA IssuesLess ==
  ASSUME TypeOK, TypeOK', NEW q \in Ranks,
         ~raised[q],
         (\E p \in Parameters : Accumulate(q, p) \/ LastContribution(q, p)) \/ Reduce(q) \/ Await(q)
  PROVE  Nearer(q)
<1>1. Typed(q) /\ MaxSteps \in Nat /\ Len(Ranges) \in Nat
  BY TypesOfRank, Constants
<1>2. ASSUME NEW p \in Parameters, Accumulate(q, p) \/ LastContribution(q, p) PROVE Nearer(q)
  <2>1. pc[q] = "backward" /\ pc'[q] \in {"backward", "freeing"} /\ step'[q] = step[q]
        /\ left[q][p] > 0 /\ ~raised'[q]
    <3>1. pc[q] = "backward" /\ step' = step /\ left[q][p] > 0 /\ FreesOrNot(q)
      <4>1. Accumulate(q, p) => left[q][p] > 0
        BY DEF Accumulate
      <4>2. LastContribution(q, p) => left[q][p] > 0
        BY DEF LastContribution
      <4> QED BY <1>2, <4>1, <4>2 DEF Accumulate, LastContribution
    <3>2. UNCHANGED raised
      BY <1>2 DEF Accumulate, LastContribution
    <3> QED BY <3>1, <3>2 DEF FreesOrNot, Goto, TypeOK
  <2>2. left'[q] = [left[q] EXCEPT ![p] = left[q][p] - 1]
    <3>1. CASE Accumulate(q, p)
      BY <3>1 DEF Accumulate, TypeOK
    <3>2. CASE LastContribution(q, p)
      <4>1. left' = [left EXCEPT ![q][p] = 0] /\ left[q][p] = 1
        BY <3>2, LastContributionDoes DEF LastContribution
      <4> QED BY <4>1 DEF TypeOK
    <3> QED BY <1>2, <3>1, <3>2
  <2>3. left[q] \in [Parameters -> Nat] /\ left'[q] \in [Parameters -> Nat]
    BY DEF TypeOK
  <2>4. Cardinality(Missing(left'[q])) < Cardinality(Missing(left[q]))
    BY <2>1, <2>2, <2>3, OneLessMissing
  <2>5. Phase(q) = 6 /\ Phase(q)' = 6
    BY <2>1 DEF Phase, LoopPhase, Stopped
  <2>6. ToIssue(q) = Cardinality(Missing(left[q])) /\ ToIssue(q)' = Cardinality(Missing(left'[q]))
    BY <2>5 DEF ToIssue, Missing
  <2>7. Stage(q)' = Stage(q)
    BY <2>1, <2>5 DEF Stage
  <2> QED BY <2>4, <2>6, <2>7, NearerIs
<1>3. CASE Reduce(q)
  <2>1. pc[q] = "reduce" /\ pc'[q] = "await" /\ step'[q] = step[q] /\ next'[q] = next[q]
        /\ ~raised'[q]
    BY <1>3 DEF Reduce, Goto, TypeOK
  <2>2. Phase(q) = 4 /\ Phase(q)' = 4
    BY <2>1 DEF Phase, LoopPhase, Stopped
  <2>3. Stage(q)' = Stage(q)
    BY <2>1, <2>2 DEF Stage
  <2>4. ToIssue(q) = 2 * (Len(Ranges) - next[q]) + 1 /\ ToIssue(q)' = 2 * (Len(Ranges) - next[q])
    BY <1>1, <2>1, <2>2 DEF ToIssue, Typed
  <2>5. ToIssue(q)' < ToIssue(q)
    BY <1>1, <2>4 DEF Typed
  <2> QED BY <2>3, <2>5, NearerIs
<1>4. CASE Await(q) /\ next[q] < Len(Ranges)
  <2>1. pc[q] = "await" /\ pc'[q] = "reduce" /\ step'[q] = step[q] /\ next'[q] = next[q] + 1
        /\ ~raised'[q]
    BY <1>4 DEF Await, Goto, TypeOK
  <2>2. Phase(q) = 4 /\ Phase(q)' = 4
    BY <2>1 DEF Phase, LoopPhase, Stopped
  <2>3. Stage(q)' = Stage(q)
    BY <2>1, <2>2 DEF Stage
  <2>4. /\ ToIssue(q) = 2 * (Len(Ranges) - next[q])
        /\ ToIssue(q)' = 2 * (Len(Ranges) - (next[q] + 1)) + 1
    BY <1>1, <2>1, <2>2 DEF ToIssue, Typed
  <2>5. ToIssue(q)' < ToIssue(q)
    BY <1>1, <2>4 DEF Typed
  <2> QED BY <2>3, <2>5, NearerIs
<1>5. CASE Await(q) /\ ~(next[q] < Len(Ranges))
  <2>1. pc[q] = "await" /\ pc'[q] = "optimizer" /\ step'[q] = step[q] /\ ~raised'[q]
    BY <1>5 DEF Await, Goto, TypeOK
  <2>2. Phase(q) = 4 /\ Phase(q)' = 3
    BY <2>1 DEF Phase, LoopPhase, Stopped
  <2>3. Stage(q)' < Stage(q)
    BY <1>1, <2>1, <2>2 DEF Stage, Typed
  <2> QED BY <2>3, NearerIs
<1> QED BY <1>2, <1>3, <1>4, <1>5

LEMMA OnDeviceFalls ==
  ASSUME NEW q \in Ranks, Parts(q), Parts(q)',
         \/ /\ Len(work'[q]) = Len(work[q]) - 1 /\ Len(comm'[q]) = Len(comm[q])
            /\ Unpacked(q)' = Unpacked(q) /\ Freeing(q)' = Freeing(q)
         \/ /\ Len(work'[q]) = Len(work[q]) /\ Len(comm'[q]) = Len(comm[q]) - 1
            /\ Freeing(q)' = Freeing(q)
         \/ /\ Len(work'[q]) = Len(work[q]) /\ Len(comm'[q]) = Len(comm[q])
            /\ \/ Unpacked(q)' < Unpacked(q) /\ Freeing(q)' = Freeing(q)
               \/ Unpacked(q)' = Unpacked(q) /\ Freeing(q)' < Freeing(q)
  PROVE  OnDevice(q)' < OnDevice(q)
<1> DEFINE n == Len(work[q])
           m == Len(comm[q])
           u == Unpacked(q)
           f == Freeing(q)
           k == Len(work'[q])
           l == Len(comm'[q])
           v == Unpacked(q)'
           g == Freeing(q)'
<1>1. n \in Nat /\ m \in Nat /\ u \in {0, 1} /\ f \in {0, 1}
      /\ k \in Nat /\ l \in Nat /\ v \in {0, 1} /\ g \in {0, 1}
  BY DEF Parts
<1>2. \/ k = n - 1 /\ l = m /\ v = u /\ g = f
      \/ k = n /\ l = m - 1 /\ g = f
      \/ k = n /\ l = m /\ v < u /\ g = f
      \/ k = n /\ l = m /\ v = u /\ g < f
  OBVIOUS
<1>3. OnDevice(q) = Load(n, m, u, f) /\ OnDevice(q)' = Load(k, l, v, g)
  BY DEF OnDevice
<1> HIDE DEF n, m, u, f, k, l, v, g
<1>4. Load(k, l, v, g) < Load(n, m, u, f)
  BY <1>1, <1>2 DEF Load
<1> QED BY <1>3, <1>4

\* The steps that take something off the device.
LEMMA DeviceHasLess ==
  ASSUME TypeOK, TypeOK', NEW q \in Ranks,
         pc'[q] = pc[q] \/ (pc[q] = "freeing" /\ pc'[q] = "backward"),
         step'[q] = step[q], left'[q] = left[q], next'[q] = next[q], raised'[q] = raised[q],
         OnDevice(q)' < OnDevice(q)
  PROVE  Nearer(q)
<1>1. Phase(q)' = Phase(q) /\ (Phase(q) = 4 => pc'[q] = pc[q])
  BY DEF Phase, LoopPhase, Stopped
<1>2. Stage(q)' = Stage(q)
  BY <1>1 DEF Stage
<1>3. ToIssue(q)' = ToIssue(q)
  BY <1>1 DEF ToIssue, Missing
<1> QED BY <1>2, <1>3, NearerIs

LEMMA DeviceSteps ==
  ASSUME TypeOK, TypeOK', NEW q \in Ranks, Freed(q) \/ Device(q)
  PROVE  Nearer(q)
<1>0. Parts(q) /\ Parts(q)'
  BY DistanceTypes, DistanceTypesNext DEF Measured
<1>2. CASE Freed(q)
  <2>1. /\ pc[q] = "freeing" /\ pc'[q] = "backward" /\ step'[q] = step[q] /\ left'[q] = left[q]
        /\ next'[q] = next[q] /\ work'[q] = work[q] /\ comm'[q] = comm[q]
        /\ packed'[q] = packed[q] /\ raised'[q] = raised[q]
    BY <1>2 DEF Freed, Goto, TypeOK, deviceVars
  <2>2. Freeing(q) = 1 /\ Freeing(q)' = 0
    BY <2>1 DEF Freeing
  <2>3. Unpacked(q)' = Unpacked(q)
    BY <2>1 DEF Unpacked
  <2>4. Len(work'[q]) = Len(work[q]) /\ Len(comm'[q]) = Len(comm[q])
    BY <2>1
  <2>5. OnDevice(q)' < OnDevice(q)
    BY <1>0, <2>2, <2>3, <2>4, OnDeviceFalls
  <2> QED BY <2>1, <2>5, DeviceHasLess
<1>3. CASE Device(q)
  <2>1. pc'[q] = pc[q] /\ step'[q] = step[q] /\ left'[q] = left[q] /\ next'[q] = next[q]
        /\ raised'[q] = raised[q]
    BY <1>3 DEF Device, Execute, Pack, AbortedReduce, hostVars
  <2>2. \/ Len(work'[q]) = Len(work[q]) - 1 /\ comm'[q] = comm[q] /\ packed'[q] = packed[q]
        \/ work'[q] = work[q] /\ comm'[q] = comm[q] /\ ~packed[q] /\ packed'[q] = TRUE
        \/ work'[q] = work[q] /\ Len(comm'[q]) = Len(comm[q]) - 1
    <3>1. CASE Execute(q)
      <4>1. work[q] # <<>> /\ work'[q] = Tail(work[q]) /\ work[q] \in Seq(Tasks)
        BY <3>1 DEF Execute, TypeOK
      <4>2. Len(work'[q]) = Len(work[q]) - 1
        BY <4>1
      <4> QED BY <3>1, <4>2 DEF Execute
    <3>2. CASE Pack(q)
      <4>1. /\ work' = work /\ comm' = comm /\ ~packed[q]
            /\ packed' = [packed EXCEPT ![q] = TRUE]
        BY <3>2 DEF Pack
      <4>2. packed'[q] = TRUE
        BY <4>1 DEF TypeOK
      <4> QED BY <4>1, <4>2
    <3>3. CASE AbortedReduce(q)
      <4>1. comm[q] # <<>> /\ comm'[q] = Tail(comm[q]) /\ comm[q] \in Seq(Jobs)
        BY <3>3 DEF AbortedReduce, TypeOK
      <4>2. Len(comm'[q]) = Len(comm[q]) - 1
        BY <4>1
      <4> QED BY <3>3, <4>2 DEF AbortedReduce, TypeOK
    <3> QED BY <1>3, <3>1, <3>2, <3>3 DEF Device
  <2>3. Freeing(q)' = Freeing(q)
    BY <2>1 DEF Freeing
  <2>4. /\ packed'[q] = packed[q] => Unpacked(q)' = Unpacked(q)
        /\ ~packed[q] /\ packed'[q] = TRUE => Unpacked(q)' < Unpacked(q)
    BY DEF Unpacked
  <2>5. \/ /\ Len(work'[q]) = Len(work[q]) - 1 /\ Len(comm'[q]) = Len(comm[q])
           /\ Unpacked(q)' = Unpacked(q)
        \/ /\ Len(work'[q]) = Len(work[q]) /\ Len(comm'[q]) = Len(comm[q])
           /\ Unpacked(q)' < Unpacked(q)
        \/ Len(work'[q]) = Len(work[q]) /\ Len(comm'[q]) = Len(comm[q]) - 1
    BY <2>2, <2>4
  <2>6. OnDevice(q)' < OnDevice(q)
    BY <1>0, <2>3, <2>5, OnDeviceFalls
  <2> QED BY <2>1, <2>6, DeviceHasLess
<1> QED BY <1>2, <1>3

\* One rank comes nearer and none falls back.
Closer ==
  /\ \A r \in Ranks : Nearer(r) \/ Distance(r)' = Distance(r)
  /\ \E r \in Ranks : Nearer(r)

LEMMA StepsCount == ASSUME TypeOK, TypeOK', Next PROVE Closer
<1>1. ASSUME NEW q \in Ranks, StepOf(q) PROVE Closer
  <2>1. Nearer(q)
    BY <1>1, PhaseEnds, IssuesLess, DeviceSteps DEF StepOf, Host, Loop
  <2>2. ASSUME NEW r \in Ranks, r # q PROVE Distance(r)' = Distance(r)
    <3>1. Same(r) /\ raised'[r] = raised[r]
      BY <1>1, <2>2, OthersKeep
    <3>2. Phase(r)' = Phase(r)
      BY <3>1 DEF Same, Phase, LoopPhase
    <3>3. Stage(r)' = Stage(r) /\ ToIssue(r)' = ToIssue(r)
      BY <3>1, <3>2 DEF Same, Stage, ToIssue, Missing
    <3>4. OnDevice(r)' = OnDevice(r)
      BY <3>1 DEF Same, OnDevice, Unpacked, Freeing
    <3> QED BY <3>3, <3>4 DEF Distance
  <2> QED BY <2>1, <2>2 DEF Closer
<1>2. CASE AllReduce
  <2>1. ASSUME NEW r \in Ranks PROVE Nearer(r)
    <3>1. pc'[r] = pc[r] /\ step'[r] = step[r] /\ left'[r] = left[r] /\ next'[r] = next[r]
          /\ work'[r] = work[r] /\ raised'[r] = raised[r]
      BY <1>2 DEF AllReduce, hostVars
    <3>2. comm[r] # <<>> /\ comm'[r] = Tail(comm[r])
      BY <1>2 DEF AllReduce
    <3>3. Len(comm'[r]) = Len(comm[r]) - 1 /\ Len(work'[r]) = Len(work[r])
      BY <3>1, <3>2, TypesOfRank DEF Typed
    <3>4. Freeing(r)' = Freeing(r)
      BY <3>1 DEF Freeing
    <3>5. Parts(r) /\ Parts(r)'
      BY DistanceTypes, DistanceTypesNext DEF Measured
    <3>6. OnDevice(r)' < OnDevice(r)
      BY <3>3, <3>4, <3>5, OnDeviceFalls
    <3> QED BY <3>1, <3>6, DeviceHasLess
  <2>2. \E r \in Ranks : TRUE
    BY OverlapAssumption
  <2> QED BY <2>1, <2>2 DEF Closer
<1> QED BY <1>1, <1>2 DEF Next, Runs, StepOf

\* No step is for nothing: each brings a rank, or in an all-reduce every rank, closer to
\* its end and none further away, by an order in which nothing comes closer for ever.
\* With finitely many ranks every behaviour therefore comes to a stop.
THEOREM EveryStepCounts ==
  /\ IsWellFoundedOn(Shorter, (Nat \X Nat) \X Nat)
  /\ Spec => [](\A r \in Ranks : Distance(r) \in (Nat \X Nat) \X Nat)
  /\ Spec => [][Closer]_vars
<1>1. Inv => \A r \in Ranks : Distance(r) \in (Nat \X Nat) \X Nat
  BY DistanceTypes DEF Inv, Distance, Measured
<1>2. Inv /\ [Next]_vars => [Closer]_vars
  BY TypesKept, StepsCount DEF Inv
<1>3. Spec => [](\A r \in Ranks : Distance(r) \in (Nat \X Nat) \X Nat)
  BY <1>1, Invariance, PTL
<1>4. Spec => [][Closer]_vars
  BY <1>2, Invariance, PTL DEF Spec
<1> QED BY <1>3, <1>4, ShorterIsWellFounded
=============================================================================
