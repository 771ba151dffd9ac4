-------------------------- MODULE GradientBuckets --------------------------
(***************************************************************************)
(* How the parameters of a model are divided into gradient buckets.  A     *)
(* bucket is a run of consecutive parameters; it is closed when the next   *)
(* one would not fit or when it is full.  A parameter larger than the      *)
(* limit has a bucket of its own.                                          *)
(***************************************************************************)
EXTENDS Integers, Sequences, SequencesExt, FiniteSets, FiniteSetsExt

Elements(size, bucket) == MapThenSumSet(LAMBDA p : size[p], bucket)

\* Parameter p joins the last bucket, or opens one.  Mutants: a bucket is closed
\* only when full, so that it may exceed the limit; the limit itself does not fit.
PlaceUntilFull(size, limit, buckets, p) ==
  IF buckets # <<>> /\ Elements(size, Last(buckets)) < limit
  THEN [buckets EXCEPT ![Len(buckets)] = @ \cup {p}]
  ELSE Append(buckets, {p})
PlaceBelow(size, limit, buckets, p) ==
  IF buckets # <<>> /\ Elements(size, Last(buckets)) + size[p] < limit
  THEN [buckets EXCEPT ![Len(buckets)] = @ \cup {p}]
  ELSE Append(buckets, {p})
Place(size, limit, buckets, p) ==
  IF /\ buckets # <<>>
     /\ Elements(size, Last(buckets)) < limit
     /\ Elements(size, Last(buckets)) + size[p] <= limit
  THEN [buckets EXCEPT ![Len(buckets)] = @ \cup {p}]
  ELSE Append(buckets, {p})

\* The buckets in order, each the set of its parameters.
MakeRanges(size, limit) ==
  FoldLeft(LAMBDA buckets, p : Place(size, limit, buckets, p), <<>>, [p \in DOMAIN size |-> p])

-----------------------------------------------------------------------------
(* What the buckets are, independently of how they are made.               *)

\* Consecutive parameters, in order, none left out and none twice.
Divides(buckets, size) ==
  /\ \A b \in DOMAIN buckets : buckets[b] # {}
  /\ UNION Range(buckets) = DOMAIN size
  /\ \A b, c \in DOMAIN buckets : b < c => \A p \in buckets[b], q \in buckets[c] : p < q

Fits(buckets, size, limit) ==
  \A b \in DOMAIN buckets : \/ Cardinality(buckets[b]) = 1
                            \/ Elements(size, buckets[b]) <= limit

\* The buckets whose last parameters are the given ones, and all divisions of a model.
EndingAt(ends) ==
  [b \in 1 .. Cardinality(ends) |->
     {p \in 1 .. Max(ends) : Cardinality({e \in ends : e < p}) = b - 1}]
Divisions(size) ==
  IF size = <<>> THEN {<<>>}
  ELSE {EndingAt(ends \cup {Len(size)}) : ends \in SUBSET (1 .. Len(size) - 1)}
=============================================================================
