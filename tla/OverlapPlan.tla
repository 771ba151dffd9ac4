----------------------------- MODULE OverlapPlan -----------------------------
(***************************************************************************)
(* A rank divides the parameters of its model into buckets when it makes   *)
(* its plan, before its first step, and keeps them: what RankOverlap takes *)
(* as Ranges comes from GradientBuckets.                                   *)
(***************************************************************************)
EXTENDS RankOverlap, GradientBuckets

CONSTANTS
  Models,   \* models, each as the numbers of elements of its parameters
  Limits    \* limits of elements per bucket

ASSUME PlanAssumption == Models \subseteq Seq(Nat) /\ Limits \subseteq Nat

Planning == \A r \in Ranks : pc[r] = "begin" /\ step[r] = 0

\* make_ranges divides the parameters into runs that cover them in order, and no
\* bucket of several parameters exceeds the limit.
RangesAreBuckets ==
  Planning => \A size \in Models, limit \in Limits :
    LET buckets == MakeRanges(size, limit)
    IN Divides(buckets, size) /\ Fits(buckets, size, limit)

\* It uses as few buckets, and with them as few collectives, as any division into
\* consecutive buckets within the limit, if every parameter has elements.
FewestCollectives ==
  Planning => \A size \in Models, limit \in Limits :
    (\A p \in DOMAIN size : size[p] > 0) =>
      LET buckets == MakeRanges(size, limit)
      IN \A d \in Divisions(size) : Fits(d, size, limit) => Len(buckets) <= Len(d)
=============================================================================
