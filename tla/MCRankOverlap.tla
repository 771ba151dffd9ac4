---------------------------- MODULE MCRankOverlap ---------------------------
(* Instances of RankOverlap for TLC, and the buckets of every small model. *)
EXTENDS OverlapPlan

\* Two parameters, each in a bucket of its own; the second is used twice.
MCUses == <<1, 2>>
MCRanges == MakeRanges(<<2, 2>>, 2)

\* Bounds: up to six parameters of at most three elements, and limits up to four.
MCModels == UNION {[1 .. n -> 0 .. 3] : n \in 0 .. 6}
MCLimits == 1 .. 4
=============================================================================
