------------------------- MODULE MCContinuousBatch --------------------------
(* Instances of ContinuousBatch for TLC. *)
EXTENDS ContinuousBatch

Request(p, n, sampled) == [prompt |-> p, maxNew |-> n, sampled |-> sampled]

\* Two prompt lengths, outputs of one to three tokens, a request that asks for
\* none, a sampling one, and one that does not fit.
MCWorkload == {Request(1, 0, FALSE), Request(1, 2, FALSE), Request(2, 1, FALSE),
               Request(1, 3, FALSE), Request(1, 2, TRUE), Request(3, 3, FALSE)}

\* Fewer shapes for the runs in which calls fail.
MCFaultWorkload == {Request(1, 2, FALSE), Request(2, 1, FALSE), Request(1, 2, TRUE)}
=============================================================================
