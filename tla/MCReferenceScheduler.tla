------------------------ MODULE MCReferenceScheduler ------------------------
(* Instances of ReferenceScheduler for TLC. *)
EXTENDS ReferenceScheduler

Request(p, n, sampled) == [prompt |-> p, maxNew |-> n, sampled |-> sampled]

MCWorkload == {Request(1, 0, FALSE), Request(1, 2, FALSE), Request(2, 1, FALSE),
               Request(1, 3, FALSE), Request(1, 2, TRUE)}
=============================================================================
