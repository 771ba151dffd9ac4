--------------------------- MODULE MCRankedLaunch ---------------------------
(* Two ranks, every mode, two attempts in one directory. *)
EXTENDS RankedLaunch

MCModes == AllModes
=============================================================================
