-------------------------- MODULE MCProfileScopes ---------------------------
(* The second of two scopes records HIP events. *)
EXTENDS ProfileScopes

MCHipScopes == {2}
=============================================================================
