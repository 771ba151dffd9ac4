-------------------------- MODULE RequestLifecycle --------------------------
(***************************************************************************)
(* What a serving scheduler promises each caller, whatever it batches:     *)
(* the state machine that ReferenceScheduler defines and that the other    *)
(* schedulers must match.  A request is submitted, waits for its prompt to *)
(* be prefilled, decodes one token at a time, and ends exactly once.  Its  *)
(* output is the one it would get alone: token number k is the token the   *)
(* model selects after exactly k tokens of the same request.               *)
(*                                                                         *)
(* A token is abstracted to where it was selected from: `seen` is the      *)
(* number of the request's own generated tokens in the context, and `draw` *)
(* the number of random draws its generator had already made.             *)
(***************************************************************************)
EXTENDS Naturals, Sequences

CONSTANTS MaxRequests,  \* bound: the number of requests submitted
          Workload      \* the request configurations callers submit

Requests == 1..MaxRequests

VARIABLES state,      \* request.state, "Absent" before submit()
          reason,     \* request.completion_reason
          cfg,        \* request.prompt (its length) and request.config
          generated   \* request.generated

lifecycleVars == <<state, reason, cfg, generated>>

NoConfig == [prompt |-> 0, maxNew |-> 0, sampled |-> FALSE]

Active == {r \in Requests : state[r] \in {"PendingPrefill", "Decoding"}}
Terminal == {r \in Requests : state[r] \in {"Completed", "Cancelled"}}

\* The token the model gives request r after k of its own tokens.
TokenAfter(r, k) == [seen |-> k, draw |-> IF cfg[r].sampled THEN k ELSE 0]

Init ==
  /\ state = [r \in Requests |-> "Absent"]
  /\ reason = [r \in Requests |-> "None"]
  /\ cfg = [r \in Requests |-> NoConfig]
  /\ generated = [r \in Requests |-> <<>>]

\* A request that asks for no token is complete when it is submitted.
Submit(r, c) ==
  /\ state[r] = "Absent"
  /\ \A q \in 1..(r - 1) : state[q] # "Absent"
  /\ cfg' = [cfg EXCEPT ![r] = c]
  /\ state' = [state EXCEPT ![r] = IF c.maxNew = 0 THEN "Completed" ELSE "PendingPrefill"]
  /\ reason' = [reason EXCEPT ![r] = IF c.maxNew = 0 THEN "Length" ELSE "None"]
  /\ UNCHANGED generated

Cancel(r) ==
  /\ r \in Active
  /\ state' = [state EXCEPT ![r] = "Cancelled"]
  /\ reason' = [reason EXCEPT ![r] = "Cancelled"]
  /\ UNCHANGED <<cfg, generated>>

Prefill(batch) ==
  /\ batch # {}
  /\ \A r \in batch : state[r] = "PendingPrefill"
  /\ state' = [r \in Requests |-> IF r \in batch THEN "Decoding" ELSE state[r]]
  /\ UNCHANGED <<reason, cfg, generated>>

\* Each request of the batch gets its next token; it ends on a stop token, or
\* when it has the number of tokens it asked for.
Emit(batch, stopping) ==
  LET full == {r \in batch : Len(generated[r]) + 1 = cfg[r].maxNew}
  IN /\ batch # {}
     /\ \A r \in batch : state[r] = "Decoding"
     /\ generated' = [r \in Requests |->
          IF r \in batch THEN Append(generated[r], TokenAfter(r, Len(generated[r])))
                         ELSE generated[r]]
     /\ state' = [r \in Requests |->
          IF r \in stopping \cup full THEN "Completed" ELSE state[r]]
     /\ reason' = [r \in Requests |-> IF r \in stopping THEN "StopToken"
                                      ELSE IF r \in full THEN "Length" ELSE reason[r]]
     /\ UNCHANGED cfg

Next ==
  \/ \E r \in Requests, c \in Workload : Submit(r, c)
  \/ \E r \in Requests : Cancel(r)
  \/ \E batch \in SUBSET Requests : Prefill(batch)
  \/ \E batch \in SUBSET Requests : \E stopping \in SUBSET batch : Emit(batch, stopping)

LifecycleSpec == Init /\ [][Next]_lifecycleVars
=============================================================================
