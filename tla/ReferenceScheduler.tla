------------------------- MODULE ReferenceScheduler -------------------------
(***************************************************************************)
(* ReferenceScheduler: every request owns a one-row KV cache, its logits   *)
(* and its generator.  step() walks the requests in order; each one that   *)
(* is not terminal is prefilled if it is pending, gets one token, and runs *)
(* one decode unless that token was its last.  A call that throws ends     *)
(* step() where it is: the requests after it wait for the next step.       *)
(***************************************************************************)
EXTENDS Integers, Sequences, FiniteSets

CONSTANTS MaxRequests,  \* bound: requests submitted in one behaviour
          Capacity,     \* the model's max_sequence_length
          Workload,     \* the request configurations callers submit
          Faults,       \* which calls of step() may fail
          MaxFaults     \* bound: failures in one behaviour

FaultKinds == {"prefill", "decode", "nonfinite"}

ASSUME ConstantsAssumption ==
  /\ MaxRequests \in Nat /\ Capacity \in Nat \ {0} /\ MaxFaults \in Nat
  /\ Workload \subseteq [prompt : Nat \ {0}, maxNew : Nat, sampled : BOOLEAN]
  /\ Faults \subseteq FaultKinds

Requests == 1..MaxRequests
NoConfig == [prompt |-> 0, maxNew |-> 0, sampled |-> FALSE]
NoLogits == [seen |-> 0, finite |-> TRUE]

VARIABLES
  cursor,   \* the request step() is at; 0 between calls
  decoding, \* step() has appended this request's token and is about to decode it
  state, reason, cfg, generated, draws,
  position, \* the request's own KV cache: its position
  prefix,   \* and the length of its first layer's K/V view
  logits,   \* request.logits
  faults

vars == <<cursor, decoding, state, reason, cfg, generated, draws, position, prefix,
          logits, faults>>

Active == {r \in Requests : state[r] \in {"PendingPrefill", "Decoding"}}
Terminal == {r \in Requests : state[r] \in {"Completed", "Cancelled"}}

Fail(kind) == kind \in Faults /\ faults < MaxFaults /\ faults' = faults + 1

\* Whether a call's logits may be non-finite.
Finite == IF "nonfinite" \in Faults THEN BOOLEAN ELSE {TRUE}

\* Mutants: the loop runs past the last request, or skips one.
AdvanceBeyond(from, active) == cursor' = from + 1
AdvanceSkipping(from, active) ==
  LET rest == {r \in active : r > from + 1}
  IN cursor' = IF rest = {} THEN 0 ELSE CHOOSE r \in rest : \A q \in rest : r <= q

\* step() goes on with the next request that is not terminal, or returns.
Advance(from, active) ==
  LET rest == {r \in active : r > from}
  IN cursor' = IF rest = {} THEN 0 ELSE CHOOSE r \in rest : \A q \in rest : r <= q

Init ==
  /\ cursor = 0 /\ decoding = FALSE
  /\ state = [r \in Requests |-> "Absent"]
  /\ reason = [r \in Requests |-> "None"]
  /\ cfg = [r \in Requests |-> NoConfig]
  /\ generated = [r \in Requests |-> <<>>]
  /\ draws = [r \in Requests |-> 0]
  /\ position = [r \in Requests |-> 0]
  /\ prefix = [r \in Requests |-> 0]
  /\ logits = [r \in Requests |-> NoLogits]
  /\ faults = 0

Submit(r, c) ==
  /\ cursor = 0
  /\ state[r] = "Absent" /\ \A q \in 1..(r - 1) : state[q] # "Absent"
  /\ c.prompt + c.maxNew <= Capacity
  /\ cfg' = [cfg EXCEPT ![r] = c]
  /\ state' = [state EXCEPT ![r] = IF c.maxNew = 0 THEN "Completed" ELSE "PendingPrefill"]
  /\ reason' = [reason EXCEPT ![r] = IF c.maxNew = 0 THEN "Length" ELSE "None"]
  /\ UNCHANGED <<cursor, decoding, generated, draws, position, prefix, logits, faults>>

DropLogitsOnly(r) ==  \* mutant
  logits' = [logits EXCEPT ![r] = NoLogits] /\ UNCHANGED <<position, prefix>>

\* Ending a request drops its logits and its cache.
Drop(r) ==
  /\ logits' = [logits EXCEPT ![r] = NoLogits]
  /\ position' = [position EXCEPT ![r] = 0]
  /\ prefix' = [prefix EXCEPT ![r] = 0]

Cancel(r) ==
  /\ cursor = 0 /\ r \in Active
  /\ state' = [state EXCEPT ![r] = "Cancelled"]
  /\ reason' = [reason EXCEPT ![r] = "Cancelled"]
  /\ Drop(r)
  /\ UNCHANGED <<cursor, decoding, cfg, generated, draws, faults>>

StepBegin ==
  /\ cursor = 0 /\ Active # {}
  /\ Advance(0, Active)
  /\ UNCHANGED <<decoding, state, reason, cfg, generated, draws, position, prefix, logits, faults>>

\* forward_prefill_cached, which empties the cache again if it throws.
Prefill ==
  /\ cursor \in Requests /\ state[cursor] = "PendingPrefill"
  /\ \/ /\ state' = [state EXCEPT ![cursor] = "Decoding"]
        /\ position' = [position EXCEPT ![cursor] = cfg[cursor].prompt]
        /\ prefix' = [prefix EXCEPT ![cursor] = cfg[cursor].prompt]
        /\ \E finite \in Finite : logits' = [logits EXCEPT ![cursor] = [seen |-> 0, finite |-> finite]]
        /\ UNCHANGED <<cursor, faults>>
     \/ Fail("prefill") /\ cursor' = 0 /\ UNCHANGED <<state, position, prefix, logits>>
  /\ UNCHANGED <<decoding, reason, cfg, generated, draws>>

\* select() throws on non-finite logits before it draws or appends.
SelectThrows ==
  /\ cursor \in Requests /\ state[cursor] = "Decoding" /\ ~decoding
  /\ ~logits[cursor].finite
  /\ cursor' = 0
  /\ UNCHANGED <<decoding, state, reason, cfg, generated, draws, position, prefix, logits, faults>>

Select(stopped) ==
  LET r == cursor
      token == [seen |-> logits[r].seen, draw |-> IF cfg[r].sampled THEN draws[r] ELSE 0]
      full == Len(generated[r]) + 1 = cfg[r].maxNew
  IN /\ cursor \in Requests /\ state[r] = "Decoding" /\ ~decoding
     /\ logits[r].finite
     /\ generated' = [generated EXCEPT ![r] = Append(@, token)]
     /\ draws' = [draws EXCEPT ![r] = IF cfg[r].sampled THEN @ + 1 ELSE @]
     /\ IF stopped \/ full
        THEN /\ state' = [state EXCEPT ![r] = "Completed"]
             /\ reason' = [reason EXCEPT ![r] = IF stopped THEN "StopToken" ELSE "Length"]
             /\ Drop(r)
             /\ Advance(r, Active)
             /\ UNCHANGED decoding
        ELSE /\ decoding' = TRUE
             /\ UNCHANGED <<cursor, state, reason, position, prefix, logits>>
     /\ UNCHANGED <<cfg, faults>>

StaleLogits(r, finite) == logits[r]  \* mutant: the decode's result is dropped
NextLogits(r, finite) == [seen |-> logits[r].seen + 1, finite |-> finite]

\* forward_cached: its layers insist that the K/V view ends at the position, and
\* one that throws may already have grown the first layer's view.
Decode ==
  LET r == cursor
      room == prefix[r] = position[r] /\ position[r] < cfg[r].prompt + cfg[r].maxNew
  IN /\ decoding
     /\ decoding' = FALSE
     /\ \/ /\ room
           /\ position' = [position EXCEPT ![r] = @ + 1]
           /\ prefix' = [prefix EXCEPT ![r] = @ + 1]
           /\ \E finite \in Finite :
                logits' = [logits EXCEPT ![r] = NextLogits(r, finite)]
           /\ Advance(r, Active)
           /\ UNCHANGED faults
        \/ /\ room /\ Fail("decode")
           /\ prefix' = [prefix EXCEPT ![r] = @ + 1] \/ UNCHANGED prefix
           /\ cursor' = 0
           /\ UNCHANGED <<position, logits>>
        \/ /\ ~room
           /\ cursor' = 0
           /\ UNCHANGED <<position, prefix, logits, faults>>
     /\ UNCHANGED <<state, reason, cfg, generated, draws>>

Step == StepBegin \/ Prefill \/ SelectThrows \/ (\E stopped \in BOOLEAN : Select(stopped)) \/ Decode

Next == \/ \E r \in Requests, c \in Workload : Submit(r, c)
        \/ \E r \in Requests : Cancel(r)
        \/ Step

Spec == Init /\ [][Next]_vars

\* run_until_idle keeps calling step() while a request is active.
FairSpec == Spec /\ WF_vars(Step)

-----------------------------------------------------------------------------
(* Properties                                                              *)

TypeOK ==
  /\ cursor \in 0..MaxRequests /\ decoding \in BOOLEAN
  /\ state \in [Requests -> {"Absent", "PendingPrefill", "Decoding", "Completed", "Cancelled"}]
  /\ reason \in [Requests -> {"None", "Length", "StopToken", "Cancelled"}]
  /\ cfg \in [Requests -> Workload \cup {NoConfig}]
  /\ generated \in [Requests -> Seq([seen : Nat, draw : Nat])]
  /\ draws \in [Requests -> Nat] /\ position \in [Requests -> Nat] /\ prefix \in [Requests -> Nat]
  /\ logits \in [Requests -> [seen : Nat, finite : BOOLEAN]]
  /\ faults \in 0..MaxFaults

\* A request's cache holds its prompt and exactly the tokens its logits come
\* from, and a request without one (pending or ended) holds nothing, also after
\* calls that threw.
CacheFollowsRequest ==
  \A r \in Requests :
    position[r] = IF state[r] = "Decoding" THEN cfg[r].prompt + logits[r].seen ELSE 0

\* A request's answer is the one generate() gives it alone: token k was selected
\* after exactly the k - 1 tokens before it, with as many random draws.
OutputMatchesGenerate ==
  \A r \in Requests : \A k \in 1..Len(generated[r]) :
    generated[r][k] = [seen |-> k - 1, draw |-> IF cfg[r].sampled THEN k - 1 ELSE 0]

\* One request's non-finite logits, or a failed prefill, never reach another
\* request's answer, nor its own before the fault: the reference implements the
\* lifecycle it defines.
Lifecycle == INSTANCE RequestLifecycle
             WITH state <- state, reason <- reason, cfg <- cfg, generated <- generated
RefinesLifecycle == Lifecycle!LifecycleSpec

\* Every submitted request ends if the caller keeps calling step(), even after
\* failed prefills.  Logits that are not finite make every step throw at their
\* request: without them.
EveryRequestEnds ==
  [](\A r \in Requests : logits[r].finite) => \A r \in Requests : (r \in Active) ~> (r \in Terminal)
=============================================================================
