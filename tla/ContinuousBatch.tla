-------------------------- MODULE ContinuousBatch ---------------------------
(***************************************************************************)
(* ContinuousBatchScheduler: requests share one KV cache of MaxSlots rows. *)
(* step() admits pending requests into free rows (prefill), selects one    *)
(* token for every occupied row from the logits the row holds, completes   *)
(* the requests that are done and runs one decode for the rows left.       *)
(* submit() and cancel() run between steps; any model call, and selection, *)
(* may throw out of step() and leave what was done so far in place.        *)
(*                                                                         *)
(* Slots are numbered as in the code; a slot holds a request id (ids start *)
(* at 1), 0 standing for the code's -1.  Logits are abstracted to the      *)
(* context they were computed from (see RequestLifecycle for tokens).     *)
(***************************************************************************)
EXTENDS Integers, Sequences, FiniteSets, FiniteSetsExt

CONSTANTS MaxRequests,   \* bound: requests submitted in one behaviour
          MaxSlots,      \* ContinuousBatchConfig::max_slots
          Capacity,      \* tokens per cache row
          BatchPrefill,  \* ContinuousBatchConfig::batch_equal_length_prefill
          Workload,      \* the request configurations callers submit
          Faults,        \* which calls of step() may fail
          MaxFaults      \* bound: failures in one behaviour

FaultKinds == {"prefill", "allocate", "decode", "copy", "nonfinite"}
Configs == [prompt : Nat \ {0}, maxNew : Nat, sampled : BOOLEAN]

ASSUME ConstantsAssumption ==
  /\ MaxRequests \in Nat /\ MaxSlots \in Nat \ {0} /\ Capacity \in Nat \ {0}
  /\ BatchPrefill \in BOOLEAN
  /\ Workload \subseteq Configs
  /\ Faults \subseteq FaultKinds /\ MaxFaults \in Nat

Counters == [completed : Nat, cancelled : Nat, admissions : Nat, refills : Nat]

Requests == 1..MaxRequests
Slots == 0..(MaxSlots - 1)
NoRequest == 0
NoSlot == -1
NoConfig == [prompt |-> 0, maxNew |-> 0, sampled |-> FALSE]
\* Bound: a step that keeps throwing keeps drawing.  No answer has DrawCap tokens,
\* so a generator that has reached it is told apart from every one on course.
DrawCap == Capacity
NoLogits == [seen |-> 0, finite |-> TRUE]

VARIABLES
  phase,      \* where step() is: "idle" between calls
  state, reason, cfg, generated, slotOf,  \* the Request records
  draws,      \* numbers request.random has produced
  slots,      \* slots: the request of each row
  everUsed,   \* slot_ever_used
  position,   \* KVCache::row_positions_
  storage,    \* K/V tensors of the layers: undefined, key only, or both defined
  prefix,     \* sequence length of the first layer's K/V view
  logits,     \* slot_logits
  metrics,    \* the counters that must add up
  faults      \* failures so far

requestVars == <<state, reason, cfg, generated, slotOf, draws>>
cacheVars == <<position, storage, prefix>>
vars == <<phase, requestVars, slots, everUsed, cacheVars, logits, metrics, faults>>

-----------------------------------------------------------------------------
Submitted == {r \in Requests : state[r] # "Absent"}
Pending == {r \in Requests : state[r] = "PendingPrefill"}
Decoding == {r \in Requests : state[r] = "Decoding"}
Terminal == {r \in Requests : state[r] \in {"Completed", "Cancelled"}}
ActiveAfterCompletion == {r \in Requests : state[r] \notin {"Absent", "Cancelled"}}  \* mutant
Active == Pending \cup Decoding
Occupied == {s \in Slots : slots[s] # NoRequest}
Free == Slots \ Occupied

MaxPosition(pos) == Max({pos[s] : s \in Slots})
Rank(x, S) == Cardinality({y \in S : y < x})

Fail(kind) == kind \in Faults /\ faults < MaxFaults /\ faults' = faults + 1

\* Mutants: the reset forgets the position, or the views.
ResetRowsPositionKept(rows) == UNCHANGED <<position, storage, prefix>>
ResetRowsViewsKept(rows) ==
  /\ position' = [s \in Slots |-> IF s \in rows THEN 0 ELSE position[s]]
  /\ UNCHANGED <<storage, prefix>>

\* KVCache::reset_row on each row: back to position zero, the views shrunk to
\* the longest row left.
ResetRows(rows) ==
  /\ position' = [s \in Slots |-> IF s \in rows THEN 0 ELSE position[s]]
  /\ prefix' = IF rows = {} \/ storage = "none" THEN prefix ELSE MaxPosition(position')
  /\ UNCHANGED storage

\* Mutant: release_slot forgets the request's own slot field.
ReleaseSlotsFieldKept(rs) ==
  LET rows == {slotOf[r] : r \in rs} \ {NoSlot}
  IN /\ slots' = [s \in Slots |-> IF s \in rows THEN NoRequest ELSE slots[s]]
     /\ UNCHANGED slotOf
     /\ ResetRows(rows)

\* release_slot for each request of rs that holds one.
ReleaseSlots(rs) ==
  LET rows == {slotOf[r] : r \in rs} \ {NoSlot}
  IN /\ slots' = [s \in Slots |-> IF s \in rows THEN NoRequest ELSE slots[s]]
     /\ slotOf' = [r \in Requests |-> IF r \in rs THEN NoSlot ELSE slotOf[r]]
     /\ ResetRows(rows)

Init ==
  /\ phase = "idle"
  /\ state = [r \in Requests |-> "Absent"]
  /\ reason = [r \in Requests |-> "None"]
  /\ cfg = [r \in Requests |-> NoConfig]
  /\ generated = [r \in Requests |-> <<>>]
  /\ slotOf = [r \in Requests |-> NoSlot]
  /\ draws = [r \in Requests |-> 0]
  /\ slots = [s \in Slots |-> NoRequest]
  /\ everUsed = {}
  /\ position = [s \in Slots |-> 0]
  /\ storage = "none"
  /\ prefix = 0
  /\ logits = [s \in Slots |-> NoLogits]
  /\ metrics = [completed |-> 0, cancelled |-> 0, admissions |-> 0, refills |-> 0]
  /\ faults = 0

-----------------------------------------------------------------------------
(* The caller, between steps.                                              *)

PromptFits(c) == c.prompt <= Capacity  \* mutant
Fits(c) == c.prompt + c.maxNew <= Capacity

Submit(r, c) ==
  /\ phase = "idle"
  /\ state[r] = "Absent" /\ \A q \in 1..(r - 1) : state[q] # "Absent"
  /\ Fits(c)
  /\ cfg' = [cfg EXCEPT ![r] = c]
  /\ state' = [state EXCEPT ![r] = IF c.maxNew = 0 THEN "Completed" ELSE "PendingPrefill"]
  /\ reason' = [reason EXCEPT ![r] = IF c.maxNew = 0 THEN "Length" ELSE "None"]
  /\ metrics' = IF c.maxNew = 0 THEN [metrics EXCEPT !.completed = @ + 1] ELSE metrics
  /\ UNCHANGED <<phase, generated, slotOf, draws, slots, everUsed, cacheVars, logits, faults>>

Cancel(r) ==
  /\ phase = "idle"
  /\ r \in Active
  /\ ReleaseSlots({r})
  /\ state' = [state EXCEPT ![r] = "Cancelled"]
  /\ reason' = [reason EXCEPT ![r] = "Cancelled"]
  /\ metrics' = [metrics EXCEPT !.cancelled = @ + 1]
  /\ UNCHANGED <<phase, cfg, generated, draws, everUsed, logits, faults>>

-----------------------------------------------------------------------------
(* step()                                                                  *)

StepBegin ==
  /\ phase = "idle"
  /\ Active # {}
  /\ phase' = "admit"
  /\ UNCHANGED <<requestVars, slots, everUsed, cacheVars, logits, metrics, faults>>

\* admit_pending: the pending requests as long as the oldest one, oldest first,
\* one per free row, lowest row first.
PromptLengthOfNewest == cfg[Max(Pending)].prompt  \* mutant
PromptLength == cfg[Min(Pending)].prompt
SameLength == {r \in Pending : cfg[r].prompt = PromptLength}
AdmissionLimitShort == IF BatchPrefill THEN Cardinality(Free) - 1 ELSE 1  \* mutant
AdmissionLimit == IF BatchPrefill THEN Cardinality(Free) ELSE 1
Assigned(r, s) ==
  /\ r \in SameLength /\ s \in Free
  /\ Rank(r, SameLength) = Rank(s, Free)
  /\ Rank(s, Free) < AdmissionLimit
AdmittedRows == {s \in Free : \E r \in SameLength : Assigned(r, s)}
RequestAfter(s) == (CHOOSE r \in SameLength : Assigned(r, s)) + 1  \* mutant
RequestFor(s) == CHOOSE r \in SameLength : Assigned(r, s)
AdmittedRequests == {RequestFor(s) : s \in AdmittedRows}

\* forward_prefill_cached_rows fills empty shared storage through the whole-batch
\* prefill when the batch covers every row.
WholeCachePrefill == AdmittedRows = Slots /\ storage = "none"

AdmitBatch ==
  /\ phase = "admit" /\ Pending # {} /\ Free # {}
  /\ storage # "partial"
  /\ slots' = [s \in Slots |-> IF s \in AdmittedRows THEN RequestFor(s) ELSE slots[s]]
  /\ slotOf' = [r \in Requests |->
       IF r \in AdmittedRequests
       THEN CHOOSE s \in AdmittedRows : RequestFor(s) = r ELSE slotOf[r]]
  /\ state' = [r \in Requests |-> IF r \in AdmittedRequests THEN "Decoding" ELSE state[r]]
  /\ position' = [s \in Slots |-> IF s \in AdmittedRows THEN PromptLength ELSE position[s]]
  /\ prefix' = Max({MaxPosition(position), PromptLength})
  /\ storage' = "ready"
  /\ \E nonfinite \in SUBSET (IF "nonfinite" \in Faults THEN AdmittedRows ELSE {}) :
       logits' = [s \in Slots |-> IF s \in AdmittedRows
                                  THEN [seen |-> 0, finite |-> s \notin nonfinite]
                                  ELSE logits[s]]
  /\ everUsed' = everUsed \cup AdmittedRows
  /\ metrics' = [metrics EXCEPT
       !.admissions = @ + Cardinality(AdmittedRows),
       !.refills = @ + Cardinality(AdmittedRows \cap everUsed)]
  /\ UNCHANGED <<phase, reason, cfg, generated, draws, faults>>

\* The prefill, or the copy of its logits, throws: the target rows are reset,
\* their requests stay pending and step() ends.  The shared storage may have been
\* allocated by then.  An allocation that fails between a layer's key and value
\* leaves the layer incomplete, which every later prefill refuses.
AdmitFails ==
  /\ phase = "admit" /\ Pending # {} /\ Free # {}
  /\ phase' = "idle"
  /\ \/ storage = "partial" /\ UNCHANGED <<storage, faults>>
     \/ storage # "partial" /\ Fail("prefill") /\ storage' \in {storage, "ready"}
     \/ /\ storage = "none" /\ ~WholeCachePrefill
        /\ Fail("allocate")
        /\ storage' = "partial"
  /\ position' = [s \in Slots |-> IF s \in AdmittedRows THEN 0 ELSE position[s]]
  /\ prefix' = IF storage' = "none" THEN prefix ELSE MaxPosition(position')
  /\ UNCHANGED <<requestVars, slots, everUsed, logits, metrics>>

AdmitDone ==
  /\ phase = "admit"
  /\ Pending = {} \/ Free = {}
  /\ phase' = IF Occupied = {} THEN "idle" ELSE "select"
  /\ UNCHANGED <<requestVars, slots, everUsed, cacheVars, logits, metrics, faults>>

\* select_tokens and the loop that appends.  All-greedy batches take one argmax
\* over all rows: a row of non-finite logits gives -1, and step() throws when its
\* loop reaches it, after it has appended to the rows before.  With a sampling
\* request each row is sampled in turn, and the first non-finite row throws
\* before anything is appended, but after the draws of the rows before.
AllGreedy == \A s \in Occupied : ~cfg[slots[s]].sampled
Bad == {s \in Occupied : ~logits[s].finite}
BeforeBad == {s \in Occupied : \A b \in Bad : s < b}
Selected == IF AllGreedy \/ Bad = {} THEN BeforeBad ELSE {}
Drawn == {s \in BeforeBad : cfg[slots[s]].sampled}
Holders(rows) == {slots[s] : s \in rows}
SlotHolding(r) == CHOOSE s \in Occupied : slots[s] = r
SelectedToken(r) ==
  [seen |-> logits[SlotHolding(r)].seen, draw |-> IF cfg[r].sampled THEN draws[r] ELSE 0]

\* The requests whose token is their last; a stop token is looked for first.
Full == {r \in Holders(Selected) : Len(generated[r]) + 1 = cfg[r].maxNew}
EndsCountedTwice(stopping) == Cardinality(stopping) + Cardinality(Full)  \* mutant
Ends(stopping) == Cardinality(stopping \cup Full)

SelectTokens(stopping) ==
  LET done == stopping \cup Full
  IN /\ phase = "select"
     /\ stopping \subseteq Holders(Selected)
     /\ generated' = [r \in Requests |->
          IF r \in Holders(Selected) THEN Append(generated[r], SelectedToken(r))
                                     ELSE generated[r]]
     /\ draws' = [r \in Requests |->
          IF r \in Holders(Drawn) /\ draws[r] < DrawCap THEN draws[r] + 1 ELSE draws[r]]
     /\ state' = [r \in Requests |-> IF r \in done THEN "Completed" ELSE state[r]]
     /\ reason' = [r \in Requests |-> IF r \in stopping THEN "StopToken"
                                      ELSE IF r \in Full THEN "Length" ELSE reason[r]]
     /\ metrics' = [metrics EXCEPT !.completed = @ + Ends(stopping)]
     /\ ReleaseSlots(done)
     /\ phase' = IF Bad # {} \/ done = Holders(Occupied) THEN "idle" ELSE "decode"
     /\ UNCHANGED <<cfg, everUsed, logits, faults>>

\* The survivors are the rows still occupied.  A full batch of equal positions
\* takes forward_cached, whose layers insist that the K/V view ends at the
\* position; every other batch takes forward_cached_active_rows.
FullUniform == Occupied = Slots /\ \A s, t \in Slots : position[s] = position[t]
ViewMatches == FullUniform => prefix = MaxPosition(position)
GrownPrefix == Max({prefix, MaxPosition(position) + 1})
RoomLeft == \A s \in Occupied : position[s] < Capacity

Advanced == [s \in Slots |-> IF s \in Occupied THEN position[s] + 1 ELSE position[s]]

\* Mutant: the k-th row of the compacted logits goes to slot k.
NewLogitsCompacted(rows) ==
  {[s \in Slots |-> IF s < Cardinality(rows) THEN [seen |-> logits[s].seen + 1, finite |-> TRUE]
                                            ELSE logits[s]]}

\* The logits of the rows replaced by what one more token gives, any of them
\* possibly non-finite.
NewLogits(rows) ==
  {[s \in Slots |-> IF s \in rows THEN [seen |-> logits[s].seen + 1, finite |-> s \notin nonfinite]
                                  ELSE logits[s]] :
     nonfinite \in SUBSET (IF "nonfinite" \in Faults THEN rows ELSE {})}

DecodeRows ==
  /\ phase = "decode"
  /\ ViewMatches /\ RoomLeft
  /\ phase' = "idle"
  /\ position' = Advanced
  /\ prefix' = GrownPrefix
  /\ logits' \in NewLogits(Occupied)
  /\ UNCHANGED <<requestVars, slots, everUsed, storage, metrics, faults>>

\* The decode throws before any row advances; the first layers may already
\* have grown their K/V views.
DecodeFails ==
  /\ phase = "decode"
  /\ phase' = "idle"
  /\ \/ ViewMatches /\ RoomLeft /\ Fail("decode") /\ prefix' \in {prefix, GrownPrefix}
     \/ ~(ViewMatches /\ RoomLeft) /\ UNCHANGED <<prefix, faults>>
  /\ UNCHANGED <<requestVars, slots, everUsed, position, storage, logits, metrics>>

\* The decode of some rows succeeds and all of them advance, but the copy of the
\* logits into slot_logits throws after the rows before `broken`.
CopyFails(broken) ==
  /\ phase = "decode"
  /\ ViewMatches /\ RoomLeft /\ ~FullUniform
  /\ broken \in Occupied
  /\ Fail("copy")
  /\ phase' = "idle"
  /\ position' = Advanced
  /\ prefix' = GrownPrefix
  /\ logits' \in NewLogits({s \in Occupied : s < broken})
  /\ UNCHANGED <<requestVars, slots, everUsed, storage, metrics>>

Step == \/ StepBegin \/ AdmitBatch \/ AdmitFails \/ AdmitDone
        \/ \E stopping \in SUBSET Decoding : SelectTokens(stopping)
        \/ DecodeRows \/ DecodeFails \/ \E s \in Slots : CopyFails(s)

Next == \/ \E r \in Requests, c \in Workload : Submit(r, c)
        \/ \E r \in Requests : Cancel(r)
        \/ Step

Spec == Init /\ [][Next]_vars

\* run_until_idle keeps calling step() while a request is active.
FairSpec == Spec /\ WF_vars(Step)

-----------------------------------------------------------------------------
(* Properties                                                              *)

TypeOK ==
  /\ phase \in {"idle", "admit", "select", "decode"}
  /\ state \in [Requests -> {"Absent", "PendingPrefill", "Decoding", "Completed", "Cancelled"}]
  /\ reason \in [Requests -> {"None", "Length", "StopToken", "Cancelled"}]
  /\ cfg \in [Requests -> Workload \cup {NoConfig}]
  /\ generated \in [Requests -> Seq([seen : Nat, draw : Nat])]
  /\ slotOf \in [Requests -> Slots \cup {NoSlot}]
  /\ draws \in [Requests -> 0..DrawCap]
  /\ slots \in [Slots -> Requests \cup {NoRequest}]
  /\ everUsed \subseteq Slots
  /\ position \in [Slots -> Nat]
  /\ storage \in {"none", "partial", "ready"}
  /\ prefix \in Nat
  /\ logits \in [Slots -> [seen : Nat, finite : BOOLEAN]]
  /\ metrics \in Counters
  /\ faults \in 0..MaxFaults

\* The slot table and the requests' own slot fields are inverse to each other,
\* whatever call threw: exactly the decoding requests hold a row, one each, so
\* no row is shared and none leaks (admit_pending, complete, cancel).
SlotMapConsistent ==
  /\ \A s \in Occupied : slots[s] \in Decoding /\ slotOf[slots[s]] = s
  /\ \A r \in Decoding : slotOf[r] \in Slots /\ slots[slotOf[r]] = r
  /\ \A r \in Requests \ Decoding : slotOf[r] = NoSlot

\* The cache rows follow the requests even when steps fail half way: a free row
\* is at position zero, and an occupied one holds its request's prompt, at least
\* the generated tokens its logits were computed from and at most all of them.
RowsFollowRequests ==
  /\ \A s \in Free : position[s] = 0
  /\ \A s \in Occupied :
       /\ cfg[slots[s]].prompt + logits[s].seen <= position[s]
       /\ position[s] <= cfg[slots[s]].prompt + Len(generated[slots[s]])

\* The capacity check of submit() reserves enough of the row: every later decode
\* finds room, so the capacity exceptions of the KV cache never fire.
CapacityReserved == phase = "decode" => RoomLeft

\* The counters of metrics() add up to the requests' states: no request is
\* counted twice or missed when it ends in submit(), cancel() or step(), and a
\* row counts as refilled exactly when it was admitted before.
CountersAgree ==
  /\ metrics.completed = Cardinality({r \in Requests : state[r] = "Completed"})
  /\ metrics.cancelled = Cardinality({r \in Requests : state[r] = "Cancelled"})
  /\ metrics.admissions = metrics.refills + Cardinality(everUsed)

\* Admission is first come, first served up to prompt length: a batch contains
\* the oldest pending request, and it passes over an older request only when
\* their prompts differ in length.
OldestFirst ==
  LET admitted == {r \in Pending : state'[r] = "Decoding"}
  IN admitted # {} =>
       /\ Min(Pending) \in admitted
       /\ \A r \in admitted, q \in Pending \ admitted :
            q < r => cfg[q].prompt # cfg[r].prompt
AdmissionOrder == [][OldestFirst]_vars

\* Completed and Cancelled are final: no later call, failed or not, changes the
\* answer of an ended request or gives it a row.
EndIsFinal ==
  \A r \in Terminal :
    /\ state'[r] = state[r] /\ reason'[r] = reason[r]
    /\ generated'[r] = generated[r] /\ slotOf'[r] = NoSlot
TerminalIsFinal == [][EndIsFinal]_vars

\* As long as no decode failed, the K/V views end at the longest row whenever
\* control is between calls, through resets, refills and failed prefills: the
\* uniform decode, which insists on it, never refuses a batch.
ViewsEndAtLongestRow ==
  prefix = IF storage = "none" THEN 0 ELSE MaxPosition(position)

\* A request's answer is the one it would get alone ("the scheduled answer is the
\* same as calling generate() for each", docs/dev/serving-scheduler): its k-th
\* token was selected after exactly its k - 1 earlier tokens, with that many draws.
OutputMatchesReference ==
  \A r \in Requests : \A k \in 1..Len(generated[r]) :
    generated[r][k] = [seen |-> k - 1, draw |-> IF cfg[r].sampled THEN k - 1 ELSE 0]

\* The scheduler matches the state machine of the reference scheduler.
Lifecycle == INSTANCE RequestLifecycle
             WITH state <- state, reason <- reason, cfg <- cfg, generated <- generated
RefinesLifecycle == Lifecycle!LifecycleSpec

\* Every submitted request ends, however rows are refilled and batches mixed, if
\* the caller keeps calling step().
EveryRequestEnds == \A r \in Requests : (r \in Active) ~> (r \in Terminal)
=============================================================================
