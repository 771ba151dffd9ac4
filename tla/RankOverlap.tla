---------------------------- MODULE RankOverlap ----------------------------
(***************************************************************************)
(* Training with one process per rank, where the gradient buckets are      *)
(* averaged across ranks while the backward pass is still running.         *)
(*                                                                         *)
(* A rank's host code runs the training loop.  Its device has two streams: *)
(* the default stream does the backward pass, the communication stream     *)
(* packs buckets and takes part in the all-reduces.  An all-reduce is one  *)
(* event of all ranks: it happens when each has come to it.  The first     *)
(* step of a run reduces after the backward pass and makes the bucket      *)
(* plan; later steps overlap.                                              *)
(*                                                                         *)
(* A bucket's contents are the gradients that are in it, each a rank, a    *)
(* step and the bucket it belongs to.                                      *)
(***************************************************************************)
EXTENDS Integers, Sequences, SequencesExt, FiniteSets, FiniteSetsExt

CONSTANTS Ranks,
          Uses,         \* per parameter the places of the graph that add to its gradient
          Ranges,       \* the buckets, each a set of parameters
          MaxSteps,     \* options.steps
          MaxFailures   \* bound: ranks that throw or die

Parameters == DOMAIN Uses
Buckets == DOMAIN Ranges

ASSUME OverlapAssumption ==
  /\ Ranks # {} /\ IsFiniteSet(Ranks)
  /\ Uses \in Seq(Nat \ {0})
  /\ Ranges \in Seq((SUBSET Parameters) \ {{}}) /\ Ranges # <<>>
  /\ \A p \in Parameters : \E b \in Buckets : p \in Ranges[b]
  /\ \A b, c \in Buckets : b # c => Ranges[b] \cap Ranges[c] = {}
  /\ MaxSteps \in Nat /\ MaxFailures \in Nat

VARIABLES
  pc,         \* where run_rank is
  step,       \* the training step, from 1
  planned,    \* the bucket plan is initialized
  active,     \* overlap_active
  left,       \* remaining_contributions of each parameter
  ready,      \* parameter_ready
  next,       \* next_overlap_range; in a synchronous step the bucket at hand
  work,       \* the default stream: gradients to add up and events to record
  sum,        \* contributions the device has added up, per parameter
  comm,       \* the communication stream: buckets to pack and reduce, with their step
  packed,     \* its first bucket is packed
  contents,   \* what each bucket holds
  aborted,    \* the rank's communicator was aborted
  raised,     \* an exception has left the training loop and unwinds run_rank
  failures

hostVars == <<pc, step, planned, active, left, ready, next>>
deviceVars == <<work, sum, comm, packed, contents>>
vars == <<hostVars, deviceVars, aborted, raised, failures>>

Stopped == {"done", "failed", "killed"}
Jobs == [bucket : Buckets, step : 1..MaxSteps]
Tasks == [op : {"add"}, of : Parameters] \cup [op : {"record"}, of : Buckets]
Gradients == Ranks \X (1..MaxSteps) \X Buckets
NoContribution == [p \in Parameters |-> 0]

Init ==
  /\ pc = [r \in Ranks |-> "begin"]
  /\ step = [r \in Ranks |-> 0]
  /\ planned = [r \in Ranks |-> FALSE]
  /\ active = [r \in Ranks |-> FALSE]
  /\ left = [r \in Ranks |-> NoContribution]
  /\ ready = [r \in Ranks |-> {}]
  /\ next = [r \in Ranks |-> 0]
  /\ work = [r \in Ranks |-> <<>>]
  /\ sum = [r \in Ranks |-> NoContribution]
  /\ comm = [r \in Ranks |-> <<>>]
  /\ packed = [r \in Ranks |-> FALSE]
  /\ contents = [r \in Ranks |-> [b \in Buckets |-> {}]]
  /\ aborted = [r \in Ranks |-> FALSE]
  /\ raised = [r \in Ranks |-> FALSE]
  /\ failures = 0

Goto(r, where) == pc' = [pc EXCEPT ![r] = where]
Job(r, b) == [bucket |-> b, step |-> step[r]]

-----------------------------------------------------------------------------
(* The training loop of a rank.                                            *)

\* zero_grad, and begin_overlap_step once there is a plan.
BeginStep(r) ==
  /\ pc[r] = "begin" /\ step[r] < MaxSteps
  /\ Goto(r, "backward")
  /\ step' = [step EXCEPT ![r] = @ + 1]
  /\ left' = [left EXCEPT ![r] = Uses]
  /\ sum' = [sum EXCEPT ![r] = NoContribution]
  /\ active' = [active EXCEPT ![r] = planned[r]]
  /\ ready' = [ready EXCEPT ![r] = {}]
  /\ next' = [next EXCEPT ![r] = IF planned[r] THEN Len(Ranges) ELSE 0]
  /\ UNCHANGED <<planned, work, comm, packed, contents, aborted, raised, failures>>

Finished(r) ==
  /\ pc[r] = "begin" /\ step[r] = MaxSteps
  /\ Goto(r, "done")
  /\ UNCHANGED <<step, planned, active, left, ready, next, deviceVars, aborted, raised, failures>>

\* The backward pass of a parameter's use adds to its gradient, and may free what
\* it replaces: hipFree waits for the whole device.
FreesOrNot(r) == pc' = pc \/ Goto(r, "freeing")
Add(r, p) == Append(work[r], [op |-> "add", of |-> p])

Accumulate(r, p) ==
  /\ pc[r] = "backward" /\ left[r][p] > 0
  /\ left[r][p] > 1 \/ ~active[r]
  /\ left' = [left EXCEPT ![r][p] = @ - 1]
  /\ work' = [work EXCEPT ![r] = Add(r, p)]
  /\ FreesOrNot(r)
  /\ UNCHANGED <<step, planned, active, ready, next, sum, comm, packed, contents,
                 aborted, raised, failures>>

\* Buckets are enqueued from the last to the first, each when it and all after it
\* are ready.  Mutants: at most one bucket is enqueued for a ready parameter; a
\* bucket is enqueued as soon as it is ready; the indices are one off.
Complete(b, done) == Ranges[b] \subseteq done
NextOfOne(r, done) ==
  IF next[r] > 0 /\ Complete(next[r], done) THEN next[r] - 1 ELSE next[r]
NextRange(r, done) == Max({b \in 0 .. next[r] : b = 0 \/ (b \in Buckets /\ ~Complete(b, done))})
EnqueuedWhenReady(r, done) ==
  SetToSeq({Job(r, b) : b \in {c \in Buckets : Complete(c, done) /\ ~Complete(c, ready[r])}})
EnqueuedOneOff(r, done) ==
  [i \in 1 .. next[r] - NextRange(r, done) |-> Job(r, next[r] - i)]
Enqueued(r, done) ==
  [i \in 1 .. next[r] - NextRange(r, done) |-> Job(r, next[r] + 1 - i)]

\* The last contribution calls the hook: mark_parameter_ready.
LastContribution(r, p) ==
  /\ pc[r] = "backward" /\ left[r][p] = 1 /\ active[r]
  /\ left' = [left EXCEPT ![r][p] = 0]
  /\ LET done == ready[r] \cup {p}
         recorded == {b \in Buckets : p \in Ranges[b] /\ Complete(b, done)}
     IN /\ ready' = [ready EXCEPT ![r] = done]
        /\ work' = [work EXCEPT ![r] =
             Add(r, p) \o SetToSeq({[op |-> "record", of |-> b] : b \in recorded})]
        /\ next' = [next EXCEPT ![r] = NextRange(r, done)]
        /\ comm' = [comm EXCEPT ![r] = @ \o Enqueued(r, done)]
  /\ FreesOrNot(r)
  /\ UNCHANGED <<step, planned, active, sum, packed, contents, aborted, raised, failures>>

DeviceIdle(r) == work[r] = <<>> /\ comm[r] = <<>>
Freed(r) ==
  /\ pc[r] = "freeing" /\ DeviceIdle(r)
  /\ Goto(r, "backward")
  /\ UNCHANGED <<step, planned, active, left, ready, next, deviceVars, aborted, raised, failures>>

EndBackward(r) ==
  /\ pc[r] = "backward" /\ left[r] = NoContribution
  /\ Goto(r, IF active[r] THEN "finish" ELSE "settle")
  /\ UNCHANGED <<step, planned, active, left, ready, next, deviceVars, aborted, raised, failures>>

\* finish_overlap_step throws before the last bucket is enqueued, else it waits for
\* the communication stream.
CommNotAwaited(r) == TRUE  \* mutant
CommDrained(r) == comm[r] = <<>>
FinishOverlap(r) ==
  /\ pc[r] = "finish" /\ next[r] = 0 /\ CommDrained(r)
  /\ active' = [active EXCEPT ![r] = FALSE]
  /\ Goto(r, "optimizer")
  /\ UNCHANGED <<step, planned, left, ready, next, deviceVars, aborted, raised, failures>>

\* A synchronous step waits for its device and reduces bucket after bucket.
Settle(r) ==
  /\ pc[r] = "settle" /\ DeviceIdle(r)
  /\ next' = [next EXCEPT ![r] = 1]
  /\ planned' = [planned EXCEPT ![r] = TRUE]
  /\ Goto(r, "reduce")
  /\ UNCHANGED <<step, active, left, ready, deviceVars, aborted, raised, failures>>

Reduce(r) ==
  /\ pc[r] = "reduce"
  /\ comm' = [comm EXCEPT ![r] = Append(@, Job(r, next[r]))]
  /\ Goto(r, "await")
  /\ UNCHANGED <<step, planned, active, left, ready, next, work, sum, packed, contents,
                 aborted, raised, failures>>

Await(r) ==
  /\ pc[r] = "await" /\ comm[r] = <<>>
  /\ IF next[r] < Len(Ranges)
     THEN Goto(r, "reduce") /\ next' = [next EXCEPT ![r] = @ + 1]
     ELSE Goto(r, "optimizer") /\ next' = [next EXCEPT ![r] = 0]
  /\ UNCHANGED <<step, planned, active, left, ready, deviceVars, aborted, raised, failures>>

\* optimizer.step() reads the buckets; the loop then waits for the device.
Optimize(r) ==
  /\ pc[r] = "optimizer" /\ work[r] = <<>>
  /\ Goto(r, "begin")
  /\ UNCHANGED <<step, planned, active, left, ready, next, deviceVars, aborted, raised, failures>>

-----------------------------------------------------------------------------
(* The devices.                                                            *)

Execute(r) ==
  /\ work[r] # <<>>
  /\ sum' = IF Head(work[r]).op = "add" THEN [sum EXCEPT ![r][Head(work[r]).of] = @ + 1]
            ELSE sum
  /\ work' = [work EXCEPT ![r] = Tail(@)]
  /\ UNCHANGED <<hostVars, comm, packed, contents, aborted, raised, failures>>

\* Mutant: the communication stream does not wait for the bucket's event.
NoEvent(r, b) == TRUE
EventPassed(r, b) == [op |-> "record", of |-> b] \notin ToSet(work[r])

\* Copies the gradients as they are.
Pack(r) ==
  /\ comm[r] # <<>> /\ ~packed[r]
  /\ LET b == Head(comm[r]).bucket
     IN /\ EventPassed(r, b)
        /\ contents' = [contents EXCEPT ![r][b] =
             IF \A p \in Ranges[b] : sum[r][p] = Uses[p] THEN {<<r, step[r], b>>} ELSE {}]
  /\ packed' = [packed EXCEPT ![r] = TRUE]
  /\ UNCHANGED <<hostVars, work, sum, comm, aborted, raised, failures>>

AllReduce ==
  /\ \A r \in Ranks : comm[r] # <<>> /\ packed[r] /\ ~aborted[r]
  /\ LET mine(r) == Head(comm[r]).bucket
         average == UNION {contents[r][mine(r)] : r \in Ranks}
     IN contents' = [r \in Ranks |-> [contents[r] EXCEPT ![mine(r)] = average]]
  /\ comm' = [r \in Ranks |-> Tail(comm[r])]
  /\ packed' = [r \in Ranks |-> FALSE]
  /\ UNCHANGED <<hostVars, work, sum, aborted, raised, failures>>

\* The all-reduce of an aborted communicator ends without a result.
AbortedReduce(r) ==
  /\ comm[r] # <<>> /\ packed[r] /\ aborted[r]
  /\ comm' = [comm EXCEPT ![r] = Tail(@)]
  /\ packed' = [packed EXCEPT ![r] = FALSE]
  /\ UNCHANGED <<hostVars, work, sum, contents, aborted, raised, failures>>

-----------------------------------------------------------------------------
(* Failures.  An exception of the loop destroys what the loop and the      *)
(* backward pass hold, whose tensors hipFree releases: it waits for the     *)
(* device, queued all-reduces included.  Only then comes the plan, whose    *)
(* destructor calls clear().                                                *)

\* Anything of the step throws; the communicator's synchronize() aborts it first.
Throw(r) ==
  /\ pc[r] \in {"backward", "freeing", "finish", "settle", "reduce", "await", "optimizer"}
  /\ ~raised[r] /\ failures < MaxFailures
  /\ failures' = failures + 1
  /\ raised' = [raised EXCEPT ![r] = TRUE]
  /\ \/ pc[r] \in {"finish", "await"} /\ aborted' = [aborted EXCEPT ![r] = TRUE]
     \/ UNCHANGED aborted
  /\ UNCHANGED <<hostVars, deviceVars>>

\* The tensors are free; clear() aborts the communicator of an active overlap and waits
\* for a device that is idle by now.  The process exits with status 1.
Clear(r) ==
  /\ raised[r] /\ pc[r] \notin Stopped /\ DeviceIdle(r)
  /\ aborted' = [aborted EXCEPT ![r] = @ \/ active[r]]
  /\ active' = [active EXCEPT ![r] = FALSE]
  /\ planned' = [planned EXCEPT ![r] = FALSE]
  /\ next' = [next EXCEPT ![r] = 0]
  /\ Goto(r, "failed")
  /\ UNCHANGED <<step, left, ready, deviceVars, raised, failures>>

\* A process that dies takes its work with it.
Dies(r, how) ==
  /\ pc[r] \notin Stopped
  /\ Goto(r, how)
  /\ work' = [work EXCEPT ![r] = <<>>]
  /\ comm' = [comm EXCEPT ![r] = <<>>]
  /\ packed' = [packed EXCEPT ![r] = FALSE]
  /\ UNCHANGED <<step, planned, active, left, ready, next, sum, contents, aborted, raised>>

Crash(r) ==
  /\ failures < MaxFailures
  /\ failures' = failures + 1
  /\ Dies(r, "failed")

\* The launcher ends the group at the first status that is not zero; it does not
\* when it looks at success only (mutant).
SuccessOnly == \A r \in Ranks : pc[r] = "failed"
GroupFailed == \E r \in Ranks : pc[r] = "failed"
Terminate(r) == GroupFailed /\ Dies(r, "killed") /\ UNCHANGED failures

Loop(r) ==
  \/ BeginStep(r) \/ Finished(r) \/ Freed(r) \/ EndBackward(r) \/ FinishOverlap(r)
  \/ \E p \in Parameters : Accumulate(r, p) \/ LastContribution(r, p)
  \/ Settle(r) \/ Reduce(r) \/ Await(r) \/ Optimize(r)
Host(r) == (~raised[r] /\ Loop(r)) \/ Clear(r)
Device(r) == Execute(r) \/ Pack(r) \/ AbortedReduce(r)

Runs == (\E r \in Ranks : Host(r) \/ Device(r)) \/ AllReduce

Next == Runs \/ \E r \in Ranks : Throw(r) \/ Crash(r) \/ Terminate(r)

\* Processes and devices do not pause.  Every action uses up something bounded, so
\* that fairness of all of them together is fairness of each.
Spec == Init /\ [][Next]_vars /\ WF_vars(Runs)

-----------------------------------------------------------------------------
(* Properties                                                              *)

TypeOK ==
  /\ pc \in [Ranks -> {"begin", "backward", "freeing", "finish", "settle", "reduce", "await",
                       "optimizer"} \cup Stopped]
  /\ step \in [Ranks -> 0..MaxSteps]
  /\ planned \in [Ranks -> BOOLEAN] /\ active \in [Ranks -> BOOLEAN]
  /\ left \in [Ranks -> [Parameters -> Nat]]
  /\ ready \in [Ranks -> SUBSET Parameters]
  /\ next \in [Ranks -> 0..Len(Ranges)]
  /\ work \in [Ranks -> Seq(Tasks)]
  /\ sum \in [Ranks -> [Parameters -> Nat]]
  /\ comm \in [Ranks -> Seq(Jobs)]
  /\ packed \in [Ranks -> BOOLEAN]
  /\ contents \in [Ranks -> [Buckets -> SUBSET Gradients]]
  /\ aborted \in [Ranks -> BOOLEAN] /\ raised \in [Ranks -> BOOLEAN]
  /\ failures \in 0..MaxFailures

\* All ranks enter the same collectives in the same order, whatever the order in
\* which their gradients become ready: the k-th bucket that waits in one rank's
\* stream is the k-th of every other's.
CollectivesAgree ==
  \A q, r \in {u \in Ranks : ~aborted[u]} :
    \A k \in DOMAIN comm[q] \cap DOMAIN comm[r] : comm[q][k] = comm[r][k]

\* The optimizer of a rank reads, in every bucket, the complete gradients of all
\* ranks, of this step.
GradientsAreGlobal ==
  \A r \in Ranks : pc[r] = "optimizer" =>
    \A b \in Buckets : contents[r][b] = Ranks \X {step[r]} \X {b}

\* finish_overlap_step never throws: when the backward pass is over every bucket was
\* enqueued.
AllBucketsEnqueued == \A r \in Ranks : pc[r] = "finish" => next[r] = 0

\* A rank is never two steps ahead of another.
RanksInLockstep == \A q, r \in Ranks : step[q] <= step[r] + 1

\* Without a launcher, a rank that throws comes to its end when synchronize() threw,
\* which aborts its communicator, and otherwise as long as no other rank has failed:
\* the others still enter the all-reduces its destructors wait for.
Failed(r) == raised[r] \/ pc[r] \in {"failed", "killed"}
UnwindingEnds ==
  \A r \in Ranks :
    raised[r] ~> \/ pc[r] \in Stopped
                 \/ ~aborted[r] /\ \E q \in Ranks \ {r} : Failed(q)

\* The ranks never wait for each other in a circle, in the all-reduces and where the
\* host waits for its device, and under the launcher one failure ends the group.
Launched == WF_vars(\E r \in Ranks : Terminate(r))
GroupEnds == Launched => <>(\A r \in Ranks : pc[r] \in Stopped)
=============================================================================
