--------------------------- MODULE ProfileScopes ----------------------------
(***************************************************************************)
(* Profile scopes of python/microllm/profiling.py: the spans they write,   *)
(* the ROCTX ranges they open for the profiler, the completion of the HIP  *)
(* events they record, and the attribution of kernels to ranges.           *)
(*                                                                         *)
(* A scope belongs to a task: a thread, or one of the asyncio tasks that   *)
(* share a thread and yield at every await.  The nesting depth is a        *)
(* context variable: a task has its own, and starts with its creator's.    *)
(* The ROCTX ranges are a stack of the thread, which a pop takes no handle *)
(* into: a task may pop another's range.  A scope that has been exited may *)
(* be completed, closed and observed from any thread.                      *)
(***************************************************************************)
EXTENDS Integers, Sequences, SequencesExt, FiniteSets

CONSTANTS Tasks, Threads,
          FirstTask, FirstThread,
          NumScopes,      \* bound: scope objects, each entered once
          HipScopes,      \* those that are HipEventProfileScopes
          NumObservers,   \* bound: threads that observe_async() may start
          MaxKernels,     \* bound
          MaxFailures,    \* bound: calls that fail
          NoCaller        \* no thread

Scopes == 1 .. NumScopes
Observers == 1 .. NumObservers
Callers == Threads \cup Observers

ASSUME ProfileAssumption ==
  /\ FirstTask \in Tasks /\ FirstThread \in Threads
  /\ NumScopes \in Nat /\ HipScopes \subseteq Scopes /\ NumObservers \in Nat
  /\ MaxKernels \in Nat /\ MaxFailures \in Nat
  /\ NoCaller \notin Callers /\ Threads \cap Observers = {}

VARIABLES
  thread,    \* where each task runs, if it has been created
  base,      \* how many scopes its creator was inside when a task was created
  nesting,   \* the scopes a task is inside, the innermost last
  depth,     \* _DEPTH of each task
  scope,     \* the scope objects
  lines,     \* how many lines of the output file each scope has written
  ranges,    \* the ROCTX ranges open in each thread
  markers,   \* the profiler's markers
  kernels,   \* the launches the profiler saw
  now,       \* a clock that ticks with every push, pop and launch
  events,    \* of a scope's two HIP events, where the finish event is
  call,      \* what each thread is doing with an exited scope
  future,    \* what observe_async() returned, by the observer that completes it
  failures

task == <<thread, base, nesting, depth>>
trace == <<ranges, markers, kernels, now>>
completion == <<events, call, future>>
vars == <<task, trace, completion, scope, lines, failures>>

NewScope == [state |-> "new", depth |-> 0, thread |-> NoCaller,
             emitted |-> FALSE, push |-> 0, pop |-> 0, popError |-> FALSE,
             recorded |-> FALSE, lock |-> NoCaller, future |-> NoCaller]
\* "starts" is the future whose thread the caller is about to start.
At(what, s) == [at |-> what, of |-> s, starts |-> NoCaller]
Idle == At("idle", 0)

Init ==
  /\ thread = [t \in Tasks |-> IF t = FirstTask THEN FirstThread ELSE NoCaller]
  /\ base = [t \in Tasks |-> 0]
  /\ nesting = [t \in Tasks |-> <<>>]
  /\ depth = [t \in Tasks |-> 0]
  /\ scope = [s \in Scopes |-> NewScope]
  /\ lines = [s \in Scopes |-> 0]
  /\ ranges = [h \in Threads |-> <<>>]
  /\ markers = {} /\ kernels = {} /\ now = 0
  /\ events = [s \in HipScopes |-> "none"]
  /\ call = [c \in Callers |-> Idle]
  /\ future = [o \in Observers |-> "none"]
  /\ failures = 0

Fails == failures < MaxFailures /\ failures' = failures + 1
FailsIf(failed) == IF failed THEN Fails ELSE UNCHANGED failures

-----------------------------------------------------------------------------
(* The ROCTX runtime and the profiler.                                     *)

Pushed(h, s, at) == [ranges EXCEPT ![h] = Append(@, [name |-> s, start |-> at])]
Marker(range, h, end) ==
  [name |-> range.name, thread |-> h, start |-> range.start, end |-> end]

\* Pops whatever range the thread opened last: there is one, for every scope that has
\* emitted pushes once and pops at most once.
PopLast(h) ==
  /\ ranges' = [ranges EXCEPT ![h] = Front(@)]
  /\ markers' = markers \cup {Marker(Last(ranges[h]), h, now + 1)}

\* roctxRangePop takes no handle, and a failure of it is only noted.
Pop(h, popped) ==
  /\ now' = now + 1
  /\ IF popped THEN ranges[h] # <<>> /\ PopLast(h) ELSE UNCHANGED <<ranges, markers>>

-----------------------------------------------------------------------------
(* Entering.                                                               *)

\* A call that blocks keeps every task of its thread from running.
Free(t) == thread[t] # NoCaller /\ call[thread[t]] = Idle
IsNext(s) == scope[s].state = "new" /\ \A r \in Scopes : r < s => scope[r].state # "new"

\* asyncio.create_task() and asyncio.to_thread() run the new task, in its creator's or
\* another thread, in a copy of the creator's context.  (A bare thread, whose context is
\* empty, is a task that was created outside every scope.)
Spawn(t, u, h) ==
  /\ Free(t) /\ thread[u] = NoCaller
  /\ thread' = [thread EXCEPT ![u] = h]
  /\ depth' = [depth EXCEPT ![u] = depth[t]]
  /\ base' = [base EXCEPT ![u] = base[t] + Len(nesting[t])]
  /\ UNCHANGED <<nesting, trace, completion, scope, lines, failures>>

Enters(t, s) ==
  /\ nesting' = [nesting EXCEPT ![t] = Append(@, s)]
  /\ depth' = [depth EXCEPT ![t] = @ + 1]
  /\ UNCHANGED <<thread, base>>
Entered(t, state, emits) ==
  [NewScope EXCEPT !.state = state, !.depth = depth[t], !.thread = thread[t],
                   !.emitted = emits, !.push = IF emits THEN now + 1 ELSE 0]

\* __enter__() of either class; a push that fails or that is not possible does not emit.
Enter(t, s, emits) ==
  /\ Free(t) /\ IsNext(s)
  /\ Enters(t, s)
  /\ IF emits THEN now' = now + 1 /\ ranges' = Pushed(thread[t], s, now + 1)
     ELSE UNCHANGED <<now, ranges>>
  /\ scope' = [scope EXCEPT ![s] = Entered(t, "open", emits)]
  /\ events' = IF s \in HipScopes THEN [events EXCEPT ![s] = "open"] ELSE events
  /\ UNCHANGED <<lines, markers, kernels, call, future, failures>>

\* The range of a failed entry is popped at once; if that fails, it stays open.
OpenAndFinishRange(h, s, popped) ==
  /\ now' = now + 2
  /\ IF popped
     THEN /\ markers' = markers \cup {Marker([name |-> s, start |-> now + 1], h, now + 2)}
          /\ UNCHANGED ranges
     ELSE ranges' = Pushed(h, s, now + 1) /\ UNCHANGED markers

\* The start event cannot be recorded: the range and the depth are taken back and the
\* events closed.
EnterFails(t, s, emits, popped) ==
  /\ Free(t) /\ IsNext(s) /\ s \in HipScopes /\ Fails
  /\ IF emits THEN OpenAndFinishRange(thread[t], s, popped)
     ELSE popped /\ UNCHANGED <<now, ranges, markers>>
  /\ scope' = [scope EXCEPT ![s] =
                 [Entered(t, "failed", emits) EXCEPT !.pop = IF emits THEN now + 2 ELSE 0,
                                                     !.popError = ~popped]]
  /\ events' = [events EXCEPT ![s] = "closed"]
  /\ UNCHANGED <<task, lines, kernels, call, future>>

-----------------------------------------------------------------------------
(* Exiting the innermost scope.                                            *)

Leaves(t) ==
  /\ nesting' = [nesting EXCEPT ![t] = Front(@)]
  /\ depth' = [depth EXCEPT ![t] = scope[Last(nesting[t])].depth]
  /\ UNCHANGED <<thread, base>>

\* Mutant: the range stays open.
LeaveRange(t, s, popped) ==
  popped /\ now' = now + (IF scope[s].emitted THEN 1 ELSE 0) /\ UNCHANGED <<ranges, markers>>
FinishRange(t, s, popped) ==
  IF scope[s].emitted THEN Pop(thread[t], popped)
  ELSE popped /\ UNCHANGED <<now, ranges, markers>>
Exited(s, state, popped) ==
  [scope EXCEPT ![s] = [@ EXCEPT !.state = state, !.popError = ~popped,
                                 !.pop = IF scope[s].emitted THEN now + 1 ELSE 0]]
IsInnermost(t, s) == nesting[t] # <<>> /\ s = Last(nesting[t])

\* ProfileScope.__exit__(); the line may fail to be written.
Exit(t, s, popped, written) ==
  /\ Free(t) /\ IsInnermost(t, s) /\ s \notin HipScopes
  /\ Leaves(t) /\ FinishRange(t, s, popped)
  /\ FailsIf(~popped \/ ~written)
  /\ scope' = Exited(s, "exited", popped)
  /\ lines' = IF written THEN [lines EXCEPT ![s] = @ + 1] ELSE lines
  /\ UNCHANGED <<kernels, completion>>

\* HipEventProfileScope.__exit__(): after an exception in its body it waits at once.
HipExit(t, s, popped, exception) ==
  /\ Free(t) /\ IsInnermost(t, s) /\ s \in HipScopes
  /\ Leaves(t) /\ FinishRange(t, s, popped)
  /\ FailsIf(~popped)
  /\ scope' = Exited(s, "exited", popped)
  /\ events' = [events EXCEPT ![s] = "recorded"]
  /\ call' = IF exception THEN [call EXCEPT ![thread[t]] = At("wait", s)] ELSE call
  /\ UNCHANGED <<lines, kernels, future>>

\* The finish event cannot be recorded or queried.
HipExitFails(t, s, popped) ==
  /\ Free(t) /\ IsInnermost(t, s) /\ s \in HipScopes /\ Fails
  /\ Leaves(t) /\ FinishRange(t, s, popped)
  /\ scope' = Exited(s, "failed", popped)
  /\ events' = [events EXCEPT ![s] = "closed"]
  /\ UNCHANGED <<lines, kernels, call, future>>

Launch(t) ==
  /\ Free(t) /\ Cardinality(kernels) < MaxKernels
  /\ now' = now + 1
  /\ LET open == ranges[thread[t]]
     IN kernels' = kernels \cup {[thread |-> thread[t], time |-> now + 1,
                                  within |-> IF open = <<>> THEN 0 ELSE Last(open).name]}
  /\ UNCHANGED <<task, scope, lines, ranges, markers, completion, failures>>

\* The stream comes to the finish event.
Finish(s) ==
  /\ events[s] = "recorded"
  /\ events' = [events EXCEPT ![s] = "done"]
  /\ UNCHANGED <<task, trace, scope, lines, call, future, failures>>

-----------------------------------------------------------------------------
(* Completing an exited scope, from any thread.                            *)

Running == {thread[t] : t \in Tasks} \ {NoCaller}
CompletionOnly == UNCHANGED <<task, trace>>
Submitted(s) == s \in HipScopes /\ scope[s].state = "exited"
Doing(c, what, s) == call[c] = At(what, s)
Does(c, what, s) == call' = [call EXCEPT ![c] = At(what, s)]

\* How observe() ends.  Mutant: it only sets results.
NoException(c) == UNCHANGED future
SetException(c) ==
  future' = IF c \in Observers THEN [future EXCEPT ![c] = "exception"] ELSE future
SetResult(c) ==
  future' = IF c \in Observers THEN [future EXCEPT ![c] = "result"] ELSE future

Returns(c) == call' = [call EXCEPT ![c] = Idle] /\ SetResult(c)
Raises(c) == call' = [call EXCEPT ![c] = Idle] /\ SetException(c)

Wait(u, s) ==
  /\ call[u] = Idle /\ Submitted(s)
  /\ Does(u, "wait", s)
  /\ CompletionOnly /\ UNCHANGED <<scope, lines, events, future, failures>>

\* Mutant: _completion_lock is not taken.
NoLock(s) == TRUE
LockFree(s) == scope[s].lock = NoCaller

Lock(c, s) ==
  /\ Doing(c, "wait", s) /\ LockFree(s)
  /\ IF scope[s].recorded THEN Returns(c) /\ UNCHANGED scope
     ELSE /\ scope' = [scope EXCEPT ![s].lock = c]
          /\ Does(c, "sync", s) /\ UNCHANGED future
  /\ CompletionOnly /\ UNCHANGED <<lines, events, failures>>

Synchronize(c, s) ==
  /\ Doing(c, "sync", s) /\ events[s] = "done"
  /\ Does(c, "write", s)
  /\ CompletionOnly /\ UNCHANGED <<scope, lines, events, future, failures>>

Write(c, s) ==
  /\ Doing(c, "write", s)
  /\ lines' = [lines EXCEPT ![s] = @ + 1]
  /\ scope' = [scope EXCEPT ![s].recorded = TRUE, ![s].lock = NoCaller]
  /\ Returns(c)
  /\ CompletionOnly /\ UNCHANGED <<events, failures>>

\* synchronize(), elapsed_ms_since() or the file raises.
WaitFails(c, s) ==
  /\ Doing(c, "sync", s) \/ Doing(c, "write", s)
  /\ Fails
  /\ scope' = [scope EXCEPT ![s].lock = NoCaller]
  /\ Raises(c)
  /\ CompletionOnly /\ UNCHANGED <<lines, events>>

\* RULE of the callers: nobody closes a scope that is being polled.
Unpolled(s) == \A c \in Callers : ~Doing(c, "poll", s)

\* Mutant: close() does not wait for the record.
AnyTime(s) == scope[s].state = "exited"
HasRecord(s) == scope[s].recorded

Close(u, s) ==
  /\ call[u] = Idle /\ s \in HipScopes /\ HasRecord(s) /\ LockFree(s) /\ Unpolled(s)
  /\ events[s] # "closed"
  /\ events' = [events EXCEPT ![s] = "closed"]
  /\ CompletionOnly /\ UNCHANGED <<scope, lines, call, future, failures>>

\* ready(): the record is read without the lock.
Poll(u, s) ==
  /\ call[u] = Idle /\ Submitted(s) /\ ~scope[s].recorded
  /\ Does(u, "poll", s)
  /\ CompletionOnly /\ UNCHANGED <<scope, lines, events, future, failures>>
PollEnds(u, s) ==
  /\ Doing(u, "poll", s)
  /\ call' = [call EXCEPT ![u] = Idle]
  /\ CompletionOnly /\ UNCHANGED <<scope, lines, events, future, failures>>

\* observe_async() reads the future without a lock: two callers may each start a thread.
Observe(u, s) ==
  /\ call[u] = Idle /\ Submitted(s) /\ scope[s].future = NoCaller
  /\ Does(u, "observe", s)
  /\ CompletionOnly /\ UNCHANGED <<scope, lines, events, future, failures>>
IsFresh(o) == future[o] = "none" /\ \A p \in Observers : p < o => future[p] # "none"

\* It stores the future before it starts the thread, and later calls return what is
\* stored.
StoreFuture(u, o, s) ==
  /\ Doing(u, "observe", s) /\ IsFresh(o)
  /\ future' = [future EXCEPT ![o] = "stored"]
  /\ scope' = [scope EXCEPT ![s].future = o]
  /\ call' = [call EXCEPT ![u] = [at |-> "start", of |-> s, starts |-> o]]
  /\ CompletionOnly /\ UNCHANGED <<lines, events, failures>>

Starting(u, o, s) == call[u] = [at |-> "start", of |-> s, starts |-> o]
StartThread(u, o, s) ==
  /\ Starting(u, o, s)
  /\ future' = [future EXCEPT ![o] = "pending"]
  /\ call' = [call EXCEPT ![u] = Idle, ![o] = At("wait", s)]
  /\ CompletionOnly /\ UNCHANGED <<scope, lines, events, failures>>

\* Thread.start() raises: the future stays where it is stored.
StartFails(u, o, s) ==
  /\ Starting(u, o, s) /\ Fails
  /\ future' = [future EXCEPT ![o] = "orphaned"]
  /\ call' = [call EXCEPT ![u] = Idle]
  /\ CompletionOnly /\ UNCHANGED <<scope, lines, events>>

Progress(c) ==
  \E s \in HipScopes :
    \/ Lock(c, s) \/ Synchronize(c, s) \/ Write(c, s) \/ WaitFails(c, s)
    \/ \E o \in Observers : StoreFuture(c, o, s) \/ StartThread(c, o, s) \/ StartFails(c, o, s)

Next ==
  \/ \E t \in Tasks :
       \/ Launch(t)
       \/ \E u \in Tasks, h \in Threads : Spawn(t, u, h)
       \/ \E s \in Scopes :
            \E a, b \in BOOLEAN :
              \/ Enter(t, s, a) \/ EnterFails(t, s, a, b)
              \/ Exit(t, s, a, b) \/ HipExit(t, s, a, b) \/ HipExitFails(t, s, a)
  \/ \E s \in HipScopes :
       \/ Finish(s)
       \/ \E u \in Running :
            Wait(u, s) \/ Close(u, s) \/ Poll(u, s) \/ PollEnds(u, s) \/ Observe(u, s)
  \/ \E c \in Callers : Progress(c)

Spec == Init /\ [][Next]_vars
\* The stream runs, and so do the threads.
FairSpec ==
  /\ Spec
  /\ \A s \in HipScopes : WF_vars(Finish(s))
  /\ \A c \in Callers : WF_vars(Progress(c))

-----------------------------------------------------------------------------
(* merge_rocprof_perfetto().                                               *)

\* The launch is the API row with the kernel's correlation; the markers that contain it,
\* of any thread.
Containing(k) == {m \in markers : m.start <= k.time /\ k.time <= m.end}
Duration(m) == m.end - m.start

\* Mutant: the outermost marker.
WidestOf(ms) == CHOOSE m \in ms : \A n \in ms : Duration(n) <= Duration(m)
NarrowestOf(ms) == CHOOSE m \in ms : \A n \in ms : Duration(m) <= Duration(n)

Attributed(k) == IF Containing(k) = {} THEN 0 ELSE NarrowestOf(Containing(k)).name

\* _clock_calibration(): the markers a row is matched with.  It takes the push and the
\* pop of the row for the start and the end of the marker.
Matches(s) == {m \in markers : m.name = s}
HoldsMarker(s) ==
  /\ Cardinality(Matches(s)) = 1
  /\ \A m \in Matches(s) : m.start = scope[s].push /\ m.end = scope[s].pop

-----------------------------------------------------------------------------
(* Properties.                                                             *)

\* Every variable has its type, and a caller between the synchronization and the line
\* holds the scope's lock.
TypeOK ==
  /\ thread \in [Tasks -> Threads \cup {NoCaller}] /\ base \in [Tasks -> Nat]
  /\ nesting \in [Tasks -> Seq(Scopes)] /\ depth \in [Tasks -> Nat]
  /\ \A s \in Scopes :
       /\ scope[s].state \in {"new", "open", "exited", "failed"}
       /\ scope[s].depth \in Nat /\ scope[s].thread \in Threads \cup {NoCaller}
       /\ scope[s].emitted \in BOOLEAN /\ scope[s].popError \in BOOLEAN
       /\ scope[s].recorded \in BOOLEAN
       /\ scope[s].lock \in Callers \cup {NoCaller}
       /\ scope[s].future \in Observers \cup {NoCaller}
  /\ events \in [HipScopes -> {"none", "open", "recorded", "done", "closed"}]
  /\ \A c \in Callers :
       /\ call[c].at \in {"idle", "wait", "sync", "write", "poll", "observe", "start"}
       /\ call[c].at \in {"sync", "write"} => scope[call[c].of].lock = c
  /\ future \in [Observers -> {"none", "stored", "pending", "result", "exception", "orphaned"}]
  /\ \A h \in Threads : \A i \in DOMAIN ranges[h] : ranges[h][i].name \in Scopes
  /\ now \in Nat /\ failures \in 0 .. MaxFailures

\* Two ranges of a thread cross: the one opened first is popped first.
Crossed(r, s) ==
  /\ scope[r].thread = scope[s].thread /\ scope[r].emitted /\ scope[s].emitted
  /\ scope[r].push < scope[s].push /\ scope[s].push < scope[r].pop
  /\ scope[s].pop = 0 \/ scope[r].pop < scope[s].pop
IsNested(h) ==
  \A r \in Scopes : scope[r].thread = h =>
    ~scope[r].popError /\ \A s \in Scopes : ~Crossed(r, s)

\* What a row says is what happened.  Its depth counts the scopes of its own task around
\* it and those its task was created in, whatever failed or was interleaved.  In a thread
\* whose ranges are nested and were all popped, though entries fail and other threads and
\* tasks go on, a row that has emitted a range has one marker, which starts at its push
\* and ends at its pop: the calibration of the clocks pairs exactly these.
RowsAreTrue ==
  /\ \A t \in Tasks : \A i \in DOMAIN nesting[t] :
       scope[nesting[t][i]].depth = base[t] + i - 1
  /\ \A s \in Scopes :
       lines[s] > 0 /\ scope[s].emitted /\ IsNested(scope[s].thread) => HoldsMarker(s)

\* What the notes say of every row, of coroutines too: its marker starts at its push and
\* ends at its pop, between the two readings of the clock.
BoundariesHoldMarkers == \A s \in Scopes : lines[s] > 0 /\ scope[s].emitted => HoldsMarker(s)

\* Once every range is closed, a kernel that only markers of its own thread contain is
\* attributed to the range that was innermost in that thread when it was launched, and
\* to none if there was none.
KernelsFollowRanges ==
  (\A h \in Threads : ranges[h] = <<>>) =>
    \A k \in kernels :
      (\A m \in Containing(k) : m.thread = k.thread) => Attributed(k) = k.within

\* However many threads wait for, observe and close a scope, and whatever fails in
\* between, its record is one line of the file, and its events are neither closed
\* before that nor used after they are closed.
CompletionIsUnique ==
  \A s \in HipScopes :
    /\ lines[s] = IF scope[s].recorded THEN 1 ELSE 0
    /\ events[s] = "closed" => scope[s].recorded \/ scope[s].state = "failed"
    /\ events[s] = "closed" =>
         \A c \in Callers : call[c].of = s => call[c].at \notin {"sync", "write", "poll"}

\* Again and again no future of observe_async() is under way: every one gets a result or
\* an exception, unless the start of its thread has failed.
UnderWay(o) == future[o] \in {"stored", "pending"}
FuturesEnd == []<>(\A o \in Observers : ~UnderWay(o))
=============================================================================
