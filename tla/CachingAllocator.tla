-------------------------- MODULE CachingAllocator ---------------------------
(***************************************************************************)
(* The HIP caching allocator of one device: threads allocate and free      *)
(* blocks and submit work on them to the default stream or to a            *)
(* non-blocking side stream.  A freed block may go to a pool and be handed *)
(* out again while work on it is still queued; that is safe only as long   *)
(* as all work goes to the default stream.  Every submission to the side   *)
(* stream therefore first disables the pool (notify_non_default_stream),   *)
(* and a quiescent handoff enables it again.                               *)
(*                                                                         *)
(* The streams are queues the device works off in order.  hipMalloc,       *)
(* hipFree and hipDeviceSynchronize are HIP's; hipFree waits for the       *)
(* device.  A queued item says whether the block was handed out again since *)
(* it was submitted ("old").                                               *)
(***************************************************************************)
EXTENDS Integers, Sequences, SequencesExt, FiniteSets, FiniteSetsExt

CONSTANTS Threads, Blocks,
          Size,         \* the bytes of each block
          CacheLimit,   \* kMaximumCachedBytesPerDevice
          ScopeCapacity, \* maximum_blocks of a deferred scope
          MaxQueue,     \* bound: items in a stream
          QuiesceAlone, \* callers quiesce while no operator is about to submit
          NoThread

ASSUME AllocatorAssumption ==
  /\ NoThread \notin Threads
  /\ \A b \in Blocks : Size[b] \in Nat \ {0}
  /\ CacheLimit \in Nat /\ ScopeCapacity \in Nat \ {0} /\ MaxQueue \in Nat \ {0}
  /\ QuiesceAlone \in BOOLEAN

Streams == {"default", "side"}
Sizes == {Size[b] : b \in Blocks}
Work == [block : Blocks, old : BOOLEAN]

VARIABLES
  enabled, forbidden,  \* the pool's flags for the device
  mutex,               \* the thread that holds pool.mutex across a wait
  retired,             \* pool.retired: a stack of blocks for each size
  cached,              \* counters(device).cached_bytes
  created,             \* a side stream exists
  pc,                  \* where a thread is
  freeing,             \* the block a thread is about to pass to hipFree
  scope,               \* the thread's active deferred scope, if any
  deferred,            \* its records
  live,                \* blocks in use by tensors
  driver,              \* blocks the driver holds
  queue,               \* the work of each stream
  awaited              \* items hipDeviceSynchronize still waits for

poolVars == <<enabled, forbidden, mutex, retired, cached>>
threadVars == <<pc, freeing, scope, deferred>>
deviceVars == <<queue, awaited>>
vars == <<poolVars, created, threadVars, live, driver, deviceVars>>

Init ==
  /\ enabled = FALSE /\ forbidden = FALSE
  /\ mutex = NoThread
  /\ retired = [n \in Sizes |-> <<>>]
  /\ cached = 0
  /\ created = FALSE
  /\ pc = [t \in Threads |-> "run"]
  /\ freeing = [t \in Threads |-> {}]
  /\ scope = [t \in Threads |-> "none"]
  /\ deferred = [t \in Threads |-> <<>>]
  /\ live = {} /\ driver = Blocks
  /\ queue = [s \in Streams |-> <<>>]
  /\ awaited = [s \in Streams |-> 0]

Running(t) == pc[t] = "run"
Unlocked == mutex = NoThread
DeviceIdle == \A s \in Streams : queue[s] = <<>>
Push(s, b) == [queue EXCEPT ![s] = Append(@, [block |-> b, old |-> FALSE])]

-----------------------------------------------------------------------------
(* The pool's phases.                                                      *)

\* Throws, and changes nothing, when forbidden.
Enable(t) ==
  /\ Running(t) /\ Unlocked /\ ~forbidden
  /\ enabled' = TRUE
  /\ UNCHANGED <<forbidden, mutex, retired, cached, created, threadVars, live, driver, deviceVars>>

\* Mutant: a notification that does not reach the pool.
NoNotification == UNCHANGED <<enabled, forbidden>>
NotifyNonDefaultStream == Unlocked /\ enabled' = FALSE /\ forbidden' = TRUE

CreateStream(t) ==
  /\ Running(t)
  /\ NotifyNonDefaultStream
  /\ created' = TRUE
  /\ UNCHANGED <<mutex, retired, cached, threadVars, live, driver, deviceVars>>

\* The handoff holds the lock while it waits for the work queued by then.
QuiesceBegin(t) ==
  /\ Running(t) /\ Unlocked
  /\ QuiesceAlone => \A u \in Threads : pc[u] # "notified"
  /\ mutex' = t
  /\ pc' = [pc EXCEPT ![t] = "quiescing"]
  /\ awaited' = [s \in Streams |-> Len(queue[s])]
  /\ UNCHANGED <<enabled, forbidden, retired, cached, created, freeing, scope, deferred,
                 live, driver, queue>>

NotAwaiting == TRUE  \* mutant: the handoff does not wait
Quiescent == \A s \in Streams : awaited[s] = 0
QuiesceEnd(t) ==
  /\ pc[t] = "quiescing" /\ Quiescent
  /\ enabled' = TRUE /\ forbidden' = FALSE
  /\ mutex' = NoThread
  /\ pc' = [pc EXCEPT ![t] = "run"]
  /\ UNCHANGED <<retired, cached, created, freeing, scope, deferred, live, driver, deviceVars>>

-----------------------------------------------------------------------------
(* Allocation and deallocation.                                            *)

\* Mutant: the block stays in the pool.
BlockKept(n) == retired
BlockTaken(n) == [retired EXCEPT ![n] = Front(@)]

\* A block of the pool, the last one retired, if reuse is enabled.
AllocateCached(t, n) ==
  /\ Running(t) /\ Unlocked
  /\ enabled /\ retired[n] # <<>>
  /\ LET b == Last(retired[n])
     IN /\ live' = live \cup {b}
        /\ queue' = [s \in Streams |-> [i \in DOMAIN queue[s] |->
             [queue[s][i] EXCEPT !.old = @ \/ queue[s][i].block = b]]]
  /\ retired' = BlockTaken(n)
  /\ cached' = cached - n
  /\ UNCHANGED <<enabled, forbidden, mutex, created, threadVars, driver, awaited>>

\* Otherwise a block from hipMalloc.
AllocateBackend(t, b) ==
  /\ Running(t) /\ Unlocked
  /\ ~enabled \/ retired[Size[b]] = <<>>
  /\ b \in driver
  /\ driver' = driver \ {b}
  /\ live' = live \cup {b}
  /\ UNCHANGED <<poolVars, created, threadVars, deviceVars>>

NotCounted(b) == cached  \* mutant
Counted(b) == cached + Size[b]

\* Mutant: the limit is tested before the block is counted.
CachesOneMore(b) == enabled /\ Min({cached, CacheLimit}) < CacheLimit
Caches(b) == enabled /\ Size[b] + Min({cached, CacheLimit}) <= CacheLimit

Deallocate(t, b) ==
  /\ Running(t) /\ Unlocked /\ scope[t] = "none"
  /\ b \in live
  /\ live' = live \ {b}
  /\ \/ /\ Caches(b)
        /\ retired' = [retired EXCEPT ![Size[b]] = Append(@, b)]
        /\ cached' = Counted(b)
        /\ UNCHANGED <<pc, freeing>>
     \/ /\ ~Caches(b)
        /\ pc' = [pc EXCEPT ![t] = "freeing"]
        /\ freeing' = [freeing EXCEPT ![t] = {b}]
        /\ UNCHANGED <<retired, cached>>
  /\ UNCHANGED <<enabled, forbidden, mutex, created, scope, deferred, driver, deviceVars>>

\* hipFree, after the lock was released.
FreeBackend(t) ==
  /\ pc[t] = "freeing" /\ DeviceIdle
  /\ driver' = driver \cup freeing[t]
  /\ freeing' = [freeing EXCEPT ![t] = {}]
  /\ pc' = [pc EXCEPT ![t] = "run"]
  /\ UNCHANGED <<poolVars, created, scope, deferred, live, deviceVars>>

-----------------------------------------------------------------------------
(* Deferred scopes of a thread: frees are recorded and done together.      *)

\* "lifetime": DeferredHipDeallocationScope; "routed": ScopedDeferredHipStream,
\* which sends the thread's default work to the side stream as well.
OpenScope(t, kind) ==
  /\ Running(t) /\ created /\ scope[t] = "none"
  /\ scope' = [scope EXCEPT ![t] = kind]
  /\ UNCHANGED <<poolVars, created, pc, freeing, deferred, live, driver, deviceVars>>

\* A full scope first waits for its stream and frees what it holds.
Defer(t, b) ==
  /\ Running(t) /\ scope[t] # "none"
  /\ b \in live
  /\ live' = live \ {b}
  /\ \/ /\ Len(deferred[t]) < ScopeCapacity
        /\ deferred' = [deferred EXCEPT ![t] = Append(@, b)]
        /\ UNCHANGED driver
     \/ /\ Len(deferred[t]) = ScopeCapacity /\ DeviceIdle
        /\ driver' = driver \cup ToSet(deferred[t])
        /\ deferred' = [deferred EXCEPT ![t] = <<b>>]
  /\ UNCHANGED <<poolVars, created, pc, freeing, scope, deviceVars>>

FinishScope(t) ==
  /\ Running(t) /\ scope[t] # "none"
  /\ deferred[t] # <<>> => DeviceIdle
  /\ scope' = [scope EXCEPT ![t] = "none"]
  /\ driver' = driver \cup ToSet(deferred[t])
  /\ deferred' = [deferred EXCEPT ![t] = <<>>]
  /\ UNCHANGED <<poolVars, created, pc, freeing, live, deviceVars>>

-----------------------------------------------------------------------------
(* Operators submit work; the device does it.                              *)

SubmitDefault(t, b) ==
  /\ Running(t) /\ scope[t] # "routed"
  /\ b \in live /\ Len(queue["default"]) < MaxQueue
  /\ queue' = Push("default", b)
  /\ UNCHANGED <<poolVars, created, threadVars, live, driver, awaited>>

\* native_stream() or resolve_deferred_hip_stream(): notify, return the stream.
ResolveSide(t) ==
  /\ Running(t) /\ created
  /\ NotifyNonDefaultStream
  /\ pc' = [pc EXCEPT ![t] = "notified"]
  /\ UNCHANGED <<mutex, retired, cached, created, freeing, scope, deferred, live, driver, deviceVars>>

\* Then the operator launches its kernels, or throws before the first.  Callers
\* have waited for the default stream before they go on with the side stream.
SubmitSide(t, b) ==
  /\ pc[t] = "notified"
  /\ b \in live /\ Len(queue["side"]) < MaxQueue
  /\ queue["default"] = <<>>
  /\ queue' = Push("side", b)
  /\ UNCHANGED <<poolVars, created, threadVars, live, driver, awaited>>

OperatorEnds(t) ==
  /\ pc[t] = "notified"
  /\ pc' = [pc EXCEPT ![t] = "run"]
  /\ UNCHANGED <<poolVars, created, freeing, scope, deferred, live, driver, deviceVars>>

Complete(s) ==
  /\ queue[s] # <<>>
  /\ queue' = [queue EXCEPT ![s] = Tail(@)]
  /\ awaited' = [awaited EXCEPT ![s] = IF @ > 0 THEN @ - 1 ELSE 0]
  /\ UNCHANGED <<poolVars, created, threadVars, live, driver>>

Next ==
  \/ \E t \in Threads :
       \/ Enable(t) \/ CreateStream(t) \/ QuiesceBegin(t) \/ QuiesceEnd(t)
       \/ FreeBackend(t) \/ FinishScope(t) \/ ResolveSide(t) \/ OperatorEnds(t)
       \/ \E n \in Sizes : AllocateCached(t, n)
       \/ \E kind \in {"lifetime", "routed"} : OpenScope(t, kind)
       \/ \E b \in Blocks : \/ AllocateBackend(t, b) \/ Deallocate(t, b) \/ Defer(t, b)
                            \/ SubmitDefault(t, b) \/ SubmitSide(t, b)
  \/ \E s \in Streams : Complete(s)

Spec == Init /\ [][Next]_vars

-----------------------------------------------------------------------------
(* Properties                                                              *)

TypeOK ==
  /\ enabled \in BOOLEAN /\ forbidden \in BOOLEAN /\ created \in BOOLEAN
  /\ mutex \in Threads \cup {NoThread}
  /\ retired \in [Sizes -> Seq(Blocks)]
  /\ cached \in Nat
  /\ pc \in [Threads -> {"run", "notified", "quiescing", "freeing"}]
  /\ freeing \in [Threads -> SUBSET Blocks]
  /\ scope \in [Threads -> {"none", "lifetime", "routed"}]
  /\ deferred \in [Threads -> Seq(Blocks)]
  /\ live \subseteq Blocks /\ driver \subseteq Blocks
  /\ queue \in [Streams -> Seq(Work)]
  /\ awaited \in [Streams -> Nat]

\* The block a thread writes through one stream has no work of an earlier life on
\* the other one: reuse never overlaps the kernels that still use the address.
SafeReuse ==
  \A i \in DOMAIN queue["default"], j \in DOMAIN queue["side"] :
    LET d == queue["default"][i]
        s == queue["side"][j]
    IN d.block = s.block => d.old = s.old

\* "Any later non-default submission disables reuse again before that work is
\* enqueued" (runtime.h): while reuse is enabled the side stream has no work.
ReuseIsDefaultOnly == enabled => queue["side"] = <<>>

\* Every block is in exactly one place: in use, with the driver, retired in the pool
\* under its size, recorded in one deferred scope, or on its way to hipFree.  A
\* block in two places is handed out or freed twice; one in none has leaked.
Positions(seq, b) == {i \in DOMAIN seq : seq[i] = b}
Places(b) ==
  {<<"live", 0, 0>> : x \in live \cap {b}} \cup {<<"driver", 0, 0>> : x \in driver \cap {b}}
  \cup (UNION {{<<"retired", n, i>> : i \in Positions(retired[n], b)} : n \in Sizes})
  \cup (UNION {{<<"deferred", t, i>> : i \in Positions(deferred[t], b)} : t \in Threads})
  \cup {<<"freeing", t, 0>> : t \in {u \in Threads : b \in freeing[u]}}
BlocksInOnePlace ==
  /\ \A b \in Blocks : Cardinality(Places(b)) = 1
  /\ \A n \in Sizes : \A b \in ToSet(retired[n]) : Size[b] = n

\* The pool never holds more bytes than its limit, and cached_bytes counts what it
\* holds.
Pooled == UNION {ToSet(retired[n]) : n \in Sizes}
Bytes(b) == {b} \X (1 .. Size[b])
BytesOf(bs) == UNION {Bytes(b) : b \in bs}
CacheWithinLimit ==
  /\ cached <= CacheLimit
  /\ cached = Cardinality(BytesOf(Pooled))
=============================================================================
