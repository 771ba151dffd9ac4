----------------------- MODULE CachingAllocatorProofs ------------------------
(***************************************************************************)
(* Theorems about CachingAllocator, for any number of threads and blocks,  *)
(* any sizes and any limits.  Every block is in exactly one place and the  *)
(* pool keeps within its limit, whatever the callers do; reuse of retired  *)
(* blocks is safe provided that callers quiesce only while no operator     *)
(* stands between its notification and its launch.                         *)
(***************************************************************************)
EXTENDS CachingAllocator, FiniteSetTheorems, SequenceTheorems, TLAPS

\* What the argument needs of the types.
Types ==
  /\ enabled \in BOOLEAN /\ forbidden \in BOOLEAN
  /\ mutex \in Threads \cup {NoThread}
  /\ pc \in [Threads -> {"run", "notified", "quiescing", "freeing"}]
  /\ retired \in [Sizes -> Seq(Blocks)]
  /\ queue \in [Streams -> Seq(Work)]
  /\ awaited \in [Streams -> Nat]

\* No work on the side stream and none about to be launched.
SideQuiet == queue["side"] = <<>> /\ \A t \in Threads : pc[t] # "notified"

\* The flags are exclusive, and a side stream that is not forbidden is quiet.
Flags == /\ enabled => ~forbidden
         /\ ~forbidden => SideQuiet

\* During a handoff nobody launches side work, so that the handoff waits for all
\* of it, and only the thread that holds the lock is in the handoff.
Handoff ==
  /\ mutex # NoThread => /\ \A t \in Threads : pc[t] # "notified"
                         /\ Len(queue["side"]) = awaited["side"]
  /\ \A t \in Threads : pc[t] = "quiescing" => mutex = t

\* Blocks are handed out again only while the side stream is empty.
SideIsCurrent == \A j \in DOMAIN queue["side"] : ~queue["side"][j].old

Inv == Types /\ Flags /\ Handoff /\ SideIsCurrent /\ SafeReuse

-----------------------------------------------------------------------------
\* A freshly pushed item is the last of its stream; the others stay.
LEMMA PushAppends ==
  ASSUME Types, NEW s \in Streams, NEW b \in Blocks, queue' = Push(s, b)
  PROVE  /\ queue' \in [Streams -> Seq(Work)]
         /\ \A u \in Streams \ {s} : queue'[u] = queue[u]
         /\ Len(queue'[s]) = Len(queue[s]) + 1
         /\ \A i \in DOMAIN queue'[s] :
              \/ i \in DOMAIN queue[s] /\ queue'[s][i] = queue[s][i]
              \/ queue'[s][i] = [block |-> b, old |-> FALSE]
<1>1. queue[s] \in Seq(Work) /\ [block |-> b, old |-> FALSE] \in Work
  BY DEF Types, Work
<1> DEFINE w == [block |-> b, old |-> FALSE]
<1>2. queue' = [queue EXCEPT ![s] = Append(queue[s], w)]
  BY DEF Push
<1>3. queue'[s] = Append(queue[s], w) /\ \A u \in Streams \ {s} : queue'[u] = queue[u]
  BY <1>2 DEF Types
<1> HIDE DEF w
<1>4. w \in Work
  BY <1>1 DEF w
<1>5. Append(queue[s], w) \in Seq(Work) /\ Len(Append(queue[s], w)) = Len(queue[s]) + 1
  BY <1>1, <1>4
<1>6. \A i \in DOMAIN Append(queue[s], w) :
        \/ i \in DOMAIN queue[s] /\ Append(queue[s], w)[i] = queue[s][i]
        \/ Append(queue[s], w)[i] = w
  BY <1>1, <1>4
<1> QED
  BY <1>2, <1>3, <1>5, <1>6 DEF w, Types

\* Completing the first item shifts the others.
LEMMA CompleteShifts ==
  ASSUME Types, NEW s \in Streams, Complete(s)
  PROVE  /\ queue' \in [Streams -> Seq(Work)]
         /\ \A u \in Streams \ {s} : queue'[u] = queue[u] /\ awaited'[u] = awaited[u]
         /\ Len(queue'[s]) = Len(queue[s]) - 1
         /\ \A i \in DOMAIN queue'[s] : i + 1 \in DOMAIN queue[s]
                                        /\ queue'[s][i] = queue[s][i + 1]
<1>1. queue[s] \in Seq(Work) /\ queue[s] # <<>>
  BY DEF Types, Complete
<1>2. /\ Tail(queue[s]) \in Seq(Work) /\ Len(Tail(queue[s])) = Len(queue[s]) - 1
      /\ \A i \in DOMAIN Tail(queue[s]) : i + 1 \in DOMAIN queue[s]
                                          /\ Tail(queue[s])[i] = queue[s][i + 1]
  BY <1>1
<1>3. queue' = [queue EXCEPT ![s] = Tail(queue[s])]
  BY DEF Complete
<1>4. queue'[s] = Tail(queue[s]) /\ \A u \in Streams \ {s} : queue'[u] = queue[u]
  BY <1>3 DEF Types
<1>5. \A u \in Streams \ {s} : awaited'[u] = awaited[u]
  BY DEF Complete, Types
<1> QED
  BY <1>2, <1>3, <1>4, <1>5 DEF Types

\* Taking a block marks queued work and changes nothing else about it.
LEMMA ReuseMarks ==
  ASSUME Types, NEW t \in Threads, NEW n \in Sizes, AllocateCached(t, n)
  PROVE  /\ queue' \in [Streams -> Seq(Work)]
         /\ \A s \in Streams : queue[s] = <<>> => queue'[s] = <<>>
         /\ \A s \in Streams : Len(queue'[s]) = Len(queue[s])
<1> DEFINE b == Last(retired[n])
<1> DEFINE Marked(s) == [i \in DOMAIN queue[s] |->
                           [queue[s][i] EXCEPT !.old = @ \/ queue[s][i].block = b]]
<1>1. queue' = [s \in Streams |-> Marked(s)]
  BY DEF AllocateCached
<1>2. ASSUME NEW s \in Streams PROVE Marked(s) \in Seq(Work) /\ Len(Marked(s)) = Len(queue[s])
  <2>1. queue[s] \in Seq(Work)
    BY DEF Types
  <2>2. \A i \in DOMAIN queue[s] : queue[s][i] \in Work
    BY <2>1
  <2> HIDE DEF b
  <2>3. \A i \in DOMAIN queue[s] :
          [queue[s][i] EXCEPT !.old = @ \/ queue[s][i].block = b] \in Work
    BY <2>2 DEF Work
  <2>4. DOMAIN queue[s] = 1..Len(queue[s]) /\ Len(queue[s]) \in Nat
    BY <2>1
  <2> QED BY <2>3, <2>4
<1> HIDE DEF Marked
<1>3. \A s \in Streams : queue'[s] \in Seq(Work) /\ Len(queue'[s]) = Len(queue[s])
  BY <1>1, <1>2
<1>4. \A s \in Streams : queue[s] = <<>> => queue'[s] = <<>>
  <2> TAKE s \in Streams
  <2> HAVE queue[s] = <<>>
  <2>1. Len(queue'[s]) = 0 /\ queue'[s] \in Seq(Work)
    BY <1>3
  <2> QED BY <2>1
<1> QED
  BY <1>1, <1>2, <1>3, <1>4

-----------------------------------------------------------------------------
(* The invariant holds initially and is preserved by every action.         *)

LEMMA InitInv == Init => Inv
<1> SUFFICES ASSUME Init PROVE Inv
  OBVIOUS
<1>1. Types
  <2>1. NoThread \in Threads \cup {NoThread} /\ <<>> \in Seq(Blocks) /\ <<>> \in Seq(Work)
    OBVIOUS
  <2> QED BY <2>1 DEF Init, Types
<1>2. Flags /\ Handoff
  BY AllocatorAssumption DEF Init, Flags, SideQuiet, Handoff, Streams
<1>3. SideIsCurrent /\ SafeReuse
  BY DEF Init, SideIsCurrent, SafeReuse, Streams
<1> QED BY <1>1, <1>2, <1>3 DEF Inv

\* Actions that leave the flags, the lock and the queues alone and move no thread
\* to the notification or the handoff.
LEMMA QuietInv ==
  ASSUME Inv, UNCHANGED <<enabled, forbidden, mutex, queue, awaited>>,
         retired' \in [Sizes -> Seq(Blocks)],
         pc' \in [Threads -> {"run", "notified", "quiescing", "freeing"}],
         \A t \in Threads : pc'[t] \in {"notified", "quiescing"} => pc'[t] = pc[t]
  PROVE  Inv'
<1>1. Types'
  BY DEF Inv, Types
<1>2. Flags' /\ Handoff'
  BY DEF Inv, Flags, SideQuiet, Handoff
<1>3. SideIsCurrent' /\ SafeReuse'
  BY DEF Inv, SideIsCurrent, SafeReuse
<1> QED BY <1>1, <1>2, <1>3 DEF Inv

LEMMA EnableInv ==
  ASSUME Inv, NEW t \in Threads, Enable(t)
  PROVE  Inv'
<1>1. Types' /\ Handoff' /\ SideIsCurrent' /\ SafeReuse'
  BY DEF Inv, Types, Handoff, SideIsCurrent, SafeReuse, Enable, threadVars, deviceVars
<1>2. Flags'
  BY DEF Inv, Flags, SideQuiet, Enable, threadVars, deviceVars
<1> QED BY <1>1, <1>2 DEF Inv

\* A notification forbids reuse, whatever follows it.
LEMMA NotifyInv ==
  ASSUME Inv, NotifyNonDefaultStream, UNCHANGED <<mutex, retired, queue, awaited>>,
         NEW t \in Threads,
         pc' = pc \/ pc' = [pc EXCEPT ![t] = "notified"]
  PROVE  Inv'
<1>1. Types'
  BY DEF Inv, Types, NotifyNonDefaultStream
<1>2. Flags'
  BY DEF Flags, NotifyNonDefaultStream
<1>3. Handoff'
  BY DEF Inv, Types, Handoff, NotifyNonDefaultStream, Unlocked
<1>4. SideIsCurrent' /\ SafeReuse'
  BY DEF Inv, SideIsCurrent, SafeReuse
<1> QED BY <1>1, <1>2, <1>3, <1>4 DEF Inv

LEMMA QuiesceBeginInv ==
  ASSUME Inv, QuiesceAlone, NEW t \in Threads, QuiesceBegin(t)
  PROVE  Inv'
<1> USE DEF QuiesceBegin
<1>1. awaited' \in [Streams -> Nat] /\ awaited'["side"] = Len(queue["side"])
  <2>1. \A s \in Streams : Len(queue[s]) \in Nat
    BY DEF Inv, Types
  <2> QED BY <2>1 DEF Streams
<1>2. Types'
  BY <1>1 DEF Inv, Types
<1>3. Flags'
  BY DEF Inv, Types, Flags, SideQuiet
<1>4. Handoff'
  <2>1. \A u \in Threads : pc'[u] # "notified"
    BY DEF Inv, Types
  <2>2. \A u \in Threads : pc'[u] = "quiescing" => mutex' = u
    BY AllocatorAssumption DEF Inv, Types, Handoff, Unlocked
  <2> QED BY <1>1, <2>1, <2>2 DEF Handoff
<1>5. SideIsCurrent' /\ SafeReuse'
  BY DEF Inv, SideIsCurrent, SafeReuse
<1> QED BY <1>2, <1>3, <1>4, <1>5 DEF Inv

\* The device has done all side work when the handoff enables reuse.
LEMMA QuiesceEndInv ==
  ASSUME Inv, NEW t \in Threads, QuiesceEnd(t)
  PROVE  Inv'
<1> USE DEF QuiesceEnd, deviceVars
<1>1. Types'
  BY DEF Inv, Types
<1>2. mutex = t /\ t # NoThread
  BY AllocatorAssumption DEF Inv, Handoff
<1>3. queue["side"] = <<>>
  <2>1. Len(queue["side"]) = 0 /\ queue["side"] \in Seq(Work)
    BY <1>2 DEF Inv, Types, Handoff, Quiescent, Streams
  <2> QED BY <2>1
<1>4. \A u \in Threads : pc[u] # "notified" /\ (u # t => pc[u] # "quiescing")
  BY <1>2 DEF Inv, Handoff
<1>5. \A u \in Threads : pc'[u] \notin {"notified", "quiescing"}
  BY <1>4 DEF Inv, Types
<1>6. Flags' /\ Handoff'
  BY <1>3, <1>5 DEF Flags, SideQuiet, Handoff
<1>7. SideIsCurrent' /\ SafeReuse'
  BY DEF Inv, SideIsCurrent, SafeReuse
<1> QED BY <1>1, <1>6, <1>7 DEF Inv

LEMMA AllocateCachedInv ==
  ASSUME Inv, NEW t \in Threads, NEW n \in Sizes, AllocateCached(t, n)
  PROVE  Inv'
<1>0. UNCHANGED <<enabled, forbidden, mutex, pc, awaited>> /\ enabled
  BY DEF AllocateCached, threadVars
<1>1. queue' \in [Streams -> Seq(Work)] /\ \A s \in Streams : Len(queue'[s]) = Len(queue[s])
  BY ReuseMarks DEF Inv
<1>2. queue["side"] = <<>> /\ queue'["side"] = <<>>
  BY <1>0, ReuseMarks DEF Inv, Flags, SideQuiet, Streams
<1>3. retired' \in [Sizes -> Seq(Blocks)]
  <2>1. retired[n] \in Seq(Blocks) /\ retired[n] # <<>>
    BY DEF Inv, Types, AllocateCached
  <2>2. Front(retired[n]) \in Seq(Blocks)
    BY <2>1 DEF Front
  <2> QED BY <2>2 DEF Inv, Types, AllocateCached, BlockTaken
<1>4. Types'
  BY <1>0, <1>1, <1>3 DEF Inv, Types
<1>5. Flags' /\ Handoff'
  BY <1>0, <1>1, <1>2 DEF Inv, Flags, SideQuiet, Handoff, Streams
<1>6. SideIsCurrent' /\ SafeReuse'
  BY <1>2 DEF SideIsCurrent, SafeReuse
<1> QED BY <1>4, <1>5, <1>6 DEF Inv

LEMMA SubmitDefaultInv ==
  ASSUME Inv, NEW t \in Threads, NEW b \in Blocks, SubmitDefault(t, b)
  PROVE  Inv'
<1>0. /\ UNCHANGED <<enabled, forbidden, mutex, pc, retired, awaited>>
      /\ queue' = Push("default", b)
  BY DEF SubmitDefault, poolVars, threadVars
<1>1. /\ queue' \in [Streams -> Seq(Work)]
      /\ queue'["side"] = queue["side"]
      /\ \A i \in DOMAIN queue'["default"] :
           \/ i \in DOMAIN queue["default"] /\ queue'["default"][i] = queue["default"][i]
           \/ queue'["default"][i] = [block |-> b, old |-> FALSE]
  BY <1>0, PushAppends DEF Inv, Streams
<1>2. Types'
  BY <1>0, <1>1 DEF Inv, Types
<1>3. Flags' /\ Handoff' /\ SideIsCurrent'
  BY <1>0, <1>1 DEF Inv, Flags, SideQuiet, Handoff, SideIsCurrent
<1>4. SafeReuse'
  <2> SUFFICES ASSUME NEW i \in DOMAIN queue'["default"], NEW j \in DOMAIN queue["side"],
                      queue'["default"][i].block = queue["side"][j].block
               PROVE  queue'["default"][i].old = queue["side"][j].old
    BY <1>1 DEF SafeReuse
  <2>1. CASE i \in DOMAIN queue["default"] /\ queue'["default"][i] = queue["default"][i]
    BY <2>1 DEF Inv, SafeReuse
  <2>2. CASE queue'["default"][i] = [block |-> b, old |-> FALSE]
    <3>1. queue["side"][j].old = FALSE
      <4>1. queue["side"][j] \in Work
        BY DEF Inv, Types, Streams
      <4> QED BY <4>1 DEF Inv, SideIsCurrent, Work
    <3>2. [block |-> b, old |-> FALSE].old = FALSE
      BY Zenon
    <3> QED BY <2>2, <3>1, <3>2, Zenon
  <2> QED BY <1>1, <2>1, <2>2
<1> QED BY <1>2, <1>3, <1>4 DEF Inv

LEMMA SubmitSideInv ==
  ASSUME Inv, NEW t \in Threads, NEW b \in Blocks, SubmitSide(t, b)
  PROVE  Inv'
<1>0. /\ UNCHANGED <<enabled, forbidden, mutex, pc, retired, awaited>>
      /\ queue' = Push("side", b)
      /\ pc[t] = "notified" /\ queue["default"] = <<>>
  BY DEF SubmitSide, poolVars, threadVars
<1>1. /\ queue' \in [Streams -> Seq(Work)]
      /\ queue'["default"] = queue["default"]
      /\ \A j \in DOMAIN queue'["side"] :
           \/ j \in DOMAIN queue["side"] /\ queue'["side"][j] = queue["side"][j]
           \/ queue'["side"][j] = [block |-> b, old |-> FALSE]
  BY <1>0, PushAppends DEF Inv, Streams
<1>2. Types'
  BY <1>0, <1>1 DEF Inv, Types
<1>3. Flags' /\ Handoff'
  BY <1>0 DEF Inv, Flags, SideQuiet, Handoff
<1>4. SideIsCurrent'
  <2> SUFFICES ASSUME NEW j \in DOMAIN queue'["side"]
               PROVE  ~queue'["side"][j].old
    BY DEF SideIsCurrent
  <2>1. CASE j \in DOMAIN queue["side"] /\ queue'["side"][j] = queue["side"][j]
    BY <2>1, Zenon DEF Inv, SideIsCurrent
  <2>2. CASE queue'["side"][j] = [block |-> b, old |-> FALSE]
    <3>1. [block |-> b, old |-> FALSE].old = FALSE
      BY Zenon
    <3> QED BY <2>2, <3>1, Zenon
  <2> QED BY <1>1, <2>1, <2>2
<1>5. SafeReuse'
  <2>1. DOMAIN queue'["default"] = {}
    BY <1>0, <1>1
  <2> QED BY <2>1 DEF SafeReuse
<1> QED BY <1>2, <1>3, <1>4, <1>5 DEF Inv

LEMMA CompleteInv ==
  ASSUME Inv, NEW s \in Streams, Complete(s)
  PROVE  Inv'
<1>0. UNCHANGED <<enabled, forbidden, mutex, pc, retired>>
  BY DEF Complete, poolVars, threadVars
<1>1. /\ queue' \in [Streams -> Seq(Work)]
      /\ \A u \in Streams \ {s} : queue'[u] = queue[u] /\ awaited'[u] = awaited[u]
      /\ Len(queue'[s]) = Len(queue[s]) - 1
      /\ \A i \in DOMAIN queue'[s] : i + 1 \in DOMAIN queue[s]
                                     /\ queue'[s][i] = queue[s][i + 1]
  BY CompleteShifts DEF Inv
<1>2. awaited' \in [Streams -> Nat]
  BY DEF Complete, Inv, Types
<1>3. Types'
  BY <1>0, <1>1, <1>2 DEF Inv, Types
<1>4. queue["side"] = <<>> => s # "side"
  BY DEF Complete
<1>5. Flags'
  BY <1>0, <1>1, <1>4 DEF Inv, Flags, SideQuiet, Streams
<1>6. Handoff'
  <2>1. CASE s = "side"
    <3>1. queue["side"] \in Seq(Work) /\ queue["side"] # <<>>
      BY <2>1 DEF Inv, Types, Complete
    <3>2. Len(queue["side"]) \in Nat \ {0}
      BY <3>1
    <3>3. awaited["side"] > 0 => awaited'["side"] = awaited["side"] - 1
      BY <2>1 DEF Complete, Inv, Types
    <3> QED BY <1>0, <1>1, <2>1, <3>2, <3>3 DEF Inv, Handoff
  <2>2. CASE s # "side"
    BY <1>0, <1>1, <2>2 DEF Inv, Handoff, Streams
  <2> QED BY <2>1, <2>2
<1>7. SideIsCurrent'
  <2>1. CASE s = "side"
    BY <1>1, <2>1 DEF Inv, SideIsCurrent
  <2>2. CASE s # "side"
    BY <1>1, <2>2 DEF Inv, SideIsCurrent, Streams
  <2> QED BY <2>1, <2>2
<1>8. SafeReuse'
  <2> SUFFICES ASSUME NEW i \in DOMAIN queue'["default"], NEW j \in DOMAIN queue'["side"],
                      queue'["default"][i].block = queue'["side"][j].block
               PROVE  queue'["default"][i].old = queue'["side"][j].old
    BY DEF SafeReuse
  <2>1. \E k \in DOMAIN queue["default"] : queue'["default"][i] = queue["default"][k]
    <3>1. CASE s = "default"
      BY <1>1, <3>1
    <3>2. CASE s # "default"
      BY <1>1, <3>2, Zenon DEF Streams
    <3> QED BY <3>1, <3>2
  <2>2. \E k \in DOMAIN queue["side"] : queue'["side"][j] = queue["side"][k]
    <3>1. CASE s = "side"
      BY <1>1, <3>1
    <3>2. CASE s # "side"
      BY <1>1, <3>2, Zenon DEF Streams
    <3> QED BY <3>1, <3>2
  <2>3. SafeReuse
    BY DEF Inv
  <2> QED BY <2>1, <2>2, <2>3, Zenon DEF SafeReuse
<1> QED BY <1>3, <1>5, <1>6, <1>7, <1>8 DEF Inv

-----------------------------------------------------------------------------
LEMMA NextInv ==
  ASSUME Inv, QuiesceAlone, [Next]_vars
  PROVE  Inv'
<1> USE DEF poolVars, threadVars, deviceVars
<1>1. ASSUME NEW t \in Threads, Enable(t) PROVE Inv'
  BY <1>1, EnableInv
<1>2. ASSUME NEW t \in Threads, CreateStream(t) PROVE Inv'
  BY <1>2, NotifyInv DEF CreateStream
<1>3. ASSUME NEW t \in Threads, QuiesceBegin(t) PROVE Inv'
  BY <1>3, QuiesceBeginInv
<1>4. ASSUME NEW t \in Threads, QuiesceEnd(t) PROVE Inv'
  BY <1>4, QuiesceEndInv
<1>5. ASSUME NEW t \in Threads, FreeBackend(t) PROVE Inv'
  BY <1>5, QuietInv DEF FreeBackend, Inv, Types
<1>6. ASSUME NEW t \in Threads, FinishScope(t) PROVE Inv'
  BY <1>6, QuietInv DEF FinishScope, Inv, Types
<1>7. ASSUME NEW t \in Threads, ResolveSide(t) PROVE Inv'
  BY <1>7, NotifyInv DEF ResolveSide
<1>8. ASSUME NEW t \in Threads, OperatorEnds(t) PROVE Inv'
  BY <1>8, QuietInv DEF OperatorEnds, Inv, Types
<1>9. ASSUME NEW t \in Threads, NEW n \in Sizes, AllocateCached(t, n) PROVE Inv'
  BY <1>9, AllocateCachedInv
<1>10. ASSUME NEW t \in Threads, NEW kind \in {"lifetime", "routed"}, OpenScope(t, kind)
       PROVE  Inv'
  BY <1>10, QuietInv DEF OpenScope, Inv, Types
<1>11. ASSUME NEW t \in Threads, NEW b \in Blocks, AllocateBackend(t, b) PROVE Inv'
  BY <1>11, QuietInv DEF AllocateBackend, Inv, Types
<1>12. ASSUME NEW t \in Threads, NEW b \in Blocks, Deallocate(t, b) PROVE Inv'
  <2>1. retired' \in [Sizes -> Seq(Blocks)]
    <3>1. Size[b] \in Sizes /\ retired \in [Sizes -> Seq(Blocks)]
      BY DEF Sizes, Inv, Types
    <3>2. Append(retired[Size[b]], b) \in Seq(Blocks)
      <4>1. retired[Size[b]] \in Seq(Blocks)
        BY <3>1
      <4> QED BY <4>1
    <3>3. \/ retired' = retired
          \/ retired' = [retired EXCEPT ![Size[b]] = Append(retired[Size[b]], b)]
      BY <1>12 DEF Deallocate
    <3> QED BY <3>1, <3>2, <3>3
  <2>2. /\ pc' \in [Threads -> {"run", "notified", "quiescing", "freeing"}]
        /\ \A u \in Threads : pc'[u] \in {"notified", "quiescing"} => pc'[u] = pc[u]
    BY <1>12 DEF Deallocate, Inv, Types
  <2> QED BY <1>12, <2>1, <2>2, QuietInv DEF Deallocate
<1>13. ASSUME NEW t \in Threads, NEW b \in Blocks, Defer(t, b) PROVE Inv'
  BY <1>13, QuietInv DEF Defer, Inv, Types
<1>14. ASSUME NEW t \in Threads, NEW b \in Blocks, SubmitDefault(t, b) PROVE Inv'
  BY <1>14, SubmitDefaultInv
<1>15. ASSUME NEW t \in Threads, NEW b \in Blocks, SubmitSide(t, b) PROVE Inv'
  BY <1>15, SubmitSideInv
<1>16. ASSUME NEW s \in Streams, Complete(s) PROVE Inv'
  BY <1>16, CompleteInv
<1>17. CASE UNCHANGED vars
  BY <1>17, QuietInv DEF vars, Inv, Types
<1> QED
  BY <1>1, <1>2, <1>3, <1>4, <1>5, <1>6, <1>7, <1>8, <1>9, <1>10, <1>11, <1>12, <1>13,
     <1>14, <1>15, <1>16, <1>17 DEF Next

\* If callers quiesce only while no operator is about to launch, a block never has
\* work of two lives on different streams.
THEOREM ReuseIsSafe ==
  ASSUME QuiesceAlone
  PROVE  Spec => []SafeReuse
<1>1. Inv => SafeReuse
  BY DEF Inv
<1> QED BY InitInv, NextInv, <1>1, PTL DEF Spec

\* Under the same discipline, side work is never queued while reuse is enabled.
THEOREM ReuseDisabledBeforeSideWork ==
  ASSUME QuiesceAlone
  PROVE  Spec => []ReuseIsDefaultOnly
<1>1. Inv => ReuseIsDefaultOnly
  BY DEF Inv, Flags, SideQuiet, ReuseIsDefaultOnly
<1> QED BY InitInv, NextInv, <1>1, PTL DEF Spec

-----------------------------------------------------------------------------
(* Where the blocks are: this part holds whether or not callers quiesce    *)
(* alone.                                                                  *)

PooledAt(b, n, i) == i \in 1 .. Len(retired[n]) /\ retired[n][i] = b
RecordedAt(b, t, i) == i \in 1 .. Len(deferred[t]) /\ deferred[t][i] = b
NotPooled(b) == \A n \in Sizes, i \in Nat : ~PooledAt(b, n, i)
NotRecorded(b) == \A t \in Threads, i \in Nat : ~RecordedAt(b, t, i)
NotFreeing(b) == \A t \in Threads : b \notin freeing[t]

\* The five places a block can be in, each the only one.
IsLive(b) ==
  b \in live /\ b \notin driver /\ NotPooled(b) /\ NotRecorded(b) /\ NotFreeing(b)
IsWithDriver(b) ==
  b \notin live /\ b \in driver /\ NotPooled(b) /\ NotRecorded(b) /\ NotFreeing(b)
IsPooledAt(b, n, i) ==
  /\ b \notin live /\ b \notin driver /\ NotRecorded(b) /\ NotFreeing(b)
  /\ \A m \in Sizes, j \in Nat : PooledAt(b, m, j) <=> m = n /\ j = i
IsRecordedAt(b, t, i) ==
  /\ b \notin live /\ b \notin driver /\ NotPooled(b) /\ NotFreeing(b)
  /\ \A u \in Threads, j \in Nat : RecordedAt(b, u, j) <=> u = t /\ j = i
IsFreedBy(b, t) ==
  /\ b \notin live /\ b \notin driver /\ NotPooled(b) /\ NotRecorded(b)
  /\ \A u \in Threads : b \in freeing[u] <=> u = t
Somewhere(b) ==
  \/ IsLive(b) \/ IsWithDriver(b)
  \/ \E n \in Sizes, i \in Nat : IsPooledAt(b, n, i)
  \/ \E t \in Threads, i \in Nat : IsRecordedAt(b, t, i)
  \/ \E t \in Threads : IsFreedBy(b, t)

\* A thread that is not about to free has nothing to free.
Handed == \A t \in Threads : pc[t] # "freeing" => freeing[t] = {}
SizesFit == \A n \in Sizes : \A i \in 1 .. Len(retired[n]) : Size[retired[n][i]] = n

CountsHeld ==
  IsFiniteSet(BytesOf(Pooled)) /\ cached = Cardinality(BytesOf(Pooled)) /\ cached <= CacheLimit

Placed ==
  /\ TypeOK /\ Handed /\ (\A b \in Blocks : Somewhere(b)) /\ SizesFit /\ CountsHeld

-----------------------------------------------------------------------------
(* What the invariant says of the sets the properties name.                *)

LEMMA BlockSizes ==
  /\ \A b \in Blocks : Size[b] \in Nat \ {0} /\ Size[b] \in Sizes
  /\ CacheLimit \in Nat /\ ScopeCapacity \in Nat \ {0}
BY AllocatorAssumption DEF Sizes

LEMMA AppendIs ==
  ASSUME NEW S, NEW seq \in Seq(S), NEW e \in S
  PROVE  /\ Append(seq, e) \in Seq(S) /\ Len(seq) \in Nat /\ Len(Append(seq, e)) = Len(seq) + 1
         /\ \A i \in 1 .. Len(seq) : Append(seq, e)[i] = seq[i]
         /\ Append(seq, e)[Len(seq) + 1] = e
BY AppendProperties, LenProperties

LEMMA FrontIs ==
  ASSUME NEW S, NEW seq \in Seq(S), Len(seq) \in Nat \ {0}
  PROVE  /\ Front(seq) \in Seq(S) /\ Len(Front(seq)) = Len(seq) - 1
         /\ \A i \in 1 .. Len(seq) - 1 : Front(seq)[i] = seq[i]
<1>1. Len(seq) \in Nat \ {0} /\ DOMAIN seq = 1 .. Len(seq)
  BY LenProperties
<1>2. /\ SubSeq(seq, 1, Len(seq) - 1) \in Seq(S)
      /\ Len(SubSeq(seq, 1, Len(seq) - 1)) = Len(seq) - 1
      /\ \A i \in 1 .. Len(seq) - 1 : SubSeq(seq, 1, Len(seq) - 1)[i] = seq[i]
  BY <1>1, SubSeqProperties
<1> QED BY <1>2 DEF Front

LEMMA PoolStack ==
  ASSUME TypeOK, NEW n \in Sizes
  PROVE  /\ retired[n] \in Seq(Blocks) /\ Len(retired[n]) \in Nat
         /\ DOMAIN retired[n] = 1 .. Len(retired[n])
         /\ \A i \in 1 .. Len(retired[n]) : retired[n][i] \in Blocks
<1>1. retired[n] \in Seq(Blocks)
  BY DEF TypeOK
<1> QED BY <1>1, LenProperties, ElementOfSeq

LEMMA ScopeRecords ==
  ASSUME TypeOK, NEW t \in Threads
  PROVE  /\ deferred[t] \in Seq(Blocks) /\ Len(deferred[t]) \in Nat
         /\ DOMAIN deferred[t] = 1 .. Len(deferred[t])
         /\ \A i \in 1 .. Len(deferred[t]) : deferred[t][i] \in Blocks
<1>1. deferred[t] \in Seq(Blocks)
  BY DEF TypeOK
<1> QED BY <1>1, LenProperties, ElementOfSeq

LEMMA PooledIs ==
  ASSUME TypeOK, NEW b
  PROVE  b \in Pooled <=> \E n \in Sizes, i \in Nat : PooledAt(b, n, i)
BY PoolStack DEF Pooled, ToSet, PooledAt

LEMMA PlacesAre ==
  ASSUME TypeOK, NEW b, NEW p
  PROVE  p \in Places(b) <=>
           \/ b \in live /\ p = <<"live", 0, 0>>
           \/ b \in driver /\ p = <<"driver", 0, 0>>
           \/ \E n \in Sizes, i \in Nat : PooledAt(b, n, i) /\ p = <<"retired", n, i>>
           \/ \E t \in Threads, i \in Nat : RecordedAt(b, t, i) /\ p = <<"deferred", t, i>>
           \/ \E t \in Threads : b \in freeing[t] /\ p = <<"freeing", t, 0>>
<1>1. \A n \in Sizes : \A i : i \in Positions(retired[n], b) <=> i \in Nat /\ PooledAt(b, n, i)
  BY PoolStack DEF Positions, PooledAt
<1>2. \A t \in Threads : \A i : i \in Positions(deferred[t], b) <=> i \in Nat /\ RecordedAt(b, t, i)
  BY ScopeRecords DEF Positions, RecordedAt
<1>3. /\ p \in {<<"live", 0, 0>> : x \in live \cap {b}} <=> b \in live /\ p = <<"live", 0, 0>>
      /\ p \in {<<"driver", 0, 0>> : x \in driver \cap {b}} <=> b \in driver /\ p = <<"driver", 0, 0>>
  OBVIOUS
<1>4. p \in UNION {{<<"retired", n, i>> : i \in Positions(retired[n], b)} : n \in Sizes} <=>
        \E n \in Sizes, i \in Nat : PooledAt(b, n, i) /\ p = <<"retired", n, i>>
  BY <1>1
<1>5. p \in UNION {{<<"deferred", t, i>> : i \in Positions(deferred[t], b)} : t \in Threads} <=>
        \E t \in Threads, i \in Nat : RecordedAt(b, t, i) /\ p = <<"deferred", t, i>>
  BY <1>2
<1>6. p \in {<<"freeing", t, 0>> : t \in {u \in Threads : b \in freeing[u]}} <=>
        \E t \in Threads : b \in freeing[t] /\ p = <<"freeing", t, 0>>
  OBVIOUS
<1> QED BY <1>3, <1>4, <1>5, <1>6 DEF Places

LEMMA OnePlace ==
  ASSUME TypeOK, NEW b, Somewhere(b)
  PROVE  Cardinality(Places(b)) = 1
<1> SUFFICES \E p : Places(b) = {p}
  BY FS_Singleton
<1>1. CASE IsLive(b)
  <2>1. \A p : p \in Places(b) <=> p = <<"live", 0, 0>>
    BY <1>1, PlacesAre DEF IsLive, NotPooled, NotRecorded, NotFreeing
  <2>2. Places(b) = {<<"live", 0, 0>>}
    BY <2>1
  <2> QED BY <2>2
<1>2. CASE IsWithDriver(b)
  <2>1. \A p : p \in Places(b) <=> p = <<"driver", 0, 0>>
    BY <1>2, PlacesAre DEF IsWithDriver, NotPooled, NotRecorded, NotFreeing
  <2>2. Places(b) = {<<"driver", 0, 0>>}
    BY <2>1
  <2> QED BY <2>2
<1>3. ASSUME NEW n \in Sizes, NEW i \in Nat, IsPooledAt(b, n, i)
      PROVE  \E p : Places(b) = {p}
  <2>1. \A p : p \in Places(b) <=> p = <<"retired", n, i>>
    BY <1>3, PlacesAre DEF IsPooledAt, NotRecorded, NotFreeing
  <2>2. Places(b) = {<<"retired", n, i>>}
    BY <2>1
  <2> QED BY <2>2
<1>4. ASSUME NEW t \in Threads, NEW i \in Nat, IsRecordedAt(b, t, i)
      PROVE  \E p : Places(b) = {p}
  <2>1. \A p : p \in Places(b) <=> p = <<"deferred", t, i>>
    BY <1>4, PlacesAre DEF IsRecordedAt, NotPooled, NotFreeing
  <2>2. Places(b) = {<<"deferred", t, i>>}
    BY <2>1
  <2> QED BY <2>2
<1>5. ASSUME NEW t \in Threads, IsFreedBy(b, t)
      PROVE  \E p : Places(b) = {p}
  <2>1. \A p : p \in Places(b) <=> p = <<"freeing", t, 0>>
    BY <1>5, PlacesAre DEF IsFreedBy, NotPooled, NotRecorded
  <2>2. Places(b) = {<<"freeing", t, 0>>}
    BY <2>1
  <2> QED BY <2>2
<1> QED BY <1>1, <1>2, <1>3, <1>4, <1>5 DEF Somewhere

LEMMA BlockBytes ==
  ASSUME NEW b \in Blocks
  PROVE  IsFiniteSet(Bytes(b)) /\ Cardinality(Bytes(b)) = Size[b]
<1>1. Size[b] \in Nat \ {0}
  BY BlockSizes
<1>2. IsFiniteSet({b}) /\ Cardinality({b}) = 1
  BY FS_Singleton
<1>3. IsFiniteSet(1 .. Size[b]) /\ Cardinality(1 .. Size[b]) = Size[b]
  BY <1>1, FS_Interval
<1>4. /\ IsFiniteSet({b} \X (1 .. Size[b]))
      /\ Cardinality({b} \X (1 .. Size[b])) = Cardinality({b}) * Cardinality(1 .. Size[b])
  BY <1>2, <1>3, FS_Product
<1> QED BY <1>1, <1>2, <1>3, <1>4 DEF Bytes

\* The bytes of a pool with one block more.
LEMMA BytesAdd ==
  ASSUME NEW P, NEW b \in Blocks, b \notin P, IsFiniteSet(BytesOf(P))
  PROVE  /\ IsFiniteSet(BytesOf(P \cup {b})) /\ Cardinality(BytesOf(P)) \in Nat
         /\ Cardinality(BytesOf(P \cup {b})) = Cardinality(BytesOf(P)) + Size[b]
<1>1. BytesOf(P \cup {b}) = BytesOf(P) \cup Bytes(b)
  BY DEF BytesOf
<1>2. BytesOf(P) \cap Bytes(b) = {}
  BY DEF Bytes, BytesOf
<1>3. IsFiniteSet(Bytes(b)) /\ Cardinality(Bytes(b)) = Size[b] /\ Size[b] \in Nat
  BY BlockBytes, BlockSizes
<1>4. Cardinality(BytesOf(P)) \in Nat
  BY FS_CardinalityType
<1>5. /\ IsFiniteSet(BytesOf(P) \cup Bytes(b))
      /\ Cardinality(BytesOf(P) \cup Bytes(b))
           = Cardinality(BytesOf(P)) + Cardinality(Bytes(b)) - Cardinality(BytesOf(P) \cap Bytes(b))
  BY <1>3, FS_Union
<1>6. Cardinality(BytesOf(P) \cap Bytes(b)) = 0
  BY <1>2, FS_EmptySet
<1>7. Cardinality(BytesOf(P) \cup Bytes(b)) = Cardinality(BytesOf(P)) + Size[b]
  BY <1>3, <1>4, <1>5, <1>6
<1> QED BY <1>1, <1>4, <1>5, <1>7

LEMMA NotOver ==
  ASSUME NEW a \in Nat, NEW c \in Nat, a <= c
  PROVE  Min({a, c}) = a
BY DEF Min

-----------------------------------------------------------------------------
(* Steps that move blocks.                                                 *)

\* A block that a step leaves where it is.
Stays(b) ==
  /\ b \in live' <=> b \in live
  /\ b \in driver' <=> b \in driver
  /\ \A n \in Sizes, i \in Nat : PooledAt(b, n, i)' <=> PooledAt(b, n, i)
  /\ \A t \in Threads, i \in Nat : RecordedAt(b, t, i)' <=> RecordedAt(b, t, i)
  /\ \A t \in Threads : b \in freeing'[t] <=> b \in freeing[t]

LEMMA StaysSomewhere ==
  ASSUME NEW b, Somewhere(b), Stays(b)
  PROVE  Somewhere(b)'
<1> USE DEF Stays, NotPooled, NotRecorded, NotFreeing
<1>1. CASE IsLive(b)
  BY <1>1 DEF Somewhere, IsLive
<1>2. CASE IsWithDriver(b)
  BY <1>2 DEF Somewhere, IsWithDriver
<1>3. ASSUME NEW n \in Sizes, NEW i \in Nat, IsPooledAt(b, n, i) PROVE Somewhere(b)'
  <2>1. IsPooledAt(b, n, i)'
    BY <1>3 DEF IsPooledAt
  <2> QED BY <2>1 DEF Somewhere
<1>4. ASSUME NEW t \in Threads, NEW i \in Nat, IsRecordedAt(b, t, i) PROVE Somewhere(b)'
  <2>1. IsRecordedAt(b, t, i)'
    BY <1>4 DEF IsRecordedAt
  <2> QED BY <2>1 DEF Somewhere
<1>5. ASSUME NEW t \in Threads, IsFreedBy(b, t) PROVE Somewhere(b)'
  <2>1. IsFreedBy(b, t)'
    BY <1>5 DEF IsFreedBy
  <2> QED BY <2>1 DEF Somewhere
<1> QED BY <1>1, <1>2, <1>3, <1>4, <1>5 DEF Somewhere

\* A block that is in a place is only there.
LEMMA OnlyThere ==
  ASSUME NEW b, Somewhere(b)
  PROVE  /\ b \in live => IsLive(b)
         /\ b \in driver => IsWithDriver(b)
         /\ \A n \in Sizes, i \in Nat : PooledAt(b, n, i) => IsPooledAt(b, n, i)
         /\ \A t \in Threads, i \in Nat : RecordedAt(b, t, i) => IsRecordedAt(b, t, i)
         /\ \A t \in Threads : b \in freeing[t] => IsFreedBy(b, t)
BY DEF Somewhere, IsLive, IsWithDriver, IsPooledAt, IsRecordedAt, IsFreedBy,
   NotPooled, NotRecorded, NotFreeing

\* The pool that a step leaves alone.
LEMMA SamePool ==
  ASSUME SizesFit, CountsHeld, UNCHANGED <<retired, cached>>
  PROVE  SizesFit' /\ CountsHeld' /\ \A b, n, i : PooledAt(b, n, i)' <=> PooledAt(b, n, i)
BY DEF SizesFit, CountsHeld, Pooled, PooledAt

\* Steps that move no block.
LEMMA QuietPlaced ==
  ASSUME Placed, UNCHANGED <<retired, cached, freeing, deferred, live, driver>>, TypeOK',
         \A t \in Threads : pc[t] = "freeing" => pc'[t] = "freeing"
  PROVE  Placed'
<1>1. SizesFit' /\ CountsHeld' /\ \A b, n, i : PooledAt(b, n, i)' <=> PooledAt(b, n, i)
  BY SamePool DEF Placed
<1>2. \A b \in Blocks : Stays(b)
  BY <1>1 DEF Stays, RecordedAt
<1>3. \A b \in Blocks : Somewhere(b)'
  BY <1>2, StaysSomewhere DEF Placed
<1>4. Handed'
  BY DEF Placed, Handed
<1> QED BY <1>1, <1>3, <1>4 DEF Placed

LEMMA AllocateBackendPlaced ==
  ASSUME Placed, NEW t \in Threads, NEW b \in Blocks, AllocateBackend(t, b)
  PROVE  Placed'
<1>1. /\ b \in driver /\ driver' = driver \ {b} /\ live' = live \cup {b}
      /\ UNCHANGED <<enabled, forbidden, mutex, retired, cached, created, pc, freeing, scope,
                     deferred, queue, awaited>>
  BY DEF AllocateBackend, poolVars, threadVars, deviceVars
<1>2. TypeOK' /\ Handed'
  BY <1>1 DEF Placed, TypeOK, Handed
<1>3. SizesFit' /\ CountsHeld' /\ \A c, n, i : PooledAt(c, n, i)' <=> PooledAt(c, n, i)
  BY <1>1, SamePool DEF Placed
<1>4. \A c \in Blocks \ {b} : Stays(c)
  BY <1>1, <1>3 DEF Stays, RecordedAt
<1>5. IsWithDriver(b)
  BY <1>1, OnlyThere DEF Placed
<1>6. IsLive(b)'
  BY <1>1, <1>3, <1>5 DEF IsWithDriver, IsLive, NotPooled, NotRecorded, NotFreeing, RecordedAt
<1>7. \A c \in Blocks : Somewhere(c)'
  BY <1>4, <1>6, StaysSomewhere DEF Placed, Somewhere
<1> QED BY <1>2, <1>3, <1>7 DEF Placed

LEMMA AllocateCachedPlaced ==
  ASSUME Placed, NEW t \in Threads, NEW n \in Sizes, AllocateCached(t, n)
  PROVE  Placed'
<1> PICK last : last = Len(retired[n])
  OBVIOUS
<1> PICK b : b = retired[n][last]
  OBVIOUS
<1>0. TypeOK /\ Types
  BY DEF Placed, TypeOK, Types
<1>1. /\ retired[n] # <<>> /\ live' = live \cup {b} /\ cached' = cached - n
      /\ retired' = [retired EXCEPT ![n] = Front(retired[n])]
      /\ UNCHANGED <<enabled, forbidden, mutex, created, pc, freeing, scope, deferred, driver, awaited>>
  BY DEF AllocateCached, BlockTaken, Last, threadVars
<1>2. retired[n] \in Seq(Blocks) /\ last \in Nat \ {0} /\ b \in Blocks
  BY <1>0, <1>1, PoolStack, EmptySeq
<1>3. /\ Front(retired[n]) \in Seq(Blocks) /\ Len(Front(retired[n])) = last - 1
      /\ \A i \in 1 .. last - 1 : Front(retired[n])[i] = retired[n][i]
  BY <1>2, FrontIs
<1>4. retired'[n] = Front(retired[n]) /\ \A m \in Sizes \ {n} : retired'[m] = retired[m]
  BY <1>0, <1>1 DEF TypeOK
<1>5. IsPooledAt(b, n, last) /\ Size[b] = n
  <2>1. PooledAt(b, n, last)
    BY <1>2 DEF PooledAt
  <2> QED BY <1>2, <2>1, OnlyThere DEF Placed, SizesFit
<1>6. \A c : \A m \in Sizes, i \in Nat : PooledAt(c, m, i)' <=> PooledAt(c, m, i) /\ ~(m = n /\ i = last)
  BY <1>2, <1>3, <1>4 DEF PooledAt
<1>7. /\ NotPooled(b)'
      /\ \A c : c # b => \A m \in Sizes, i \in Nat : PooledAt(c, m, i)' <=> PooledAt(c, m, i)
  <2>1. \A m \in Sizes, i \in Nat : ~PooledAt(b, m, i)'
    BY <1>5, <1>6 DEF IsPooledAt
  <2>2. \A c : PooledAt(c, n, last) => c = b
    BY DEF PooledAt
  <2> QED BY <1>6, <2>1, <2>2 DEF NotPooled
<1>8. IsLive(b)'
  BY <1>1, <1>5, <1>7 DEF IsLive, IsPooledAt, NotRecorded, NotFreeing, RecordedAt
<1>9. \A c \in Blocks \ {b} : Stays(c)
  BY <1>1, <1>7 DEF Stays, RecordedAt
<1>10. \A c \in Blocks : Somewhere(c)'
  BY <1>8, <1>9, StaysSomewhere DEF Placed, Somewhere
<1>11. queue' \in [Streams -> Seq(Work)]
  BY <1>0, ReuseMarks
<1>12. retired' \in [Sizes -> Seq(Blocks)]
  BY <1>0, <1>1, <1>3 DEF TypeOK
<1>13. SizesFit'
  <2>1. \A m \in Sizes : \A i \in 1 .. Len(retired[m]) : Size[retired[m][i]] = m
    BY DEF Placed, SizesFit
  <2>2. ASSUME NEW i \in 1 .. Len(retired'[n]) PROVE Size[retired'[n][i]] = n
    <3>1. i \in 1 .. last - 1 /\ retired'[n][i] = retired[n][i]
      BY <1>3, <1>4
    <3>2. i \in 1 .. Len(retired[n])
      BY <1>2, <3>1
    <3> QED BY <2>1, <3>1, <3>2
  <2> QED BY <1>4, <2>1, <2>2 DEF SizesFit
<1>14. CountsHeld' /\ cached' \in Nat
  <2>1. \A c : c \in Pooled' <=> \E m \in Sizes, i \in Nat : PooledAt(c, m, i)'
    BY <1>12 DEF Pooled, ToSet, PooledAt
  <2>2. \A c : c \in Pooled <=> \E m \in Sizes, i \in Nat : PooledAt(c, m, i)
    BY <1>0, PooledIs
  <2>3. Pooled = Pooled' \cup {b} /\ b \notin Pooled'
    <3>1. b \notin Pooled'
      BY <1>7, <2>1 DEF NotPooled
    <3>2. b \in Pooled
      BY <1>2, <1>5, <2>2 DEF IsPooledAt
    <3>3. \A c : c # b => (c \in Pooled' <=> c \in Pooled)
      BY <1>7, <2>1, <2>2
    <3> QED BY <3>1, <3>2, <3>3
  <2>4. PICK P : P = Pooled'
    OBVIOUS
  <2>5. IsFiniteSet(BytesOf(P))
    <3>1. BytesOf(P) \subseteq BytesOf(Pooled) /\ IsFiniteSet(BytesOf(Pooled))
      BY <2>3, <2>4 DEF BytesOf, Placed, CountsHeld
    <3> QED BY <3>1, FS_Subset
  <2>6. /\ Cardinality(BytesOf(P)) \in Nat
        /\ Cardinality(BytesOf(Pooled)) = Cardinality(BytesOf(P)) + n
    BY <1>2, <1>5, <2>3, <2>4, <2>5, BytesAdd
  <2>7. cached' = Cardinality(BytesOf(P)) /\ cached' <= CacheLimit /\ cached' \in Nat
    BY <1>1, <1>2, <1>5, <2>6, BlockSizes DEF Placed, CountsHeld
  <2> QED BY <2>4, <2>5, <2>7 DEF CountsHeld
<1>15. TypeOK'
  BY <1>0, <1>1, <1>2, <1>11, <1>12, <1>14 DEF TypeOK
<1>16. Handed'
  BY <1>1 DEF Placed, Handed
<1> QED BY <1>10, <1>13, <1>14, <1>15, <1>16 DEF Placed

LEMMA RetirePlaced ==
  ASSUME Placed, NEW t \in Threads, NEW b \in Blocks, Deallocate(t, b), Caches(b),
         retired' = [retired EXCEPT ![Size[b]] = Append(@, b)], cached' = Counted(b),
         UNCHANGED <<pc, freeing>>
  PROVE  Placed'
<1> DEFINE n == Size[b]
<1> PICK last : last = Len(retired[n]) + 1
  OBVIOUS
<1>0. TypeOK /\ n \in Sizes /\ n \in Nat \ {0} /\ CacheLimit \in Nat
  BY BlockSizes DEF Placed
<1>1. /\ b \in live /\ live' = live \ {b}
      /\ UNCHANGED <<enabled, forbidden, mutex, created, scope, deferred, driver, queue, awaited>>
  BY DEF Deallocate, deviceVars
<1>2. /\ retired[n] \in Seq(Blocks) /\ Len(retired[n]) \in Nat /\ last \in Nat
      /\ Append(retired[n], b) \in Seq(Blocks) /\ Len(Append(retired[n], b)) = last
      /\ \A i \in 1 .. Len(retired[n]) : Append(retired[n], b)[i] = retired[n][i]
      /\ Append(retired[n], b)[last] = b
  BY <1>0, PoolStack, AppendIs
<1>3. retired'[n] = Append(retired[n], b) /\ \A m \in Sizes \ {n} : retired'[m] = retired[m]
  BY <1>0 DEF TypeOK
<1>4. IsLive(b)
  BY <1>1, OnlyThere DEF Placed
<1>5. \A c : \A m \in Sizes, i \in Nat :
        PooledAt(c, m, i)' <=> PooledAt(c, m, i) \/ (c = b /\ m = n /\ i = last)
  BY <1>0, <1>2, <1>3 DEF PooledAt
<1>6. IsPooledAt(b, n, last)'
  <2>1. \A m \in Sizes, i \in Nat : PooledAt(b, m, i)' <=> m = n /\ i = last
    BY <1>4, <1>5 DEF IsLive, NotPooled
  <2> QED BY <1>1, <1>4, <2>1 DEF IsLive, IsPooledAt, NotRecorded, NotFreeing, RecordedAt
<1>7. \A c \in Blocks \ {b} : Stays(c)
  BY <1>1, <1>5 DEF Stays, RecordedAt
<1>8. \A c \in Blocks : Somewhere(c)'
  BY <1>0, <1>2, <1>6, <1>7, StaysSomewhere DEF Placed, Somewhere
<1>9. retired' \in [Sizes -> Seq(Blocks)]
  BY <1>0, <1>2 DEF TypeOK
<1>10. SizesFit'
  BY <1>0, <1>2, <1>3 DEF Placed, SizesFit
<1>11. CountsHeld' /\ cached' \in Nat
  <2>1. \A c : c \in Pooled' <=> \E m \in Sizes, i \in Nat : PooledAt(c, m, i)'
    BY <1>9 DEF Pooled, ToSet, PooledAt
  <2>2. \A c : c \in Pooled <=> \E m \in Sizes, i \in Nat : PooledAt(c, m, i)
    BY <1>0, PooledIs
  <2>3. Pooled' = Pooled \cup {b} /\ b \notin Pooled
    <3>1. b \notin Pooled
      BY <1>4, <2>2 DEF IsLive, NotPooled
    <3>2. \A c : c \in Pooled' <=> c \in Pooled \/ c = b
      BY <1>0, <1>2, <1>5, <2>1, <2>2
    <3> QED BY <3>1, <3>2
  <2>4. PICK P : P = Pooled
    OBVIOUS
  <2>5. /\ IsFiniteSet(BytesOf(P)) /\ cached = Cardinality(BytesOf(P)) /\ cached <= CacheLimit
    BY <2>4 DEF Placed, CountsHeld
  <2>6. /\ Cardinality(BytesOf(P)) \in Nat /\ IsFiniteSet(BytesOf(P \cup {b}))
        /\ Cardinality(BytesOf(P \cup {b})) = Cardinality(BytesOf(P)) + n
    BY <2>3, <2>4, <2>5, BytesAdd
  <2>7. Min({cached, CacheLimit}) = cached
    BY <1>0, <2>5, <2>6, NotOver
  <2>8. n + cached <= CacheLimit
    BY <2>7 DEF Caches
  <2>9. /\ cached' = Cardinality(BytesOf(P \cup {b})) /\ cached' <= CacheLimit /\ cached' \in Nat
    BY <1>0, <2>5, <2>6, <2>8 DEF Counted
  <2>10. Pooled' = P \cup {b}
    BY <2>3, <2>4
  <2> QED BY <2>6, <2>9, <2>10 DEF CountsHeld
<1>12. TypeOK'
  BY <1>0, <1>1, <1>9, <1>11 DEF TypeOK
<1>13. Handed'
  BY DEF Placed, Handed
<1> QED BY <1>8, <1>10, <1>11, <1>12, <1>13 DEF Placed

LEMMA HandToFreePlaced ==
  ASSUME Placed, NEW t \in Threads, NEW b \in Blocks, Deallocate(t, b),
         pc' = [pc EXCEPT ![t] = "freeing"], freeing' = [freeing EXCEPT ![t] = {b}],
         UNCHANGED <<retired, cached>>
  PROVE  Placed'
<1>0. TypeOK
  BY DEF Placed
<1>1. /\ pc[t] = "run" /\ b \in live /\ live' = live \ {b}
      /\ UNCHANGED <<enabled, forbidden, mutex, created, scope, deferred, driver, queue, awaited>>
  BY DEF Deallocate, deviceVars, Running
<1>2. TypeOK'
  BY <1>0, <1>1 DEF TypeOK
<1>3. freeing[t] = {} /\ freeing'[t] = {b} /\ \A u \in Threads \ {t} : freeing'[u] = freeing[u]
  BY <1>0, <1>1 DEF Placed, Handed, TypeOK
<1>4. Handed'
  BY <1>0, <1>3 DEF Placed, Handed, TypeOK
<1>5. SizesFit' /\ CountsHeld' /\ \A c, n, i : PooledAt(c, n, i)' <=> PooledAt(c, n, i)
  BY SamePool DEF Placed
<1>6. IsLive(b)
  BY <1>1, OnlyThere DEF Placed
<1>7. IsFreedBy(b, t)'
  BY <1>1, <1>3, <1>5, <1>6 DEF IsFreedBy, IsLive, NotPooled, NotRecorded, NotFreeing, RecordedAt
<1>8. \A c \in Blocks \ {b} : Stays(c)
  BY <1>1, <1>3, <1>5 DEF Stays, RecordedAt
<1>9. \A c \in Blocks : Somewhere(c)'
  BY <1>7, <1>8, StaysSomewhere DEF Placed, Somewhere
<1> QED BY <1>2, <1>4, <1>5, <1>9 DEF Placed

LEMMA DeallocatePlaced ==
  ASSUME Placed, NEW t \in Threads, NEW b \in Blocks, Deallocate(t, b)
  PROVE  Placed'
BY RetirePlaced, HandToFreePlaced DEF Deallocate

LEMMA FreeBackendPlaced ==
  ASSUME Placed, NEW t \in Threads, FreeBackend(t)
  PROVE  Placed'
<1>0. TypeOK
  BY DEF Placed
<1>1. /\ driver' = driver \cup freeing[t] /\ freeing' = [freeing EXCEPT ![t] = {}]
      /\ pc' = [pc EXCEPT ![t] = "run"]
      /\ UNCHANGED <<enabled, forbidden, mutex, retired, cached, created, scope, deferred, live,
                     queue, awaited>>
  BY DEF FreeBackend, poolVars, deviceVars
<1>2. TypeOK'
  BY <1>0, <1>1 DEF TypeOK
<1>3. freeing'[t] = {} /\ \A u \in Threads \ {t} : freeing'[u] = freeing[u]
  BY <1>0, <1>1 DEF TypeOK
<1>4. Handed'
  BY <1>0, <1>1, <1>3 DEF Placed, Handed, TypeOK
<1>5. SizesFit' /\ CountsHeld' /\ \A c, n, i : PooledAt(c, n, i)' <=> PooledAt(c, n, i)
  BY <1>1, SamePool DEF Placed
<1>6. ASSUME NEW c \in Blocks PROVE Somewhere(c)'
  <2>1. CASE c \in freeing[t]
    <3>1. IsFreedBy(c, t)
      BY <2>1, OnlyThere DEF Placed
    <3>2. IsWithDriver(c)'
      BY <1>1, <1>3, <1>5, <2>1, <3>1
         DEF IsFreedBy, IsWithDriver, NotPooled, NotRecorded, NotFreeing, RecordedAt
    <3> QED BY <3>2 DEF Somewhere
  <2>2. CASE c \notin freeing[t]
    <3>1. Stays(c)
      BY <1>1, <1>3, <1>5, <2>2 DEF Stays, RecordedAt
    <3> QED BY <3>1, StaysSomewhere DEF Placed
  <2> QED BY <2>1, <2>2
<1> QED BY <1>2, <1>4, <1>5, <1>6 DEF Placed

LEMMA RecordPlaced ==
  ASSUME Placed, NEW t \in Threads, NEW b \in Blocks, Defer(t, b),
         deferred' = [deferred EXCEPT ![t] = Append(@, b)], UNCHANGED driver
  PROVE  Placed'
<1> PICK last : last = Len(deferred[t]) + 1
  OBVIOUS
<1>0. TypeOK
  BY DEF Placed
<1>1. /\ b \in live /\ live' = live \ {b}
      /\ UNCHANGED <<enabled, forbidden, mutex, retired, cached, created, pc, freeing, scope,
                     queue, awaited>>
  BY DEF Defer, poolVars, deviceVars
<1>2. /\ deferred[t] \in Seq(Blocks) /\ Len(deferred[t]) \in Nat /\ last \in Nat
      /\ Append(deferred[t], b) \in Seq(Blocks) /\ Len(Append(deferred[t], b)) = last
      /\ \A i \in 1 .. Len(deferred[t]) : Append(deferred[t], b)[i] = deferred[t][i]
      /\ Append(deferred[t], b)[last] = b
  BY <1>0, ScopeRecords, AppendIs
<1>3. deferred'[t] = Append(deferred[t], b) /\ \A u \in Threads \ {t} : deferred'[u] = deferred[u]
  BY <1>0 DEF TypeOK
<1>4. TypeOK' /\ Handed'
  BY <1>0, <1>1, <1>2 DEF Placed, TypeOK, Handed
<1>5. SizesFit' /\ CountsHeld' /\ \A c, n, i : PooledAt(c, n, i)' <=> PooledAt(c, n, i)
  BY <1>1, SamePool DEF Placed
<1>6. IsLive(b)
  BY <1>1, OnlyThere DEF Placed
<1>7. \A c : \A u \in Threads, i \in Nat :
        RecordedAt(c, u, i)' <=> RecordedAt(c, u, i) \/ (c = b /\ u = t /\ i = last)
  BY <1>2, <1>3 DEF RecordedAt
<1>8. IsRecordedAt(b, t, last)'
  <2>1. \A u \in Threads, i \in Nat : RecordedAt(b, u, i)' <=> u = t /\ i = last
    BY <1>6, <1>7 DEF IsLive, NotRecorded
  <2> QED BY <1>1, <1>5, <1>6, <2>1 DEF IsLive, IsRecordedAt, NotPooled, NotFreeing
<1>9. \A c \in Blocks \ {b} : Stays(c)
  BY <1>1, <1>5, <1>7 DEF Stays
<1>10. \A c \in Blocks : Somewhere(c)'
  BY <1>2, <1>8, <1>9, StaysSomewhere DEF Placed, Somewhere
<1> QED BY <1>4, <1>5, <1>10 DEF Placed

\* What a scope records goes to the driver when it is flushed.
LEMMA FlushMoves ==
  ASSUME Placed, NEW t \in Threads, UNCHANGED <<retired, cached, freeing>>,
         driver' = driver \cup ToSet(deferred[t]),
         NEW c \in Blocks, c \in live' <=> c \in live,
         \A u \in Threads \ {t} : deferred'[u] = deferred[u],
         \A i \in Nat : ~RecordedAt(c, t, i)'
  PROVE  Somewhere(c)'
<1>0. TypeOK
  BY DEF Placed
<1>1. \A n, i : PooledAt(c, n, i)' <=> PooledAt(c, n, i)
  BY DEF PooledAt
<1>2. \A u \in Threads \ {t}, i \in Nat : RecordedAt(c, u, i)' <=> RecordedAt(c, u, i)
  BY DEF RecordedAt
<1>3. c \in ToSet(deferred[t]) <=> \E i \in Nat : RecordedAt(c, t, i)
  BY <1>0, ScopeRecords DEF ToSet, RecordedAt
<1>4. CASE c \in ToSet(deferred[t])
  <2>1. PICK i \in Nat : RecordedAt(c, t, i)
    BY <1>3, <1>4
  <2>2. IsRecordedAt(c, t, i)
    BY <2>1, OnlyThere DEF Placed
  <2>3. \A u \in Threads, j \in Nat : ~RecordedAt(c, u, j)'
    BY <1>2, <2>2 DEF IsRecordedAt
  <2>4. IsWithDriver(c)'
    BY <1>1, <1>4, <2>2, <2>3 DEF IsRecordedAt, IsWithDriver, NotPooled, NotRecorded, NotFreeing
  <2> QED BY <2>4 DEF Somewhere
<1>5. CASE c \notin ToSet(deferred[t])
  <2>1. Stays(c)
    BY <1>1, <1>2, <1>3, <1>5 DEF Stays
  <2> QED BY <2>1, StaysSomewhere DEF Placed
<1> QED BY <1>4, <1>5

LEMMA FlushedTypes ==
  ASSUME TypeOK, NEW t \in Threads
  PROVE  driver \cup ToSet(deferred[t]) \subseteq Blocks
BY ScopeRecords DEF TypeOK, ToSet

LEMMA FlushPlaced ==
  ASSUME Placed, NEW t \in Threads, NEW b \in Blocks, Defer(t, b),
         driver' = driver \cup ToSet(deferred[t]), deferred' = [deferred EXCEPT ![t] = <<b>>]
  PROVE  Placed'
<1>0. TypeOK
  BY DEF Placed
<1>1. /\ b \in live /\ live' = live \ {b}
      /\ UNCHANGED <<enabled, forbidden, mutex, retired, cached, created, pc, freeing, scope,
                     queue, awaited>>
  BY DEF Defer, poolVars, deviceVars
<1>2. <<b>> \in Seq(Blocks) /\ Len(<<b>>) = 1 /\ <<b>>[1] = b
  OBVIOUS
<1>3. deferred'[t] = <<b>> /\ \A u \in Threads \ {t} : deferred'[u] = deferred[u]
  BY <1>0 DEF TypeOK
<1>4. TypeOK' /\ Handed'
  BY <1>0, <1>1, <1>2, FlushedTypes DEF Placed, TypeOK, Handed
<1>5. SizesFit' /\ CountsHeld' /\ \A c, n, i : PooledAt(c, n, i)' <=> PooledAt(c, n, i)
  BY <1>1, SamePool DEF Placed
<1>6. IsLive(b)
  BY <1>1, OnlyThere DEF Placed
<1>7. \A c, i : RecordedAt(c, t, i)' <=> c = b /\ i = 1
  BY <1>2, <1>3 DEF RecordedAt
<1>8. IsRecordedAt(b, t, 1)'
  <2>1. \A u \in Threads, i \in Nat : RecordedAt(b, u, i)' <=> u = t /\ i = 1
    <3>1. \A u \in Threads \ {t}, i \in Nat : ~RecordedAt(b, u, i)'
      BY <1>3, <1>6 DEF IsLive, NotRecorded, RecordedAt
    <3> QED BY <1>7, <3>1
  <2>2. b \notin ToSet(deferred[t])
    BY <1>0, <1>6, ScopeRecords DEF IsLive, NotRecorded, RecordedAt, ToSet
  <2> QED BY <1>1, <1>5, <1>6, <2>1, <2>2 DEF IsLive, IsRecordedAt, NotPooled, NotFreeing
<1>9. \A c \in Blocks \ {b} : Somewhere(c)'
  BY <1>1, <1>3, <1>7, FlushMoves
<1>10. \A c \in Blocks : Somewhere(c)'
  BY <1>8, <1>9 DEF Somewhere
<1> QED BY <1>4, <1>5, <1>10 DEF Placed

LEMMA DeferPlaced ==
  ASSUME Placed, NEW t \in Threads, NEW b \in Blocks, Defer(t, b)
  PROVE  Placed'
BY RecordPlaced, FlushPlaced DEF Defer

LEMMA FinishScopePlaced ==
  ASSUME Placed, NEW t \in Threads, FinishScope(t)
  PROVE  Placed'
<1>0. TypeOK
  BY DEF Placed
<1>1. /\ driver' = driver \cup ToSet(deferred[t]) /\ deferred' = [deferred EXCEPT ![t] = <<>>]
      /\ scope' = [scope EXCEPT ![t] = "none"]
      /\ UNCHANGED <<enabled, forbidden, mutex, retired, cached, created, pc, freeing, live,
                     queue, awaited>>
  BY DEF FinishScope, poolVars, deviceVars
<1>2. deferred'[t] = <<>> /\ \A u \in Threads \ {t} : deferred'[u] = deferred[u]
  BY <1>0, <1>1 DEF TypeOK
<1>3. <<>> \in Seq(Blocks) /\ Len(<<>>) = 0
  OBVIOUS
<1>4. TypeOK' /\ Handed'
  BY <1>0, <1>1, <1>3, FlushedTypes DEF Placed, TypeOK, Handed
<1>5. SizesFit' /\ CountsHeld'
  BY <1>1, SamePool DEF Placed
<1>6. \A c, i : ~RecordedAt(c, t, i)'
  BY <1>2, <1>3 DEF RecordedAt
<1>7. \A c \in Blocks : Somewhere(c)'
  BY <1>1, <1>2, <1>6, FlushMoves
<1> QED BY <1>4, <1>5, <1>7 DEF Placed

-----------------------------------------------------------------------------
LEMMA InitPlaced == Init => Placed
<1> SUFFICES ASSUME Init PROVE Placed
  OBVIOUS
<1> USE DEF Init
<1>1. <<>> \in Seq(Blocks) /\ <<>> \in Seq(Work) /\ Len(<<>>) = 0 /\ ToSet(<<>>) = {}
  BY DEF ToSet
<1>2. TypeOK
  BY <1>1 DEF TypeOK
<1>3. Handed /\ SizesFit
  BY <1>1 DEF Handed, SizesFit
<1>4. \A b \in Blocks : Somewhere(b)
  BY <1>1 DEF Somewhere, IsWithDriver, NotPooled, NotRecorded, NotFreeing, PooledAt, RecordedAt
<1>5. CountsHeld
  <2>1. Pooled = {}
    BY <1>1 DEF Pooled
  <2>2. BytesOf(Pooled) = {}
    BY <2>1 DEF BytesOf
  <2> QED BY <2>2, FS_EmptySet, BlockSizes DEF CountsHeld
<1> QED BY <1>2, <1>3, <1>4, <1>5 DEF Placed

LEMMA NextPlaced ==
  ASSUME Placed, [Next]_vars
  PROVE  Placed'
<1> USE DEF poolVars, threadVars, deviceVars
<1>0. TypeOK /\ Types
  BY DEF Placed, TypeOK, Types
<1>1. ASSUME NEW t \in Threads, Enable(t) \/ CreateStream(t) \/ ResolveSide(t) PROVE Placed'
  <2>1. TypeOK'
    BY <1>0, <1>1 DEF Enable, CreateStream, ResolveSide, NotifyNonDefaultStream, TypeOK
  <2> QED BY <1>0, <1>1, <2>1, QuietPlaced
          DEF Enable, CreateStream, ResolveSide, NotifyNonDefaultStream, TypeOK, Running
<1>2. ASSUME NEW t \in Threads, QuiesceBegin(t) PROVE Placed'
  <2>1. TypeOK'
    BY <1>0, <1>2 DEF QuiesceBegin, TypeOK
  <2> QED BY <1>0, <1>2, <2>1, QuietPlaced DEF QuiesceBegin, TypeOK, Running
<1>3. ASSUME NEW t \in Threads, QuiesceEnd(t) \/ OperatorEnds(t) PROVE Placed'
  <2>1. TypeOK'
    BY <1>0, <1>3 DEF QuiesceEnd, OperatorEnds, TypeOK
  <2> QED BY <1>0, <1>3, <2>1, QuietPlaced DEF QuiesceEnd, OperatorEnds, TypeOK
<1>4. ASSUME NEW t \in Threads, NEW kind \in {"lifetime", "routed"}, OpenScope(t, kind)
      PROVE  Placed'
  <2>1. TypeOK'
    BY <1>0, <1>4 DEF OpenScope, TypeOK
  <2> QED BY <1>4, <2>1, QuietPlaced DEF OpenScope
<1>5. ASSUME NEW t \in Threads, NEW b \in Blocks, SubmitDefault(t, b) PROVE Placed'
  <2>1. queue' \in [Streams -> Seq(Work)]
    BY <1>0, <1>5, PushAppends DEF SubmitDefault, Streams
  <2>2. TypeOK'
    BY <1>0, <1>5, <2>1 DEF SubmitDefault, TypeOK
  <2> QED BY <1>5, <2>2, QuietPlaced DEF SubmitDefault
<1>6. ASSUME NEW t \in Threads, NEW b \in Blocks, SubmitSide(t, b) PROVE Placed'
  <2>1. queue' \in [Streams -> Seq(Work)]
    BY <1>0, <1>6, PushAppends DEF SubmitSide, Streams
  <2>2. TypeOK'
    BY <1>0, <1>6, <2>1 DEF SubmitSide, TypeOK
  <2> QED BY <1>6, <2>2, QuietPlaced DEF SubmitSide
<1>7. ASSUME NEW s \in Streams, Complete(s) PROVE Placed'
  <2>1. queue' \in [Streams -> Seq(Work)]
    BY <1>0, <1>7, CompleteShifts
  <2>2. awaited' \in [Streams -> Nat]
    BY <1>0, <1>7 DEF Complete, TypeOK
  <2>3. TypeOK'
    BY <1>0, <1>7, <2>1, <2>2 DEF Complete, TypeOK
  <2> QED BY <1>7, <2>3, QuietPlaced DEF Complete
<1>8. CASE UNCHANGED vars
  <2>1. TypeOK'
    BY <1>0, <1>8 DEF vars, TypeOK
  <2> QED BY <1>8, <2>1, QuietPlaced DEF vars
<1> QED
  BY <1>1, <1>2, <1>3, <1>4, <1>5, <1>6, <1>7, <1>8, AllocateCachedPlaced, AllocateBackendPlaced,
     DeallocatePlaced, FreeBackendPlaced, DeferPlaced, FinishScopePlaced DEF Next

LEMMA AlwaysPlaced == Spec => []Placed
BY InitPlaced, NextPlaced, PTL DEF Spec

\* Every variable has its type; in particular cached_bytes never wraps below zero.
THEOREM TypeCorrect == Spec => []TypeOK
<1>1. Placed => TypeOK
  BY DEF Placed
<1> QED BY <1>1, AlwaysPlaced, PTL

\* No interleaving of allocations, frees, flushes of full scopes and handoffs puts a
\* block in two places or loses one, whether or not callers quiesce alone.
THEOREM BlocksStayInOnePlace == Spec => []BlocksInOnePlace
<1>1. Placed => BlocksInOnePlace
  <2> SUFFICES ASSUME Placed PROVE BlocksInOnePlace
    OBVIOUS
  <2>1. \A b \in Blocks : Cardinality(Places(b)) = 1
    BY OnePlace DEF Placed
  <2>2. \A n \in Sizes : \A b \in ToSet(retired[n]) : Size[b] = n
    BY PoolStack DEF Placed, SizesFit, ToSet
  <2> QED BY <2>1, <2>2 DEF BlocksInOnePlace
<1> QED BY <1>1, AlwaysPlaced, PTL

\* The pool never holds more bytes than its limit, and cached_bytes is what it holds.
THEOREM PoolWithinLimit == Spec => []CacheWithinLimit
<1>1. Placed => CacheWithinLimit
  BY DEF Placed, CountsHeld, CacheWithinLimit
<1> QED BY <1>1, AlwaysPlaced, PTL
=============================================================================
