------------------------ MODULE ProfileScopesProofs ------------------------
(***************************************************************************)
(* Theorems about ProfileScopes, for every number of tasks, threads,       *)
(* scopes, observers, kernels and failures: what a row of the output says  *)
(* is what happened, kernels are attributed to the innermost range, a      *)
(* completion is recorded once and never on closed events, and a future    *)
(* that is under way always has somebody who can go on with it.            *)
(***************************************************************************)
EXTENDS ProfileScopes, FiniteSetTheorems, SequenceTheorems, TLAPS

-----------------------------------------------------------------------------
(* The inductive invariant.                                                *)

ScopeObject ==
  [state : {"new", "open", "exited", "failed"}, depth : Nat, thread : Threads \cup {NoCaller},
   emitted : BOOLEAN, push : Nat, pop : Nat, popError : BOOLEAN,
   recorded : BOOLEAN, lock : Callers \cup {NoCaller}, future : Observers \cup {NoCaller}]
ThreadRange == [name : Scopes, start : Nat]
ThreadMarker == [name : Scopes, thread : Threads, start : Nat, end : Nat]
Kernel == [thread : Threads, time : Nat, within : 0 .. NumScopes]
EventState == {"none", "open", "recorded", "done", "closed"}
Call == [at : {"idle", "wait", "sync", "write", "poll", "observe", "start"}, of : 0 .. NumScopes,
         starts : Observers \cup {NoCaller}]
FutureState == {"none", "stored", "pending", "result", "exception", "orphaned"}

Types ==
  /\ thread \in [Tasks -> Threads \cup {NoCaller}] /\ base \in [Tasks -> Nat]
  /\ nesting \in [Tasks -> Seq(Scopes)] /\ depth \in [Tasks -> Nat]
  /\ scope \in [Scopes -> ScopeObject]
  /\ lines \in [Scopes -> Nat]
  /\ ranges \in [Threads -> Seq(ThreadRange)]
  /\ markers \subseteq ThreadMarker /\ kernels \subseteq Kernel /\ now \in Nat
  /\ events \in [HipScopes -> EventState]
  /\ call \in [Callers -> Call]
  /\ future \in [Observers -> FutureState]
  /\ failures \in 0 .. MaxFailures

\* The scopes of a task are open and were entered in order in its thread, the outermost
\* with the depth the task began with, and no other task is inside one of them.
TaskFollows(t) ==
  /\ depth[t] = base[t] + Len(nesting[t])
  /\ thread[t] = NoCaller => nesting[t] = <<>>
  /\ \A i \in 1 .. Len(nesting[t]) :
       LET s == nesting[t][i]
       IN scope[s].state = "open" /\ scope[s].depth = base[t] + i - 1 /\ scope[s].thread = thread[t]
  /\ \A i, j \in 1 .. Len(nesting[t]) : i < j => nesting[t][i] < nesting[t][j]
TasksFollow ==
  /\ \A t \in Tasks : TaskFollows(t)
  /\ \A t, u \in Tasks : t # u =>
       \A i \in 1 .. Len(nesting[t]), j \in 1 .. Len(nesting[u]) : nesting[t][i] # nesting[u][j]
  /\ \A r, s \in Scopes : r < s /\ scope[r].state = "new" => scope[s].state = "new"
  /\ \A s \in Scopes : scope[s].state = "new" => ~scope[s].emitted

\* A scope that is not over has popped nothing.
ScopeFollows(s) ==
  /\ scope[s].push <= now /\ scope[s].pop <= now
  /\ scope[s].emitted => scope[s].thread \in Threads
  /\ scope[s].state \in {"new", "open"} => scope[s].pop = 0 /\ ~scope[s].popError
ScopesFollow == \A s \in Scopes : ScopeFollows(s)

\* The ranges of a thread are of scopes that have emitted in it, in the order of the
\* pushes, and so are its markers.
RangesFollow ==
  /\ \A h \in Threads : \A i \in 1 .. Len(ranges[h]) :
       /\ scope[ranges[h][i].name].emitted /\ scope[ranges[h][i].name].thread = h
       /\ scope[ranges[h][i].name].push = ranges[h][i].start /\ ranges[h][i].start <= now
  /\ \A h \in Threads : \A i, j \in 1 .. Len(ranges[h]) :
       i < j => ranges[h][i].start < ranges[h][j].start
MarkersFollow ==
  \A m \in markers :
    scope[m.name].emitted /\ scope[m.name].thread = m.thread /\ scope[m.name].push = m.start

\* While the ranges of a thread are nested, they are those of its open scopes, and every
\* scope that is over has its marker.
MarkerOf(s, h) == [name |-> s, thread |-> h, start |-> scope[s].push, end |-> scope[s].pop]
InStack(s, h) == \E i \in 1 .. Len(ranges[h]) : ranges[h][i].name = s
NestedFollows(h) ==
  IsNested(h) =>
    /\ \A i \in 1 .. Len(ranges[h]) : scope[ranges[h][i].name].state = "open"
    /\ \A s \in Scopes : scope[s].emitted /\ scope[s].thread = h =>
         /\ scope[s].state = "open" => InStack(s, h)
         /\ scope[s].state # "open" => MarkerOf(s, h) \in markers
NestedFollow == \A h \in Threads : NestedFollows(h)

\* A line is of an exited scope, and a completion of an exited scope with HIP events; who
\* is between the synchronization and the line has the lock and finds no record.
CompletionFollows ==
  /\ \A s \in Scopes : lines[s] > 0 => scope[s].state = "exited"
  /\ \A c \in Callers : call[c].at # "idle" =>
       call[c].of \in HipScopes /\ scope[call[c].of].state = "exited"
  /\ \A c \in Callers : call[c].at # "start" => call[c].starts = NoCaller
  /\ \A c \in Callers : call[c].at \in {"sync", "write"} =>
       scope[call[c].of].lock = c /\ ~scope[call[c].of].recorded

\* The ranges of a thread are nested: a marker that starts inside another ends inside it,
\* and no marker reaches into a range that is open.
MarkersNest ==
  /\ \A m \in markers : m.start < m.end /\ m.end <= now
  /\ \A m, n \in markers : m.thread = n.thread =>
       /\ m.start = n.start => m = n
       /\ n.start < m.start /\ m.start <= n.end => m.end < n.end
  /\ \A m \in markers : \A i \in 1 .. Len(ranges[m.thread]) :
       \/ m.end < ranges[m.thread][i].start
       \/ ranges[m.thread][i].start < m.start

\* What a launch was inside: the range that started last of those which were open then
\* and have or have not been closed since.
OpenAt(k) == {i \in 1 .. Len(ranges[k.thread]) : ranges[k.thread][i].start <= k.time}
Around(k) == {m \in markers : m.thread = k.thread /\ m.start <= k.time /\ k.time <= m.end}
IsLatest(start, k) ==
  /\ \A i \in OpenAt(k) : ranges[k.thread][i].start <= start
  /\ \A m \in Around(k) : m.start <= start
KernelFollows(k) ==
  /\ k.time <= now
  /\ k.within = 0 => OpenAt(k) = {} /\ Around(k) = {}
  /\ k.within # 0 =>
       \/ \E i \in OpenAt(k) : ranges[k.thread][i].name = k.within
                               /\ IsLatest(ranges[k.thread][i].start, k)
       \/ \E m \in Around(k) : m.name = k.within /\ IsLatest(m.start, k)
KernelsFollow == \A k \in kernels : KernelFollows(k)

Inv ==
  /\ Types /\ TasksFollow /\ ScopesFollow /\ RangesFollow /\ MarkersFollow /\ NestedFollow
  /\ CompletionFollows /\ CompletionIsUnique /\ MarkersNest /\ KernelsFollow

-----------------------------------------------------------------------------
(* Sequences that grow and shrink at their end.                            *)

LEMMA AppendIs ==
  ASSUME NEW S, NEW seq \in Seq(S), NEW e \in S
  PROVE  /\ Append(seq, e) \in Seq(S) /\ Len(seq) \in Nat /\ Len(Append(seq, e)) = Len(seq) + 1
         /\ \A i \in 1 .. Len(seq) : Append(seq, e)[i] = seq[i]
         /\ Append(seq, e)[Len(seq) + 1] = e
BY AppendProperties, LenProperties

LEMMA FrontIs ==
  ASSUME NEW S, NEW seq \in Seq(S), seq # <<>>
  PROVE  /\ Len(seq) \in Nat \ {0} /\ Last(seq) = seq[Len(seq)] /\ Last(seq) \in S
         /\ Front(seq) \in Seq(S) /\ Len(Front(seq)) = Len(seq) - 1
         /\ \A i \in 1 .. Len(seq) - 1 : Front(seq)[i] = seq[i]
<1>1. Len(seq) \in Nat \ {0} /\ DOMAIN seq = 1 .. Len(seq)
  BY EmptySeq, LenProperties
<1>2. seq[Len(seq)] \in S
  BY <1>1, ElementOfSeq
<1>3. 1 \in 1 .. Len(seq) + 1 /\ Len(seq) - 1 \in 0 .. Len(seq)
  BY <1>1
<1>4. /\ SubSeq(seq, 1, Len(seq) - 1) \in Seq(S)
      /\ Len(SubSeq(seq, 1, Len(seq) - 1)) = Len(seq) - 1
      /\ \A i \in 1 .. Len(seq) - 1 : SubSeq(seq, 1, Len(seq) - 1)[i] = seq[i]
  BY <1>1, SubSeqProperties
<1> QED BY <1>1, <1>2, <1>4 DEF Front, Last

-----------------------------------------------------------------------------
(* Entering and leaving: the scopes a task is inside.                      *)

\* The scope's new record, and that no other has one.
ScopeBecomes(s, p) == p \in ScopeObject /\ scope' = [scope EXCEPT ![s] = p]

LEMMA ScopeFrame ==
  ASSUME Types, NEW s \in Scopes, NEW p, ScopeBecomes(s, p)
  PROVE  /\ scope' \in [Scopes -> ScopeObject] /\ scope'[s] = p
         /\ \A r \in Scopes \ {s} : scope'[r] = scope[r]
BY DEF Types, ScopeBecomes

LEMMA Nested ==
  ASSUME Types, TasksFollow, NEW t \in Tasks
  PROVE  /\ nesting[t] \in Seq(Scopes) /\ Len(nesting[t]) \in Nat
         /\ DOMAIN nesting[t] = 1 .. Len(nesting[t]) /\ TaskFollows(t)
         /\ \A i \in 1 .. Len(nesting[t]) :
              nesting[t][i] \in Scopes /\ scope[nesting[t][i]].state = "open"
<1>1. nesting[t] \in Seq(Scopes) /\ TaskFollows(t)
  BY DEF Types, TasksFollow
<1>2. Len(nesting[t]) \in Nat /\ DOMAIN nesting[t] = 1 .. Len(nesting[t])
  BY <1>1, LenProperties
<1>3. \A i \in 1 .. Len(nesting[t]) : nesting[t][i] \in Scopes
  BY <1>1, ElementOfSeq
<1> QED BY <1>1, <1>2, <1>3 DEF TaskFollows

\* The next scope is beyond all that are entered.
LEMMA NextIsBeyond ==
  ASSUME Types, TasksFollow, NEW s \in Scopes, IsNext(s), NEW r \in Scopes, scope[r].state # "new"
  PROVE  r < s
BY DEF TasksFollow, IsNext, Scopes

LEMMA EnterTask ==
  ASSUME Types, TasksFollow, NEW t \in Tasks, NEW s \in Scopes, IsNext(s), Enters(t, s)
  PROVE  /\ nesting' \in [Tasks -> Seq(Scopes)] /\ depth' \in [Tasks -> Nat]
         /\ thread' = thread /\ base' = base
         /\ depth'[t] = depth[t] + 1 /\ Len(nesting'[t]) = Len(nesting[t]) + 1
         /\ nesting'[t][Len(nesting[t]) + 1] = s
         /\ \A i \in 1 .. Len(nesting[t]) : nesting'[t][i] = nesting[t][i]
         /\ \A u \in Tasks \ {t} : nesting'[u] = nesting[u] /\ depth'[u] = depth[u]
<1>1. /\ nesting' = [nesting EXCEPT ![t] = Append(nesting[t], s)]
      /\ depth' = [depth EXCEPT ![t] = depth[t] + 1] /\ thread' = thread /\ base' = base
  BY DEF Enters
<1>2. nesting[t] \in Seq(Scopes) /\ depth[t] \in Nat
  BY DEF Types
<1>3. /\ Append(nesting[t], s) \in Seq(Scopes) /\ Len(Append(nesting[t], s)) = Len(nesting[t]) + 1
      /\ \A i \in 1 .. Len(nesting[t]) : Append(nesting[t], s)[i] = nesting[t][i]
      /\ Append(nesting[t], s)[Len(nesting[t]) + 1] = s
  BY <1>2, AppendIs
<1>4. nesting'[t] = Append(nesting[t], s)
  BY <1>1 DEF Types
<1> QED BY <1>1, <1>2, <1>3, <1>4 DEF Types

\* A task that a step does not concern.
LEMMA TaskKept ==
  ASSUME NEW u \in Tasks, TaskFollows(u), nesting'[u] = nesting[u], depth'[u] = depth[u],
         base'[u] = base[u], thread'[u] = thread[u],
         \A i \in 1 .. Len(nesting[u]) : scope'[nesting[u][i]] = scope[nesting[u][i]]
  PROVE  TaskFollows(u)'
<1>1. /\ depth'[u] = base'[u] + Len(nesting'[u])
      /\ thread'[u] = NoCaller => nesting'[u] = <<>>
  BY DEF TaskFollows
<1>2. ASSUME NEW i \in 1 .. Len(nesting'[u])
      PROVE  /\ scope'[nesting'[u][i]].state = "open"
             /\ scope'[nesting'[u][i]].depth = base'[u] + i - 1
             /\ scope'[nesting'[u][i]].thread = thread'[u]
  <2>1. scope'[nesting'[u][i]] = scope[nesting[u][i]] /\ i \in 1 .. Len(nesting[u])
    OBVIOUS
  <2>2. /\ scope[nesting[u][i]].state = "open" /\ scope[nesting[u][i]].depth = base[u] + i - 1
        /\ scope[nesting[u][i]].thread = thread[u]
    BY <2>1 DEF TaskFollows
  <2> QED BY <2>1, <2>2
<1>3. \A i, j \in 1 .. Len(nesting'[u]) : i < j => nesting'[u][i] < nesting'[u][j]
  BY DEF TaskFollows
<1> QED BY <1>1, <1>2, <1>3 DEF TaskFollows

LEMMA EnterTasksFollow ==
  ASSUME Types, TasksFollow, NEW t \in Tasks, NEW s \in Scopes, IsNext(s), Enters(t, s), NEW p,
         ScopeBecomes(s, p), p.state = "open", p.depth = depth[t], p.thread = thread[t],
         thread[t] # NoCaller
  PROVE  TasksFollow'
<1>1. /\ thread' = thread /\ base' = base /\ depth'[t] = depth[t] + 1
      /\ Len(nesting'[t]) = Len(nesting[t]) + 1
      /\ nesting'[t][Len(nesting[t]) + 1] = s
      /\ \A i \in 1 .. Len(nesting[t]) : nesting'[t][i] = nesting[t][i]
      /\ \A u \in Tasks \ {t} : nesting'[u] = nesting[u] /\ depth'[u] = depth[u]
  BY EnterTask
<1>2. scope'[s] = p /\ \A r \in Scopes \ {s} : scope'[r] = scope[r]
  BY ScopeFrame
<1>3. \A u \in Tasks : /\ Len(nesting[u]) \in Nat /\ TaskFollows(u)
                       /\ \A i \in 1 .. Len(nesting[u]) : /\ nesting[u][i] \in Scopes
                                                          /\ scope[nesting[u][i]].state = "open"
  BY Nested
<1>4. \A u \in Tasks : \A i \in 1 .. Len(nesting[u]) :
        nesting[u][i] < s /\ nesting[u][i] # s /\ scope'[nesting[u][i]] = scope[nesting[u][i]]
  <2> SUFFICES ASSUME NEW u \in Tasks, NEW i \in 1 .. Len(nesting[u])
               PROVE  /\ nesting[u][i] < s /\ nesting[u][i] # s
                      /\ scope'[nesting[u][i]] = scope[nesting[u][i]]
    OBVIOUS
  <2>1. nesting[u][i] \in Scopes /\ scope[nesting[u][i]].state = "open" /\ scope[s].state = "new"
    BY <1>3 DEF IsNext
  <2>2. nesting[u][i] < s
    BY <2>1, NextIsBeyond
  <2> QED BY <1>2, <2>1, <2>2
<1>5. depth[t] = base[t] + Len(nesting[t]) /\ \A u \in Tasks : base[u] \in Nat
  BY <1>3 DEF TaskFollows, Types
<1>6. \A u \in Tasks : TaskFollows(u)'
  <2>1. ASSUME NEW u \in Tasks \ {t} PROVE TaskFollows(u)'
    <3>1. /\ nesting'[u] = nesting[u] /\ depth'[u] = depth[u] /\ base'[u] = base[u]
          /\ thread'[u] = thread[u]
      BY <1>1
    <3>2. \A i \in 1 .. Len(nesting[u]) : scope'[nesting[u][i]] = scope[nesting[u][i]]
      BY <1>4
    <3> QED BY <1>3, <3>1, <3>2, TaskKept
  <2>2. TaskFollows(t)'
    <3>1. depth'[t] = base'[t] + Len(nesting'[t]) /\ thread'[t] # NoCaller
      <4>1. /\ base[t] \in Nat /\ Len(nesting[t]) \in Nat /\ base'[t] = base[t]
            /\ depth'[t] = depth[t] + 1 /\ Len(nesting'[t]) = Len(nesting[t]) + 1
            /\ depth[t] = base[t] + Len(nesting[t]) /\ thread'[t] = thread[t]
        BY <1>1, <1>3, <1>5
      <4> QED BY <4>1
    <3>2. ASSUME NEW i \in 1 .. Len(nesting'[t])
          PROVE  /\ scope'[nesting'[t][i]].state = "open"
                 /\ scope'[nesting'[t][i]].depth = base'[t] + i - 1
                 /\ scope'[nesting'[t][i]].thread = thread'[t]
      <4>1. CASE i = Len(nesting[t]) + 1
        BY <1>1, <1>2, <1>3, <1>5, <4>1
      <4>2. CASE i # Len(nesting[t]) + 1
        <5>1. i \in 1 .. Len(nesting[t])
          BY <1>1, <1>3, <4>2
        <5>2. nesting'[t][i] = nesting[t][i] /\ scope'[nesting[t][i]] = scope[nesting[t][i]]
          BY <1>1, <1>4, <5>1
        <5>3. /\ scope[nesting[t][i]].state = "open"
              /\ scope[nesting[t][i]].depth = base[t] + i - 1
              /\ scope[nesting[t][i]].thread = thread[t]
          BY <1>3, <5>1 DEF TaskFollows
        <5> QED BY <1>1, <5>2, <5>3
      <4> QED BY <4>1, <4>2
    <3>3. ASSUME NEW i \in 1 .. Len(nesting'[t]), NEW j \in 1 .. Len(nesting'[t]), i < j
          PROVE  nesting'[t][i] < nesting'[t][j]
      <4>1. i \in 1 .. Len(nesting[t])
        BY <1>1, <1>3, <3>3
      <4>2. CASE j = Len(nesting[t]) + 1
        BY <1>1, <1>4, <4>1, <4>2
      <4>3. CASE j # Len(nesting[t]) + 1
        <5>1. j \in 1 .. Len(nesting[t])
          BY <1>1, <1>3, <4>3
        <5>2. nesting'[t][i] = nesting[t][i] /\ nesting'[t][j] = nesting[t][j]
          BY <1>1, <4>1, <5>1
        <5>3. nesting[t][i] < nesting[t][j]
          BY <1>3, <3>3, <4>1, <5>1 DEF TaskFollows
        <5> QED BY <5>2, <5>3
      <4> QED BY <4>2, <4>3
    <3> QED BY <3>1, <3>2, <3>3 DEF TaskFollows
  <2> QED BY <2>1, <2>2
<1>7. \A u, v \in Tasks : u # v =>
        \A i \in 1 .. Len(nesting'[u]), j \in 1 .. Len(nesting'[v]) :
          nesting'[u][i] # nesting'[v][j]
  <2>1. \A u \in Tasks : \A i \in 1 .. Len(nesting'[u]) :
          \/ u = t /\ nesting'[u][i] = s
          \/ i \in 1 .. Len(nesting[u]) /\ nesting'[u][i] = nesting[u][i]
    BY <1>1, <1>3
  <2>2. \A u \in Tasks : \A i \in 1 .. Len(nesting[u]) : nesting[u][i] # s
    BY <1>4
  <2> SUFFICES ASSUME NEW u \in Tasks, NEW v \in Tasks, u # v,
                      NEW i \in 1 .. Len(nesting'[u]), NEW j \in 1 .. Len(nesting'[v])
               PROVE  nesting'[u][i] # nesting'[v][j]
    OBVIOUS
  <2>3. CASE u = t /\ nesting'[u][i] = s
    <3>1. j \in 1 .. Len(nesting[v]) /\ nesting'[v][j] = nesting[v][j]
      BY <2>1, <2>3
    <3> QED BY <2>2, <2>3, <3>1
  <2>4. CASE v = t /\ nesting'[v][j] = s
    <3>1. i \in 1 .. Len(nesting[u]) /\ nesting'[u][i] = nesting[u][i]
      BY <2>1, <2>4
    <3> QED BY <2>2, <2>4, <3>1
  <2>5. CASE /\ i \in 1 .. Len(nesting[u]) /\ nesting'[u][i] = nesting[u][i]
             /\ j \in 1 .. Len(nesting[v]) /\ nesting'[v][j] = nesting[v][j]
    BY <2>5 DEF TasksFollow
  <2> QED BY <2>1, <2>3, <2>4, <2>5
<1>8. \A r, q \in Scopes : r < q /\ scope'[r].state = "new" => scope'[q].state = "new"
  BY <1>2 DEF TasksFollow, IsNext
<1>9. \A q \in Scopes : scope'[q].state = "new" => ~scope'[q].emitted
  BY <1>2 DEF TasksFollow
<1> QED BY <1>6, <1>7, <1>8, <1>9 DEF TasksFollow

LEMMA LeaveTask ==
  ASSUME Types, TasksFollow, NEW t \in Tasks, NEW s, IsInnermost(t, s), Leaves(t)
  PROVE  /\ s \in Scopes /\ Len(nesting[t]) \in Nat \ {0} /\ s = nesting[t][Len(nesting[t])]
         /\ scope[s].state = "open" /\ scope[s].thread = thread[t]
         /\ thread' = thread /\ base' = base
         /\ nesting' \in [Tasks -> Seq(Scopes)] /\ depth' \in [Tasks -> Nat]
         /\ depth'[t] = base[t] + Len(nesting[t]) - 1 /\ Len(nesting'[t]) = Len(nesting[t]) - 1
         /\ \A i \in 1 .. Len(nesting[t]) - 1 : nesting'[t][i] = nesting[t][i]
         /\ \A u \in Tasks \ {t} : nesting'[u] = nesting[u] /\ depth'[u] = depth[u]
<1>1. /\ nesting' = [nesting EXCEPT ![t] = Front(nesting[t])]
      /\ depth' = [depth EXCEPT ![t] = scope[s].depth]
      /\ nesting[t] # <<>> /\ s = Last(nesting[t]) /\ thread' = thread /\ base' = base
  BY DEF Leaves, IsInnermost
<1>2. nesting[t] \in Seq(Scopes)
  BY DEF Types
<1>3. /\ Len(nesting[t]) \in Nat \ {0} /\ s = nesting[t][Len(nesting[t])] /\ s \in Scopes
      /\ Front(nesting[t]) \in Seq(Scopes) /\ Len(Front(nesting[t])) = Len(nesting[t]) - 1
      /\ \A i \in 1 .. Len(nesting[t]) - 1 : Front(nesting[t])[i] = nesting[t][i]
  BY <1>1, <1>2, FrontIs
<1>4. nesting'[t] = Front(nesting[t]) /\ depth'[t] = scope[s].depth
  BY <1>1 DEF Types
<1>5. Len(nesting[t]) \in 1 .. Len(nesting[t])
  BY <1>3
<1>6. /\ scope[s].depth = base[t] + Len(nesting[t]) - 1 /\ scope[s].state = "open"
      /\ scope[s].thread = thread[t] /\ base[t] \in Nat
  <2>1. TaskFollows(t) /\ base[t] \in Nat
    BY DEF TasksFollow, Types
  <2>2. LET q == nesting[t][Len(nesting[t])]
        IN /\ scope[q].depth = base[t] + Len(nesting[t]) - 1 /\ scope[q].state = "open"
           /\ scope[q].thread = thread[t]
    BY <1>5, <2>1 DEF TaskFollows
  <2> QED BY <1>3, <2>1, <2>2
<1>7. scope[s].depth \in Nat
  BY <1>3, <1>6
<1> QED BY <1>1, <1>3, <1>4, <1>6, <1>7 DEF Types

LEMMA LeaveTasksFollow ==
  ASSUME Types, TasksFollow, NEW t \in Tasks, NEW s, IsInnermost(t, s), Leaves(t), NEW p,
         ScopeBecomes(s, p), p.state \in {"exited", "failed"}
  PROVE  TasksFollow'
<1>1. /\ s \in Scopes /\ Len(nesting[t]) \in Nat \ {0} /\ s = nesting[t][Len(nesting[t])]
      /\ scope[s].state = "open" /\ thread' = thread /\ base' = base
      /\ depth'[t] = base[t] + Len(nesting[t]) - 1 /\ Len(nesting'[t]) = Len(nesting[t]) - 1
      /\ \A i \in 1 .. Len(nesting[t]) - 1 : nesting'[t][i] = nesting[t][i]
      /\ \A u \in Tasks \ {t} : nesting'[u] = nesting[u] /\ depth'[u] = depth[u]
  BY LeaveTask
<1>2. scope'[s] = p /\ \A r \in Scopes \ {s} : scope'[r] = scope[r]
  BY <1>1, ScopeFrame
<1>3. \A u \in Tasks : /\ Len(nesting[u]) \in Nat /\ TaskFollows(u)
                       /\ \A i \in 1 .. Len(nesting[u]) : nesting[u][i] \in Scopes
  BY Nested
<1>4. Len(nesting[t]) \in 1 .. Len(nesting[t])
  BY <1>1
<1>5. \A u \in Tasks : \A i \in 1 .. Len(nesting'[u]) :
        /\ i \in 1 .. Len(nesting[u]) /\ nesting'[u][i] = nesting[u][i] /\ nesting[u][i] # s
        /\ nesting[u][i] \in Scopes /\ scope'[nesting[u][i]] = scope[nesting[u][i]]
  <2> SUFFICES ASSUME NEW u \in Tasks, NEW i \in 1 .. Len(nesting'[u])
               PROVE  /\ i \in 1 .. Len(nesting[u]) /\ nesting'[u][i] = nesting[u][i]
                      /\ nesting[u][i] # s
                      /\ nesting[u][i] \in Scopes /\ scope'[nesting[u][i]] = scope[nesting[u][i]]
    OBVIOUS
  <2>1. i \in 1 .. Len(nesting[u]) /\ nesting'[u][i] = nesting[u][i]
    <3>1. CASE u = t
      <4>1. i \in 1 .. Len(nesting[t]) - 1
        BY <1>1, <3>1
      <4> QED BY <1>1, <3>1, <4>1
    <3>2. CASE u # t
      BY <1>1, <3>2
    <3> QED BY <3>1, <3>2
  <2>2. nesting[u][i] # s
    <3>1. CASE u = t
      <4>1. i < Len(nesting[t])
        BY <1>1, <3>1
      <4>2. nesting[t][i] < nesting[t][Len(nesting[t])]
        BY <1>3, <1>4, <2>1, <3>1, <4>1 DEF TaskFollows
      <4>3. nesting[t][i] \in Int /\ s \in Int
        BY <1>1, <1>3, <2>1, <3>1 DEF Scopes
      <4> QED BY <1>1, <3>1, <4>2, <4>3
    <3>2. CASE u # t
      BY <1>1, <1>4, <2>1, <3>2 DEF TasksFollow
    <3> QED BY <3>1, <3>2
  <2> QED BY <1>2, <1>3, <2>1, <2>2
<1>6. \A u \in Tasks : TaskFollows(u)'
  <2> SUFFICES ASSUME NEW u \in Tasks PROVE TaskFollows(u)'
    OBVIOUS
  <2>1. depth'[u] = base'[u] + Len(nesting'[u])
    <3>1. depth[u] = base[u] + Len(nesting[u]) /\ base[u] \in Nat /\ Len(nesting[u]) \in Nat
      BY <1>3 DEF TaskFollows, Types
    <3>2. CASE u = t
      BY <1>1, <3>1, <3>2
    <3>3. CASE u # t
      BY <1>1, <3>1, <3>3
    <3> QED BY <3>2, <3>3
  <2>2. ASSUME NEW i \in 1 .. Len(nesting'[u])
        PROVE  /\ scope'[nesting'[u][i]].state = "open"
               /\ scope'[nesting'[u][i]].depth = base'[u] + i - 1
               /\ scope'[nesting'[u][i]].thread = thread'[u]
    <3>1. /\ scope[nesting[u][i]].state = "open" /\ scope[nesting[u][i]].depth = base[u] + i - 1
          /\ scope[nesting[u][i]].thread = thread[u]
      BY <1>3, <1>5 DEF TaskFollows
    <3>2. nesting'[u][i] = nesting[u][i] /\ scope'[nesting[u][i]] = scope[nesting[u][i]]
      BY <1>5
    <3> QED BY <1>1, <3>1, <3>2
  <2>3. ASSUME NEW i \in 1 .. Len(nesting'[u]), NEW j \in 1 .. Len(nesting'[u]), i < j
        PROVE  nesting'[u][i] < nesting'[u][j]
    <3>1. /\ i \in 1 .. Len(nesting[u]) /\ nesting'[u][i] = nesting[u][i]
          /\ j \in 1 .. Len(nesting[u]) /\ nesting'[u][j] = nesting[u][j]
      BY <1>5
    <3>2. \A a, b \in 1 .. Len(nesting[u]) : a < b => nesting[u][a] < nesting[u][b]
      BY <1>3 DEF TaskFollows
    <3> QED BY <2>3, <3>1, <3>2
  <2>4. thread'[u] = NoCaller => nesting'[u] = <<>>
    <3>1. nesting[t] # <<>> /\ (thread[u] = NoCaller => nesting[u] = <<>>)
      BY <1>3 DEF TaskFollows, IsInnermost
    <3> QED BY <1>1, <3>1
  <2> QED BY <2>1, <2>2, <2>3, <2>4 DEF TaskFollows
<1>7. \A u, v \in Tasks : u # v =>
        \A i \in 1 .. Len(nesting'[u]), j \in 1 .. Len(nesting'[v]) :
          nesting'[u][i] # nesting'[v][j]
  BY <1>5 DEF TasksFollow
<1>8. \A r, q \in Scopes : r < q /\ scope'[r].state = "new" => scope'[q].state = "new"
  BY <1>1, <1>2 DEF TasksFollow
<1>9. \A q \in Scopes : scope'[q].state = "new" => ~scope'[q].emitted
  BY <1>2 DEF TasksFollow
<1> QED BY <1>6, <1>7, <1>8, <1>9 DEF TasksFollow

-----------------------------------------------------------------------------
(* Pushing and popping: the ranges of a thread.                            *)

LEMMA Stacked ==
  ASSUME Types, NEW h \in Threads
  PROVE  /\ ranges[h] \in Seq(ThreadRange) /\ Len(ranges[h]) \in Nat
         /\ \A i \in 1 .. Len(ranges[h]) :
              /\ ranges[h][i] \in ThreadRange
              /\ ranges[h][i].name \in Scopes /\ ranges[h][i].start \in Nat
<1>1. ranges[h] \in Seq(ThreadRange)
  BY DEF Types
<1>2. Len(ranges[h]) \in Nat
  BY <1>1, LenProperties
<1>3. \A i \in 1 .. Len(ranges[h]) : ranges[h][i] \in ThreadRange
  BY <1>1, ElementOfSeq
<1> QED BY <1>1, <1>2, <1>3 DEF ThreadRange

LEMMA PushIs ==
  ASSUME Types, NEW h \in Threads, NEW s \in Scopes, ranges' = Pushed(h, s, now + 1)
  PROVE  /\ ranges' \in [Threads -> Seq(ThreadRange)]
         /\ Len(ranges'[h]) = Len(ranges[h]) + 1
         /\ ranges'[h][Len(ranges[h]) + 1].name = s
         /\ ranges'[h][Len(ranges[h]) + 1].start = now + 1
         /\ \A i \in 1 .. Len(ranges[h]) : ranges'[h][i] = ranges[h][i]
         /\ \A g \in Threads \ {h} : ranges'[g] = ranges[g]
<1> DEFINE new == [name |-> s, start |-> now + 1]
<1>1. new \in ThreadRange /\ new.name = s /\ new.start = now + 1
  BY DEF Types, ThreadRange
<1>2. ranges[h] \in Seq(ThreadRange)
  BY DEF Types
<1>3. ranges' = [ranges EXCEPT ![h] = Append(ranges[h], new)]
  BY DEF Pushed
<1> HIDE DEF new
<1>4. /\ Append(ranges[h], new) \in Seq(ThreadRange)
      /\ Len(Append(ranges[h], new)) = Len(ranges[h]) + 1
      /\ \A i \in 1 .. Len(ranges[h]) : Append(ranges[h], new)[i] = ranges[h][i]
      /\ Append(ranges[h], new)[Len(ranges[h]) + 1] = new
  BY <1>1, <1>2, AppendIs
<1>5. ranges'[h] = Append(ranges[h], new)
  BY <1>3 DEF Types
<1> QED BY <1>1, <1>3, <1>4, <1>5 DEF Types

LEMMA PopIs ==
  ASSUME Types, NEW h \in Threads, ranges[h] # <<>>, now' = now + 1, PopLast(h)
  PROVE  /\ ranges' \in [Threads -> Seq(ThreadRange)] /\ now' = now + 1
         /\ Len(ranges[h]) \in Nat \ {0} /\ Len(ranges[h]) \in 1 .. Len(ranges[h])
         /\ Len(ranges'[h]) = Len(ranges[h]) - 1
         /\ \A i \in 1 .. Len(ranges[h]) - 1 : ranges'[h][i] = ranges[h][i]
         /\ \A g \in Threads \ {h} : ranges'[g] = ranges[g]
         /\ markers' = markers \cup {Marker(ranges[h][Len(ranges[h])], h, now + 1)}
<1>1. /\ now' = now + 1 /\ ranges' = [ranges EXCEPT ![h] = Front(ranges[h])]
      /\ markers' = markers \cup {Marker(Last(ranges[h]), h, now + 1)}
  BY DEF PopLast
<1>2. ranges[h] \in Seq(ThreadRange)
  BY DEF Types
<1>3. /\ Len(ranges[h]) \in Nat \ {0} /\ Last(ranges[h]) = ranges[h][Len(ranges[h])]
      /\ Front(ranges[h]) \in Seq(ThreadRange) /\ Len(Front(ranges[h])) = Len(ranges[h]) - 1
      /\ \A i \in 1 .. Len(ranges[h]) - 1 : Front(ranges[h])[i] = ranges[h][i]
  BY <1>2, FrontIs
<1>4. ranges'[h] = Front(ranges[h])
  BY <1>1 DEF Types
<1>5. Len(ranges[h]) \in 1 .. Len(ranges[h])
  BY <1>3
<1> QED BY <1>1, <1>3, <1>4, <1>5 DEF Types

LEMMA RangeNames ==
  ASSUME Types, RangesFollow, NEW h \in Threads, NEW i \in 1 .. Len(ranges[h])
  PROVE  /\ ranges[h][i].name \in Scopes /\ scope[ranges[h][i].name].emitted
         /\ scope[ranges[h][i].name].thread = h
         /\ scope[ranges[h][i].name].push = ranges[h][i].start
         /\ ranges[h][i].start \in Nat /\ ranges[h][i].start <= now
BY Stacked DEF RangesFollow

\* A thread's ranges are in the order of their pushes.
LEMMA RangesOrdered ==
  ASSUME RangesFollow, NEW g \in Threads,
         NEW i \in 1 .. Len(ranges[g]), NEW j \in 1 .. Len(ranges[g]), i < j
  PROVE  ranges[g][i].start < ranges[g][j].start
  BY DEF RangesFollow

-----------------------------------------------------------------------------
(* A scope is entered or left: its record changes, and the ranges and the  *)
(* markers with it.                                                        *)

\* What has been emitted stays, and the pop comes after everything that was.
Moves(s, p) ==
  /\ ScopeBecomes(s, p) /\ now' \in Nat /\ now <= now'
  /\ scope[s].state \in {"new", "open"} /\ p.state # "new"
  /\ p.push <= now' /\ p.pop <= now'
  /\ p.emitted => p.thread \in Threads
  /\ p.state = "open" => p.pop = 0 /\ ~p.popError
  /\ scope[s].emitted =>
       p.emitted /\ p.thread = scope[s].thread /\ p.push = scope[s].push /\ now < p.pop

LEMMA ScopeTypes ==
  ASSUME Types, NEW s \in Scopes
  PROVE  /\ scope[s] \in ScopeObject
         /\ scope[s].push \in Nat /\ scope[s].pop \in Nat /\ scope[s].depth \in Nat
         /\ scope[s].emitted \in BOOLEAN /\ scope[s].popError \in BOOLEAN
         /\ scope[s].state \in {"new", "open", "exited", "failed"}
BY DEF Types, ScopeObject

LEMMA ScopesMove ==
  ASSUME Types, ScopesFollow, NEW s \in Scopes, NEW p, Moves(s, p)
  PROVE  ScopesFollow'
<1>1. scope'[s] = p /\ \A r \in Scopes \ {s} : scope'[r] = scope[r]
  BY ScopeFrame DEF Moves
<1>2. ScopeFollows(s)'
  BY <1>1 DEF ScopeFollows, Moves
<1>3. ASSUME NEW r \in Scopes \ {s} PROVE ScopeFollows(r)'
  <2>1. ScopeFollows(r) /\ scope'[r] = scope[r]
    BY <1>1 DEF ScopesFollow
  <2>2. scope[r].push \in Nat /\ scope[r].pop \in Nat /\ now \in Nat /\ now' \in Nat /\ now <= now'
    BY ScopeTypes DEF Types, Moves
  <2>3. scope[r].push <= now' /\ scope[r].pop <= now'
    BY <2>1, <2>2 DEF ScopeFollows
  <2> QED BY <2>1, <2>3 DEF ScopeFollows
<1> QED BY <1>2, <1>3 DEF ScopesFollow

\* Ranges that have crossed stay crossed, and a pop that has failed is not mended.
LEMMA NestedBefore ==
  ASSUME Types, ScopesFollow, NEW s \in Scopes, NEW p, Moves(s, p), NEW h, IsNested(h)'
  PROVE  IsNested(h)
<1> SUFFICES ASSUME NEW r \in Scopes, scope[r].thread = h
             PROVE  ~scope[r].popError /\ \A q \in Scopes : ~Crossed(r, q)
  BY DEF IsNested
<1>1. scope'[s] = p /\ \A q \in Scopes \ {s} : scope'[q] = scope[q]
  BY ScopeFrame DEF Moves
<1>2. now \in Nat /\ \A q \in Scopes : /\ scope[q].push \in Nat /\ scope[q].pop \in Nat
                                       /\ scope[q].push <= now /\ scope[q].pop <= now
  BY ScopeTypes DEF Types, ScopesFollow, ScopeFollows
<1>3. scope[s].pop = 0 /\ ~scope[s].popError
  BY DEF Moves, ScopesFollow, ScopeFollows
<1>4. CASE r = s
  <2>1. \A q \in Scopes : ~(scope[q].push < scope[s].pop)
    BY <1>2, <1>3
  <2> QED BY <1>3, <1>4, <2>1 DEF Crossed
<1>5. CASE r # s
  <2>1. scope'[r] = scope[r]
    BY <1>1, <1>5
  <2>2. ~scope'[r].popError /\ \A q \in Scopes : ~Crossed(r, q)'
    BY <2>1 DEF IsNested
  <2>3. ASSUME NEW q \in Scopes, Crossed(r, q) PROVE FALSE
    <3>1. CASE q # s
      <4>1. Crossed(r, q)'
        BY <1>1, <2>1, <2>3, <3>1 DEF Crossed
      <4> QED BY <2>2, <4>1
    <3>2. CASE q = s
      <4>1. /\ p.emitted /\ p.thread = scope[s].thread /\ p.push = scope[s].push /\ now < p.pop
            /\ p.pop \in Nat
        BY <2>3, <3>2 DEF Moves, Crossed, ScopeBecomes, ScopeObject
      <4>2. scope[r].pop < p.pop
        BY <1>2, <4>1
      <4>3. Crossed(r, s)'
        BY <1>1, <2>1, <2>3, <3>2, <4>1, <4>2 DEF Crossed
      <4> QED BY <2>2, <3>2, <4>3
    <3> QED BY <3>1, <3>2
  <2> QED BY <2>1, <2>2, <2>3
<1> QED BY <1>4, <1>5

\* A step that pushes no range but the scope's.
LEMMA RangesMove ==
  ASSUME Types, RangesFollow, NEW s \in Scopes, NEW p, Moves(s, p),
         ranges' \in [Threads -> Seq(ThreadRange)],
         \A g \in Threads : \A i \in 1 .. Len(ranges'[g]) :
           \/ i \in 1 .. Len(ranges[g]) /\ ranges'[g][i] = ranges[g][i]
           \/ /\ i = Len(ranges'[g]) /\ ranges'[g][i].name = s /\ ranges'[g][i].start = p.push
              /\ p.emitted /\ p.thread = g /\ now < p.push
  PROVE  RangesFollow'
<1>1. scope'[s] = p /\ \A q \in Scopes \ {s} : scope'[q] = scope[q]
  BY ScopeFrame DEF Moves
<1>2. now \in Nat /\ now' \in Nat /\ now <= now' /\ p.push <= now' /\ p.push \in Nat
  BY DEF Types, Moves, ScopeBecomes, ScopeObject
<1>3. ASSUME NEW g \in Threads, NEW i \in 1 .. Len(ranges'[g])
      PROVE  /\ scope'[ranges'[g][i].name].emitted /\ scope'[ranges'[g][i].name].thread = g
             /\ scope'[ranges'[g][i].name].push = ranges'[g][i].start /\ ranges'[g][i].start <= now'
  <2>1. CASE i \in 1 .. Len(ranges[g]) /\ ranges'[g][i] = ranges[g][i]
    <3> DEFINE q == ranges[g][i].name
    <3>1. /\ q \in Scopes /\ scope[q].emitted /\ scope[q].thread = g
          /\ scope[q].push = ranges[g][i].start
          /\ ranges[g][i].start \in Nat /\ ranges[g][i].start <= now
      BY <2>1, RangeNames
    <3>2. scope'[q].emitted /\ scope'[q].thread = g /\ scope'[q].push = scope[q].push
      <4>1. CASE q = s
        BY <1>1, <3>1, <4>1 DEF Moves
      <4>2. CASE q # s
        BY <1>1, <3>1, <4>2
      <4> QED BY <4>1, <4>2
    <3>3. ranges[g][i].start <= now'
      BY <1>2, <3>1
    <3> QED BY <2>1, <3>1, <3>2, <3>3
  <2>2. CASE /\ ranges'[g][i].name = s /\ ranges'[g][i].start = p.push
             /\ p.emitted /\ p.thread = g
    BY <1>1, <1>2, <2>2
  <2> QED BY <2>1, <2>2
<1>4. ASSUME NEW g \in Threads, NEW i \in 1 .. Len(ranges'[g]), NEW j \in 1 .. Len(ranges'[g]),
        i < j
      PROVE  ranges'[g][i].start < ranges'[g][j].start
  <2>1. Len(ranges'[g]) \in Nat
    BY LenProperties
  <2>2. i # Len(ranges'[g])
    BY <1>4, <2>1
  <2>3. i \in 1 .. Len(ranges[g]) /\ ranges'[g][i] = ranges[g][i]
    BY <2>2
  <2>4. CASE j \in 1 .. Len(ranges[g]) /\ ranges'[g][j] = ranges[g][j]
    BY <1>4, <2>3, <2>4, RangesOrdered
  <2>5. CASE ranges'[g][j].start = p.push /\ now < p.push
    <3>1. ranges[g][i].start \in Nat /\ ranges[g][i].start <= now
      BY <2>3, RangeNames
    <3> QED BY <1>2, <2>3, <2>5, <3>1
  <2> QED BY <2>4, <2>5
<1> QED BY <1>3, <1>4 DEF RangesFollow

\* A new marker is of the scope, or of a range that was open.
LEMMA MarkersMove ==
  ASSUME Types, RangesFollow, MarkersFollow, NEW s \in Scopes, NEW p, Moves(s, p),
         \A m \in markers' :
           \/ m \in markers
           \/ p.emitted /\ m.name = s /\ m.thread = p.thread /\ m.start = p.push
           \/ \E h \in Threads : \E i \in 1 .. Len(ranges[h]) :
                m.name = ranges[h][i].name /\ m.thread = h /\ m.start = ranges[h][i].start
  PROVE  MarkersFollow'
<1>1. scope'[s] = p /\ \A q \in Scopes \ {s} : scope'[q] = scope[q]
  BY ScopeFrame DEF Moves
<1>2. \A q \in Scopes : scope[q].emitted =>
        scope'[q].emitted /\ scope'[q].thread = scope[q].thread /\ scope'[q].push = scope[q].push
  BY <1>1 DEF Moves
<1> SUFFICES ASSUME NEW m \in markers'
             PROVE  /\ scope'[m.name].emitted /\ scope'[m.name].thread = m.thread
                    /\ scope'[m.name].push = m.start
  BY DEF MarkersFollow
<1>3. CASE m \in markers
  <2>1. m.name \in Scopes
    BY <1>3 DEF Types, ThreadMarker
  <2> QED BY <1>2, <1>3, <2>1 DEF MarkersFollow
<1>4. CASE p.emitted /\ m.name = s /\ m.thread = p.thread /\ m.start = p.push
  BY <1>1, <1>4
<1>5. CASE \E h \in Threads : \E i \in 1 .. Len(ranges[h]) :
             m.name = ranges[h][i].name /\ m.thread = h /\ m.start = ranges[h][i].start
  BY <1>2, <1>5, RangeNames
<1> QED BY <1>3, <1>4, <1>5

\* In a thread the scope does not emit in, nothing changes.
LEMMA NestedElsewhere ==
  ASSUME Types, ScopesFollow, RangesFollow, NestedFollow, NEW s \in Scopes, NEW p, Moves(s, p),
         NEW h \in Threads, ranges'[h] = ranges[h], markers \subseteq markers',
         ~(p.emitted /\ p.thread = h)
  PROVE  NestedFollows(h)'
<1> SUFFICES ASSUME IsNested(h)'
             PROVE  /\ \A i \in 1 .. Len(ranges'[h]) : scope'[ranges'[h][i].name].state = "open"
                    /\ \A q \in Scopes : scope'[q].emitted /\ scope'[q].thread = h =>
                         /\ scope'[q].state = "open" => InStack(q, h)'
                         /\ scope'[q].state # "open" => MarkerOf(q, h)' \in markers'
  BY DEF NestedFollows
<1>1. scope'[s] = p /\ \A q \in Scopes \ {s} : scope'[q] = scope[q]
  BY ScopeFrame DEF Moves
<1>2. IsNested(h)
  BY NestedBefore
<1>3. /\ \A i \in 1 .. Len(ranges[h]) : scope[ranges[h][i].name].state = "open"
      /\ \A q \in Scopes : scope[q].emitted /\ scope[q].thread = h =>
           /\ scope[q].state = "open" => InStack(q, h)
           /\ scope[q].state # "open" => MarkerOf(q, h) \in markers
  BY <1>2 DEF NestedFollow, NestedFollows
<1>4. ASSUME NEW i \in 1 .. Len(ranges'[h]) PROVE scope'[ranges'[h][i].name].state = "open"
  <2>1. /\ ranges[h][i].name \in Scopes /\ scope[ranges[h][i].name].emitted
        /\ scope[ranges[h][i].name].thread = h
    BY <1>4, RangeNames
  <2>2. ranges[h][i].name # s
    BY <2>1 DEF Moves
  <2> QED BY <1>1, <1>3, <2>1, <2>2
<1>5. ASSUME NEW q \in Scopes, scope'[q].emitted, scope'[q].thread = h
      PROVE  /\ scope'[q].state = "open" => InStack(q, h)'
             /\ scope'[q].state # "open" => MarkerOf(q, h)' \in markers'
  <2>1. scope'[q] = scope[q]
    BY <1>1, <1>5
  <2>2. MarkerOf(q, h)' = MarkerOf(q, h) /\ (InStack(q, h)' <=> InStack(q, h))
    BY <2>1 DEF MarkerOf, InStack
  <2> QED BY <1>3, <1>5, <2>1, <2>2
<1> QED BY <1>4, <1>5

\* Where it emits, its range is pushed or popped, and the others stay.
KeepsNested(s, p, h) ==
  IsNested(h)' =>
    /\ \A i \in 1 .. Len(ranges'[h]) :
         \/ ranges'[h][i].name = s /\ p.state = "open"
         \/ ranges'[h][i].name # s /\ \E j \in 1 .. Len(ranges[h]) :
                                        ranges[h][j].name = ranges'[h][i].name
    /\ \A j \in 1 .. Len(ranges[h]) :
         \/ ranges[h][j].name = s
         \/ \E i \in 1 .. Len(ranges'[h]) : ranges'[h][i].name = ranges[h][j].name
    /\ p.state = "open" => InStack(s, h)'
    /\ p.state # "open" => MarkerOf(s, h)' \in markers'

LEMMA NestedHere ==
  ASSUME Types, ScopesFollow, RangesFollow, NestedFollow, NEW s \in Scopes, NEW p, Moves(s, p),
         NEW h \in Threads, p.emitted, p.thread = h, markers \subseteq markers',
         KeepsNested(s, p, h)
  PROVE  NestedFollows(h)'
<1> SUFFICES ASSUME IsNested(h)'
             PROVE  /\ \A i \in 1 .. Len(ranges'[h]) : scope'[ranges'[h][i].name].state = "open"
                    /\ \A q \in Scopes : scope'[q].emitted /\ scope'[q].thread = h =>
                         /\ scope'[q].state = "open" => InStack(q, h)'
                         /\ scope'[q].state # "open" => MarkerOf(q, h)' \in markers'
  BY DEF NestedFollows
<1>1. scope'[s] = p /\ \A q \in Scopes \ {s} : scope'[q] = scope[q]
  BY ScopeFrame DEF Moves
<1>2. IsNested(h)
  BY NestedBefore
<1>3. /\ \A i \in 1 .. Len(ranges[h]) : scope[ranges[h][i].name].state = "open"
      /\ \A q \in Scopes : scope[q].emitted /\ scope[q].thread = h =>
           /\ scope[q].state = "open" => InStack(q, h)
           /\ scope[q].state # "open" => MarkerOf(q, h) \in markers
  BY <1>2 DEF NestedFollow, NestedFollows
<1>0. /\ \A i \in 1 .. Len(ranges'[h]) :
           \/ ranges'[h][i].name = s /\ p.state = "open"
           \/ ranges'[h][i].name # s /\ \E j \in 1 .. Len(ranges[h]) :
                                          ranges[h][j].name = ranges'[h][i].name
      /\ \A j \in 1 .. Len(ranges[h]) :
           \/ ranges[h][j].name = s
           \/ \E i \in 1 .. Len(ranges'[h]) : ranges'[h][i].name = ranges[h][j].name
      /\ p.state = "open" => InStack(s, h)'
      /\ p.state # "open" => MarkerOf(s, h)' \in markers'
  BY DEF KeepsNested
<1>4. ASSUME NEW i \in 1 .. Len(ranges'[h]) PROVE scope'[ranges'[h][i].name].state = "open"
  <2>1. CASE ranges'[h][i].name = s /\ p.state = "open"
    BY <1>1, <2>1
  <2>2. ASSUME ranges'[h][i].name # s, NEW j \in 1 .. Len(ranges[h]),
               ranges[h][j].name = ranges'[h][i].name
        PROVE  scope'[ranges'[h][i].name].state = "open"
    <3>1. ranges[h][j].name \in Scopes /\ scope[ranges[h][j].name].state = "open"
      BY <1>3, RangeNames
    <3> QED BY <1>1, <2>2, <3>1
  <2> QED BY <1>0, <1>4, <2>1, <2>2
<1>5. ASSUME NEW q \in Scopes \ {s}, scope'[q].emitted, scope'[q].thread = h
      PROVE  /\ scope'[q].state = "open" => InStack(q, h)'
             /\ scope'[q].state # "open" => MarkerOf(q, h)' \in markers'
  <2>1. scope'[q] = scope[q] /\ MarkerOf(q, h)' = MarkerOf(q, h)
    BY <1>1 DEF MarkerOf
  <2>2. ASSUME InStack(q, h) PROVE InStack(q, h)'
    <3>1. PICK j \in 1 .. Len(ranges[h]) : ranges[h][j].name = q
      BY <2>2 DEF InStack
    <3>2. \E i \in 1 .. Len(ranges'[h]) : ranges'[h][i].name = ranges[h][j].name
      BY <1>0, <3>1
    <3> QED BY <3>1, <3>2 DEF InStack
  <2> QED BY <1>3, <1>5, <2>1, <2>2
<1>6. /\ scope'[s].state = "open" => InStack(s, h)'
      /\ scope'[s].state # "open" => MarkerOf(s, h)' \in markers'
  BY <1>0, <1>1
<1> QED BY <1>4, <1>5, <1>6

\* In a thread whose ranges are nested and stay so, the range on top is the scope's.
LEMMA PopsItsOwn ==
  ASSUME Types, ScopesFollow, RangesFollow, NestedFollow, NEW s \in Scopes, NEW p, Moves(s, p),
         scope[s].emitted, scope[s].state = "open", NEW h \in Threads, scope[s].thread = h,
         IsNested(h)'
  PROVE  /\ Len(ranges[h]) \in Nat /\ Len(ranges[h]) \in 1 .. Len(ranges[h])
         /\ ranges[h][Len(ranges[h])].name = s
<1>1. scope'[s] = p /\ \A r \in Scopes \ {s} : scope'[r] = scope[r]
  BY ScopeFrame DEF Moves
<1>2. /\ IsNested(h) /\ InStack(s, h)
      /\ \A i \in 1 .. Len(ranges[h]) : scope[ranges[h][i].name].state = "open"
  BY NestedBefore DEF NestedFollow, NestedFollows
<1>3. PICK i \in 1 .. Len(ranges[h]) : ranges[h][i].name = s
  BY <1>2 DEF InStack
<1>4. PICK n \in 1 .. Len(ranges[h]) : n = Len(ranges[h]) /\ n \in Nat
  <2>1. Len(ranges[h]) \in Nat
    BY Stacked
  <2> QED BY <1>3, <2>1
<1>5. PICK q \in Scopes : /\ q = ranges[h][n].name /\ scope[q].emitted /\ scope[q].thread = h
                          /\ scope[q].state = "open" /\ scope[q].push = ranges[h][n].start
                          /\ ranges[h][n].start <= now /\ ranges[h][n].start \in Nat
  BY <1>2, <1>4, RangeNames
<1>6. CASE q # s
  <2>1. i < n
    BY <1>3, <1>4, <1>5, <1>6
  <2>2. ranges[h][i].start < ranges[h][n].start /\ scope[s].push = ranges[h][i].start
    BY <1>3, <1>4, <2>1, RangesOrdered, RangeNames
  <2>3. scope'[q] = scope[q] /\ scope[q].pop = 0
    BY <1>1, <1>5, <1>6 DEF ScopesFollow, ScopeFollows
  <2>4. p.emitted /\ p.thread = h /\ p.push = scope[s].push /\ now < p.pop /\ p.pop \in Nat
    BY DEF Moves, ScopeBecomes, ScopeObject
  <2>5. scope[q].push < p.pop /\ p.push < scope[q].push
    BY <1>5, <2>2, <2>4 DEF Types
  <2>6. /\ scope'[s].emitted /\ scope'[s].thread = h /\ scope'[s].push = p.push
        /\ scope'[s].pop = p.pop /\ scope'[q].emitted /\ scope'[q].thread = h
        /\ scope'[q].push = scope[q].push /\ scope'[q].pop = 0
    BY <1>1, <1>5, <2>3, <2>4
  <2>7. Crossed(s, q)'
    BY <2>5, <2>6 DEF Crossed
  <2>8. \A r \in Scopes : ~Crossed(s, r)'
    BY <2>6 DEF IsNested
  <2> QED BY <2>7, <2>8
<1> QED BY <1>4, <1>5, <1>6

-----------------------------------------------------------------------------
(* Where the markers stand to each other and to the launches.              *)

LEMMA MarkerTypes ==
  ASSUME Types, NEW m \in markers
  PROVE  m.name \in Scopes /\ m.thread \in Threads /\ m.start \in Nat /\ m.end \in Nat
BY DEF Types, ThreadMarker

LEMMA KernelTypes ==
  ASSUME Types, NEW k \in kernels
  PROVE  k.thread \in Threads /\ k.time \in Nat /\ k.within \in 0 .. NumScopes
BY DEF Types, Kernel

Nests == Types /\ RangesFollow /\ MarkersNest /\ KernelsFollow

LEMMA QuietNests ==
  ASSUME Nests, now' \in Nat, now <= now', UNCHANGED <<ranges, markers, kernels>>
  PROVE  MarkersNest' /\ KernelsFollow'
<1>1. now \in Nat /\ Types
  BY DEF Nests, Types
<1>2. MarkersNest'
  <2>1. \A m \in markers' : m.start < m.end /\ m.end <= now'
    <3>1. \A m \in markers : m.start < m.end /\ m.end <= now /\ m.end \in Nat
      BY <1>1, MarkerTypes DEF Nests, MarkersNest
    <3> QED BY <1>1, <3>1
  <2> QED BY <2>1 DEF Nests, MarkersNest
<1>3. KernelsFollow'
  <2> SUFFICES ASSUME NEW k \in kernels PROVE KernelFollows(k)'
    BY DEF KernelsFollow
  <2>1. KernelFollows(k) /\ k.time \in Nat /\ k.time <= now /\ k.time <= now'
    BY <1>1, KernelTypes DEF Nests, KernelsFollow, KernelFollows
  <2>2. Around(k)' = Around(k) /\ OpenAt(k)' = OpenAt(k)
    BY DEF Around, OpenAt
  <2> QED BY <2>1, <2>2 DEF KernelFollows, IsLatest
<1> QED BY <1>2, <1>3

\* What is pushed now is beyond every marker and every launch.
LEMMA PushNests ==
  ASSUME Nests, NEW h \in Threads, NEW s \in Scopes, now' \in Nat, now + 1 <= now',
         ranges' = Pushed(h, s, now + 1), UNCHANGED <<markers, kernels>>
  PROVE  MarkersNest' /\ KernelsFollow'
<1>0. now \in Nat /\ Types
  BY DEF Nests, Types
<1>1. /\ Len(ranges'[h]) = Len(ranges[h]) + 1
      /\ ranges'[h][Len(ranges[h]) + 1].name = s
      /\ ranges'[h][Len(ranges[h]) + 1].start = now + 1
      /\ \A i \in 1 .. Len(ranges[h]) : ranges'[h][i] = ranges[h][i]
      /\ \A g \in Threads \ {h} : ranges'[g] = ranges[g]
  BY <1>0, PushIs
<1>2. \A g \in Threads : Len(ranges[g]) \in Nat
  BY <1>0, Stacked
<1>3. \A g \in Threads : \A i \in 1 .. Len(ranges'[g]) :
        \/ i \in 1 .. Len(ranges[g]) /\ ranges'[g][i] = ranges[g][i]
        \/ ranges'[g][i].start = now + 1
  BY <1>1, <1>2
<1>4. MarkersNest'
  <2>1. \A m \in markers : m.start < m.end /\ m.end <= now /\ m.thread \in Threads
                           /\ m.start \in Nat /\ m.end \in Nat
    BY <1>0, MarkerTypes DEF Nests, MarkersNest
  <2>2. \A m \in markers' : m.start < m.end /\ m.end <= now'
    BY <1>0, <2>1
  <2>3. \A m, n \in markers' : m.thread = n.thread =>
          /\ m.start = n.start => m = n
          /\ n.start < m.start /\ m.start <= n.end => m.end < n.end
    BY DEF Nests, MarkersNest
  <2>4. ASSUME NEW m \in markers', NEW i \in 1 .. Len(ranges'[m.thread])
        PROVE  m.end < ranges'[m.thread][i].start \/ ranges'[m.thread][i].start < m.start
    <3>1. m \in markers /\ m.thread \in Threads /\ m.end < now + 1
      BY <1>0, <2>1
    <3> QED BY <1>3, <3>1 DEF Nests, MarkersNest
  <2> QED BY <2>2, <2>3, <2>4 DEF MarkersNest
<1>5. KernelsFollow'
  <2> SUFFICES ASSUME NEW k \in kernels PROVE KernelFollows(k)'
    BY DEF KernelsFollow
  <2>1. KernelFollows(k) /\ k.thread \in Threads /\ k.time \in Nat /\ k.time <= now
    BY <1>0, KernelTypes DEF Nests, KernelsFollow, KernelFollows
  <2>2. \A i : i \in OpenAt(k)' <=> i \in OpenAt(k)
    <3>1. \A i \in OpenAt(k) : i \in OpenAt(k)'
      <4>1. \A i \in 1 .. Len(ranges[k.thread]) :
              i \in 1 .. Len(ranges'[k.thread]) /\ ranges'[k.thread][i] = ranges[k.thread][i]
        BY <1>1, <1>2, <2>1
      <4> QED BY <4>1 DEF OpenAt
    <3>2. \A i \in OpenAt(k)' : i \in OpenAt(k)
      <4>1. ~(now + 1 <= k.time)
        BY <1>0, <2>1
      <4> QED BY <1>3, <2>1, <4>1 DEF OpenAt
    <3> QED BY <3>1, <3>2
  <2>3. Around(k)' = Around(k) /\ OpenAt(k)' = OpenAt(k)
    BY <2>2 DEF Around
  <2>4. \A i \in OpenAt(k) : ranges'[k.thread][i] = ranges[k.thread][i]
    BY <1>1, <2>1 DEF OpenAt
  <2>5. \A start : IsLatest(start, k)' <=> IsLatest(start, k)
    BY <2>3, <2>4 DEF IsLatest
  <2>6. k.time <= now'
    BY <1>0, <2>1
  <2>7. ASSUME NEW i \in OpenAt(k), IsLatest(ranges[k.thread][i].start, k)
        PROVE  IsLatest(ranges[k.thread][i].start, k)'
    <3>1. \A j \in OpenAt(k)' : ranges'[k.thread][j].start <= ranges'[k.thread][i].start
      BY <2>3, <2>4, <2>7 DEF IsLatest
    <3>2. \A m \in Around(k)' : m.start <= ranges'[k.thread][i].start
      BY <2>3, <2>4, <2>7 DEF IsLatest
    <3> QED BY <3>1, <3>2 DEF IsLatest
  <2> QED BY <2>1, <2>3, <2>4, <2>5, <2>6, <2>7 DEF KernelFollows
<1> QED BY <1>4, <1>5

\* The range that is popped becomes a marker, inside those that stay open, around the
\* launches since its push.
LEMMA PopNests ==
  ASSUME Nests, NEW h \in Threads, ranges[h] # <<>>, now' = now + 1, PopLast(h),
         UNCHANGED kernels
  PROVE  MarkersNest' /\ KernelsFollow'
<1> DEFINE n == Len(ranges[h])
           r == ranges[h][n]
<1>0. now \in Nat /\ Types /\ RangesFollow
  BY DEF Nests, Types
<1>1. /\ now' = now + 1 /\ n \in Nat \ {0} /\ n \in 1 .. n
      /\ Len(ranges'[h]) = n - 1
      /\ \A i \in 1 .. n - 1 : ranges'[h][i] = ranges[h][i]
      /\ \A g \in Threads \ {h} : ranges'[g] = ranges[g]
      /\ markers' = markers \cup {Marker(r, h, now + 1)}
  BY <1>0, PopIs
<1>2. r.start \in Nat /\ r.start <= now /\ r.name \in Scopes
  BY <1>0, <1>1, RangeNames
<1>3. PICK made : /\ markers' = markers \cup {made} /\ made.name = r.name /\ made.thread = h
                  /\ made.start = r.start /\ made.end = now + 1
  <2>1. Marker(r, h, now + 1).name = r.name /\ Marker(r, h, now + 1).thread = h
        /\ Marker(r, h, now + 1).start = r.start /\ Marker(r, h, now + 1).end = now + 1
    BY DEF Marker
  <2> QED BY <1>1, <2>1
<1>4. \A g \in Threads : \A i \in 1 .. Len(ranges'[g]) :
        i \in 1 .. Len(ranges[g]) /\ ranges'[g][i] = ranges[g][i] /\ ~(g = h /\ i = n)
  <2> SUFFICES ASSUME NEW g \in Threads, NEW i \in 1 .. Len(ranges'[g])
               PROVE  i \in 1 .. Len(ranges[g]) /\ ranges'[g][i] = ranges[g][i] /\ ~(g = h /\ i = n)
    OBVIOUS
  <2>1. CASE g = h
    <3>1. i \in 1 .. n - 1 /\ i \in 1 .. n /\ i # n
      BY <1>1, <2>1
    <3> QED BY <1>1, <2>1, <3>1
  <2>2. CASE g # h
    BY <1>1, <2>2
  <2> QED BY <2>1, <2>2
<1>5. \A i \in 1 .. n : i # n => ranges[h][i].start < r.start
  <2> SUFFICES ASSUME NEW i \in 1 .. n, i # n PROVE ranges[h][i].start < r.start
    OBVIOUS
  <2>1. i < n
    BY <1>1
  <2> QED BY <1>0, <1>1, <2>1, RangesOrdered
<1>6. \A m \in markers : /\ m.start < m.end /\ m.end <= now /\ m.thread \in Threads
                         /\ m.start \in Nat /\ m.end \in Nat
  BY <1>0, MarkerTypes DEF Nests, MarkersNest
<1>7. \A m \in markers : m.thread = h => m.end < r.start \/ r.start < m.start
  BY <1>1 DEF Nests, MarkersNest
<1> HIDE DEF r
<1>8. MarkersNest'
  <2>1. \A m \in markers' : m.start < m.end /\ m.end <= now'
    BY <1>0, <1>1, <1>2, <1>3, <1>6
  <2>2. ASSUME NEW a \in markers', NEW b \in markers', a.thread = b.thread
        PROVE  /\ a.start = b.start => a = b
               /\ b.start < a.start /\ a.start <= b.end => a.end < b.end
    <3>1. CASE a \in markers /\ b \in markers
      BY <2>2, <3>1 DEF Nests, MarkersNest
    <3>2. CASE a = made /\ b \in markers
      <4>1. /\ b.end < r.start \/ r.start < b.start
            /\ b.start < b.end /\ b.start \in Nat /\ b.end \in Nat
        BY <1>3, <1>6, <1>7, <2>2, <3>2
      <4> QED BY <1>2, <1>3, <3>2, <4>1
    <3>3. CASE a \in markers /\ b = made
      <4>1. /\ a.end < r.start \/ r.start < a.start
            /\ a.start < a.end /\ a.start \in Nat /\ a.end \in Nat /\ a.end <= now
        BY <1>3, <1>6, <1>7, <2>2, <3>3
      <4> QED BY <1>0, <1>2, <1>3, <3>3, <4>1
    <3>4. CASE a = made /\ b = made
      BY <1>2, <1>3, <3>4
    <3> QED BY <1>3, <2>2, <3>1, <3>2, <3>3, <3>4
  <2>3. ASSUME NEW m \in markers', NEW i \in 1 .. Len(ranges'[m.thread])
        PROVE  m.end < ranges'[m.thread][i].start \/ ranges'[m.thread][i].start < m.start
    <3>1. m.thread \in Threads
      BY <1>3, <1>6, <2>3
    <3>2. /\ i \in 1 .. Len(ranges[m.thread]) /\ ranges'[m.thread][i] = ranges[m.thread][i]
          /\ ~(m.thread = h /\ i = n)
      BY <1>4, <2>3, <3>1
    <3>3. CASE m \in markers
      BY <3>2, <3>3 DEF Nests, MarkersNest
    <3>4. CASE m = made
      BY <1>3, <1>5, <3>2, <3>4
    <3> QED BY <1>3, <2>3, <3>3, <3>4
  <2> QED BY <2>1, <2>2, <2>3 DEF MarkersNest
<1>9. KernelsFollow'
  <2> SUFFICES ASSUME NEW k \in kernels PROVE KernelFollows(k)'
    BY DEF KernelsFollow
  <2>1. KernelFollows(k) /\ k.thread \in Threads /\ k.time \in Nat
        /\ k.time <= now /\ k.time <= now'
    BY <1>0, <1>1, KernelTypes DEF Nests, KernelsFollow, KernelFollows
  <2>2. CASE k.thread # h
    <3>1. ranges'[k.thread] = ranges[k.thread]
      BY <1>1, <2>1, <2>2
    <3>2. Around(k)' = Around(k) /\ OpenAt(k)' = OpenAt(k)
      BY <1>3, <2>2, <3>1 DEF Around, OpenAt
    <3> QED BY <2>1, <3>1, <3>2 DEF KernelFollows, IsLatest
  <2>3. CASE k.thread = h
    <3>1. \A i : i \in OpenAt(k)' <=> i \in OpenAt(k) /\ i # n
      BY <1>1, <2>3 DEF OpenAt
    <3>2. \A i \in OpenAt(k)' : ranges'[h][i] = ranges[h][i]
      BY <1>4, <2>3 DEF OpenAt
    <3>3. \A m : m \in Around(k)' <=> m \in Around(k) \/ (m = made /\ n \in OpenAt(k))
      <4>1. n \in OpenAt(k) <=> r.start <= k.time
        BY <1>1, <2>3 DEF OpenAt, r
      <4>2. made.thread = h /\ made.start = r.start /\ k.time <= made.end
        BY <1>0, <1>3, <2>1
      <4> QED BY <1>3, <2>3, <4>1, <4>2 DEF Around
    <3>4. ASSUME NEW start, IsLatest(start, k)
          PROVE  /\ \A i \in OpenAt(k)' : ranges'[h][i].start <= start
                 /\ \A m \in Around(k)' : m.start <= start
      <4>1. \A i \in OpenAt(k) : ranges[h][i].start <= start
        BY <2>3, <3>4 DEF IsLatest
      <4>2. \A m \in Around(k) : m.start <= start
        BY <3>4 DEF IsLatest
      <4> QED BY <1>3, <3>1, <3>2, <3>3, <4>1, <4>2 DEF r
    <3>5. CASE k.within = 0
      <4>1. OpenAt(k) = {} /\ Around(k) = {}
        BY <2>1, <3>5 DEF KernelFollows
      <4>2. OpenAt(k)' = {} /\ Around(k)' = {}
        BY <3>1, <3>3, <4>1
      <4> QED BY <2>1, <3>5, <4>2 DEF KernelFollows
    <3>6. ASSUME NEW m \in Around(k), m.name = k.within, IsLatest(m.start, k), k.within # 0
          PROVE  KernelFollows(k)'
      <4>1. m \in Around(k)' /\ IsLatest(m.start, k)'
        BY <2>3, <3>3, <3>4, <3>6 DEF IsLatest
      <4> QED BY <2>1, <3>6, <4>1 DEF KernelFollows
    <3>7. ASSUME NEW i \in OpenAt(k), ranges[h][i].name = k.within,
                 IsLatest(ranges[h][i].start, k), k.within # 0
          PROVE  KernelFollows(k)'
      <4>1. CASE i = n
        <5>1. made \in Around(k)' /\ made.name = k.within /\ made.start = ranges[h][i].start
          BY <1>3, <3>3, <3>7, <4>1 DEF r
        <5>2. IsLatest(made.start, k)'
          BY <2>3, <3>4, <3>7, <5>1 DEF IsLatest
        <5> QED BY <2>1, <3>7, <5>1, <5>2 DEF KernelFollows
      <4>2. CASE i # n
        <5>1. i \in OpenAt(k)' /\ ranges'[h][i] = ranges[h][i]
          BY <3>1, <3>2, <3>7, <4>2
        <5>2. IsLatest(ranges[k.thread][i].start, k)'
          BY <2>3, <3>4, <3>7, <5>1 DEF IsLatest
        <5> QED BY <2>1, <2>3, <3>7, <5>1, <5>2 DEF KernelFollows
      <4> QED BY <4>1, <4>2
    <3> QED BY <2>1, <2>3, <3>5, <3>6, <3>7 DEF KernelFollows
  <2> QED BY <2>2, <2>3
<1> QED BY <1>8, <1>9

\* The range of an entry that fails has no launch inside.
LEMMA FailedRangeNests ==
  ASSUME Nests, NEW h \in Threads, NEW s \in Scopes, OpenAndFinishRange(h, s, TRUE),
         UNCHANGED kernels
  PROVE  MarkersNest' /\ KernelsFollow'
<1> DEFINE made == Marker([name |-> s, start |-> now + 1], h, now + 2)
<1>0. now \in Nat /\ Types /\ RangesFollow
  BY DEF Nests, Types
<1>1. now' = now + 2 /\ markers' = markers \cup {made} /\ UNCHANGED ranges
  BY DEF OpenAndFinishRange
<1>2. made.thread = h /\ made.start = now + 1 /\ made.end = now + 2
  BY DEF Marker
<1>3. \A m \in markers : /\ m.start < m.end /\ m.end <= now /\ m.thread \in Threads
                         /\ m.start \in Nat /\ m.end \in Nat
  BY <1>0, MarkerTypes DEF Nests, MarkersNest
<1>4. \A i \in 1 .. Len(ranges[h]) : ranges[h][i].start <= now /\ ranges[h][i].start \in Nat
  BY <1>0, RangeNames
<1> HIDE DEF made
<1>5. MarkersNest'
  <2>1. \A m \in markers' : m.start < m.end /\ m.end <= now'
    BY <1>0, <1>1, <1>2, <1>3
  <2>2. ASSUME NEW a \in markers', NEW b \in markers', a.thread = b.thread
        PROVE  /\ a.start = b.start => a = b
               /\ b.start < a.start /\ a.start <= b.end => a.end < b.end
    <3>1. CASE a \in markers /\ b \in markers
      BY <2>2, <3>1 DEF Nests, MarkersNest
    <3>2. CASE a = made /\ b \in markers
      BY <1>0, <1>2, <1>3, <3>2
    <3>3. CASE a \in markers /\ b = made
      BY <1>0, <1>2, <1>3, <3>3
    <3>4. CASE a = made /\ b = made
      BY <1>0, <1>2, <3>4
    <3> QED BY <1>1, <2>2, <3>1, <3>2, <3>3, <3>4
  <2>3. ASSUME NEW m \in markers', NEW i \in 1 .. Len(ranges'[m.thread])
        PROVE  m.end < ranges'[m.thread][i].start \/ ranges'[m.thread][i].start < m.start
    <3>1. CASE m \in markers
      BY <1>1, <2>3, <3>1 DEF Nests, MarkersNest
    <3>2. CASE m = made
      <4>1. ranges'[m.thread][i].start <= now /\ ranges'[m.thread][i].start \in Nat
        BY <1>1, <1>2, <1>4, <2>3, <3>2
      <4> QED BY <1>0, <1>2, <3>2, <4>1
    <3> QED BY <1>1, <2>3, <3>1, <3>2
  <2> QED BY <2>1, <2>2, <2>3 DEF MarkersNest
<1>6. KernelsFollow'
  <2> SUFFICES ASSUME NEW k \in kernels PROVE KernelFollows(k)'
    BY DEF KernelsFollow
  <2>1. KernelFollows(k) /\ k.time \in Nat /\ k.time <= now /\ k.time <= now'
    BY <1>0, <1>1, KernelTypes DEF Nests, KernelsFollow, KernelFollows
  <2>2. ~(made.start <= k.time)
    BY <1>0, <1>2, <2>1
  <2>3. Around(k)' = Around(k) /\ OpenAt(k)' = OpenAt(k)
    BY <1>1, <2>2 DEF Around, OpenAt
  <2> QED BY <1>1, <2>1, <2>3 DEF KernelFollows, IsLatest
<1> QED BY <1>5, <1>6

\* A launch is inside the range its thread opened last.
LEMMA LaunchNests ==
  ASSUME Nests, NEW t \in Tasks, Launch(t)
  PROVE  /\ MarkersNest' /\ KernelsFollow' /\ now' = now + 1
         /\ kernels' \subseteq Kernel
<1> DEFINE h == thread[t]
           n == Len(ranges[h])
           new == [thread |-> h, time |-> now + 1,
                   within |-> IF ranges[h] = <<>> THEN 0 ELSE Last(ranges[h]).name]
<1>0. now \in Nat /\ Types /\ RangesFollow /\ h \in Threads
  BY DEF Nests, Types, Launch, Free
<1>1. now' = now + 1 /\ kernels' = kernels \cup {new} /\ UNCHANGED <<ranges, markers>>
  BY DEF Launch
<1>2. \A m \in markers : /\ m.start < m.end /\ m.end <= now /\ m.thread \in Threads
                         /\ m.start \in Nat /\ m.end \in Nat
  BY <1>0, MarkerTypes DEF Nests, MarkersNest
<1>3. MarkersNest'
  <2>1. \A m \in markers' : m.start < m.end /\ m.end <= now'
    BY <1>0, <1>1, <1>2
  <2> QED BY <1>1, <2>1 DEF Nests, MarkersNest
<1>4. \A i \in 1 .. n : ranges[h][i].start <= now /\ ranges[h][i].start \in Nat
                        /\ ranges[h][i].name \in Scopes
  BY <1>0, RangeNames
<1>5. ranges[h] # <<>> => /\ n \in 1 .. n /\ Last(ranges[h]) = ranges[h][n]
                          /\ \A i \in 1 .. n : i # n => ranges[h][i].start < ranges[h][n].start
  <2> SUFFICES ASSUME ranges[h] # <<>>
               PROVE  /\ n \in 1 .. n /\ Last(ranges[h]) = ranges[h][n]
                      /\ \A i \in 1 .. n : i # n => ranges[h][i].start < ranges[h][n].start
    OBVIOUS
  <2>1. ranges[h] \in Seq(ThreadRange)
    BY <1>0 DEF Types
  <2>2. n \in Nat \ {0} /\ Last(ranges[h]) = ranges[h][n]
    BY <2>1, FrontIs
  <2>3. ASSUME NEW i \in 1 .. n, i # n PROVE ranges[h][i].start < ranges[h][n].start
    <3>1. i < n /\ n \in 1 .. n
      BY <2>2, <2>3
    <3> QED BY <1>0, <3>1, RangesOrdered
  <2> QED BY <2>2, <2>3
<1>6. PICK k : /\ k \in Kernel /\ k.thread = h /\ k.time = now + 1 /\ kernels' = kernels \cup {k}
               /\ k.within = (IF ranges[h] = <<>> THEN 0 ELSE Last(ranges[h]).name)
  <2>1. (IF ranges[h] = <<>> THEN 0 ELSE Last(ranges[h]).name) \in 0 .. NumScopes
    BY <1>4, <1>5, ProfileAssumption DEF Scopes
  <2>2. /\ new \in Kernel /\ new.thread = h /\ new.time = now + 1
        /\ new.within = (IF ranges[h] = <<>> THEN 0 ELSE Last(ranges[h]).name)
    BY <1>0, <2>1 DEF Kernel
  <2> QED BY <1>1, <2>2
<1>7. Around(k)' = {}
  BY <1>0, <1>1, <1>2, <1>6 DEF Around
<1>8. \A i : i \in OpenAt(k)' <=> i \in 1 .. n
  BY <1>0, <1>1, <1>4, <1>6 DEF OpenAt
<1>9. KernelFollows(k)'
  <2>1. CASE ranges[h] = <<>>
    <3>1. n = 0 /\ k.within = 0
      BY <1>6, <2>1, EmptySeq
    <3>2. OpenAt(k)' = {}
      BY <1>8, <3>1
    <3> QED BY <1>0, <1>1, <1>6, <1>7, <3>1, <3>2 DEF KernelFollows
  <2>2. CASE ranges[h] # <<>>
    <3>1. n \in OpenAt(k)' /\ ranges'[h][n].name = k.within /\ k.within # 0
      BY <1>1, <1>4, <1>5, <1>6, <1>8, <2>2 DEF Scopes
    <3>2. \A i \in OpenAt(k)' : ranges'[h][i].start <= ranges'[h][n].start
      BY <1>1, <1>4, <1>5, <1>8, <2>2
    <3>3. PICK last : last = n
      OBVIOUS
    <3>4. IsLatest(ranges[k.thread][last].start, k)'
      BY <1>6, <1>7, <3>2, <3>3 DEF IsLatest
    <3> QED BY <1>0, <1>1, <1>6, <3>1, <3>3, <3>4 DEF KernelFollows
  <2> QED BY <2>1, <2>2
<1>10. ASSUME NEW x \in kernels PROVE KernelFollows(x)'
  <2>1. KernelFollows(x) /\ x.time \in Nat /\ x.time <= now /\ x.time <= now'
    BY <1>0, <1>1, <1>10, KernelTypes DEF Nests, KernelsFollow, KernelFollows
  <2>2. Around(x)' = Around(x) /\ OpenAt(x)' = OpenAt(x)
    BY <1>1 DEF Around, OpenAt
  <2> QED BY <1>1, <2>1, <2>2 DEF KernelFollows, IsLatest
<1>11. KernelsFollow'
  BY <1>6, <1>9, <1>10 DEF KernelsFollow
<1>12. kernels' \subseteq Kernel
  BY <1>0, <1>1, <1>6 DEF Types
<1> QED BY <1>1, <1>3, <1>11, <1>12

-----------------------------------------------------------------------------
(* What the actions of a task do to the tasks and to the trace.            *)

LEMMA Bounds ==
  /\ NumScopes \in Nat /\ MaxFailures \in Nat /\ 0 \notin Scopes
  /\ \A s \in Scopes : s \in 0 .. NumScopes
  /\ \A s \in HipScopes : s \in Scopes
  /\ \A h \in Threads : h \in Callers /\ h # NoCaller
  /\ \A o \in Observers : o \in Callers
  /\ \A c \in Callers : c # NoCaller
BY ProfileAssumption DEF Scopes, Callers

Trace ==
  /\ TasksFollow /\ ScopesFollow /\ RangesFollow /\ MarkersFollow /\ NestedFollow
  /\ MarkersNest /\ KernelsFollow
TraceTypes ==
  /\ thread \in [Tasks -> Threads \cup {NoCaller}] /\ base \in [Tasks -> Nat]
  /\ nesting \in [Tasks -> Seq(Scopes)] /\ depth \in [Tasks -> Nat]
  /\ ranges \in [Threads -> Seq(ThreadRange)] /\ markers \subseteq ThreadMarker /\ now \in Nat

LEMMA InvParts ==
  ASSUME Inv
  PROVE  /\ Types /\ Trace /\ Nests /\ now \in Nat
         /\ TasksFollow /\ ScopesFollow /\ RangesFollow /\ MarkersFollow /\ NestedFollow
BY DEF Inv, Nests, Types, Trace

LEMMA FreeThread ==
  ASSUME Types, NEW t \in Tasks, Free(t)
  PROVE  thread[t] \in Threads /\ thread[t] # NoCaller /\ depth[t] \in Nat
BY DEF Types, Free

\* The record of a scope that is entered, and of one whose entry fails.
EnteredRecord(state, d, h, emits, push) ==
  [NewScope EXCEPT !.state = state, !.depth = d, !.thread = h, !.emitted = emits,
                   !.push = push]

IsEntered(p, state, d, h, emits, push) ==
  /\ p \in ScopeObject /\ p.state = state /\ p.depth = d /\ p.thread = h
  /\ p.emitted = emits /\ p.push = push /\ p.pop = 0 /\ p.popError = FALSE
  /\ p.recorded = FALSE /\ p.lock = NoCaller

LEMMA EnteredFields ==
  ASSUME NEW state \in {"open", "failed"}, NEW d \in Nat, NEW h \in Threads,
         NEW emits \in BOOLEAN, NEW push \in Nat
  PROVE  IsEntered(EnteredRecord(state, d, h, emits, push), state, d, h, emits, push)
<1> DEFINE p == EnteredRecord(state, d, h, emits, push)
           a == [NewScope EXCEPT !.state = state, !.depth = d, !.thread = h]
<1>1. /\ NewScope \in ScopeObject /\ NewScope.pop = 0 /\ NewScope.lock = NoCaller
      /\ NewScope.popError = FALSE /\ NewScope.recorded = FALSE
  BY DEF NewScope, ScopeObject
<1>2. [NewScope EXCEPT !.state = state] \in ScopeObject
  BY <1>1 DEF ScopeObject
<1>3. [NewScope EXCEPT !.state = state, !.depth = d] \in ScopeObject
  BY <1>2 DEF ScopeObject
<1>4. a \in ScopeObject
  BY <1>3 DEF ScopeObject
<1>5. /\ a.state = state /\ a.depth = d /\ a.thread = h /\ a.pop = 0 /\ a.lock = NoCaller
      /\ a.popError = FALSE /\ a.recorded = FALSE
  BY <1>1 DEF ScopeObject
<1>6. p = [a EXCEPT !.emitted = emits, !.push = push]
  BY DEF EnteredRecord
<1> HIDE DEF a, p
<1>7. [a EXCEPT !.emitted = emits] \in ScopeObject
  BY <1>4 DEF ScopeObject
<1>8. p \in ScopeObject
  BY <1>6, <1>7 DEF ScopeObject
<1>9. /\ p.state = state /\ p.depth = d /\ p.thread = h /\ p.emitted = emits
      /\ p.push = push /\ p.pop = 0 /\ p.popError = FALSE /\ p.recorded = FALSE
      /\ p.lock = NoCaller
  BY <1>4, <1>5, <1>6 DEF ScopeObject
<1>10. IsEntered(p, state, d, h, emits, push)
  BY <1>8, <1>9 DEF IsEntered
<1> QED BY <1>10 DEF p

LEMMA EnteredIs ==
  ASSUME Types, NEW t \in Tasks, Free(t), NEW state \in {"open", "failed"}, NEW emits \in BOOLEAN
  PROVE  LET p == Entered(t, state, emits)
         IN  /\ p \in ScopeObject /\ p.state = state /\ p.depth = depth[t]
             /\ p.thread = thread[t] /\ p.emitted = emits
             /\ p.push = (IF emits THEN now + 1 ELSE 0) /\ p.pop = 0 /\ p.popError = FALSE
             /\ p.recorded = FALSE /\ p.lock = NoCaller
<1> DEFINE push == IF emits THEN now + 1 ELSE 0
<1>1. thread[t] \in Threads /\ depth[t] \in Nat /\ push \in Nat
  BY FreeThread DEF Types
<1>2. Entered(t, state, emits) = EnteredRecord(state, depth[t], thread[t], emits, push)
  BY DEF Entered, EnteredRecord
<1> HIDE DEF push
<1> DEFINE p == EnteredRecord(state, depth[t], thread[t], emits, push)
<1>3. IsEntered(p, state, depth[t], thread[t], emits, push)
  BY <1>1, EnteredFields
<1> HIDE DEF p
<1>4. /\ p \in ScopeObject /\ p.state = state /\ p.depth = depth[t]
      /\ p.thread = thread[t] /\ p.emitted = emits /\ p.push = push /\ p.pop = 0
      /\ p.popError = FALSE /\ p.recorded = FALSE /\ p.lock = NoCaller
  BY <1>3 DEF IsEntered
<1> QED BY <1>2, <1>4 DEF push, p

Failed(t, emits, pop, error) ==
  [Entered(t, "failed", emits) EXCEPT !.pop = pop, !.popError = error]

IsFailed(p, t, emits, pop, error) ==
  /\ p \in ScopeObject /\ p.state = "failed" /\ p.thread = thread[t]
  /\ p.emitted = emits /\ p.push = (IF emits THEN now + 1 ELSE 0)
  /\ p.pop = pop /\ p.popError = error /\ p.recorded = FALSE /\ p.lock = NoCaller

LEMMA FailedIs ==
  ASSUME Types, NEW t \in Tasks, Free(t), NEW emits \in BOOLEAN, NEW pop \in Nat,
         NEW error \in BOOLEAN
  PROVE  IsFailed(Failed(t, emits, pop, error), t, emits, pop, error)
<1> DEFINE push == IF emits THEN now + 1 ELSE 0
<1> DEFINE p == Failed(t, emits, pop, error)
<1>1. PICK q : q = Entered(t, "failed", emits)
  OBVIOUS
<1>2. /\ q \in ScopeObject /\ q.state = "failed" /\ q.thread = thread[t]
      /\ q.emitted = emits /\ q.push = push /\ q.recorded = FALSE /\ q.lock = NoCaller
  BY <1>1, EnteredIs
<1> HIDE DEF push
<1>3. p = [q EXCEPT !.pop = pop, !.popError = error]
  BY <1>1 DEF Failed
<1> HIDE DEF p
<1>4. [q EXCEPT !.pop = pop] \in ScopeObject
  BY <1>2 DEF ScopeObject
<1>5. p \in ScopeObject
  BY <1>3, <1>4 DEF ScopeObject
<1>6. /\ p.state = "failed" /\ p.thread = thread[t] /\ p.emitted = emits /\ p.push = push
      /\ p.pop = pop /\ p.popError = error /\ p.recorded = FALSE /\ p.lock = NoCaller
  BY <1>2, <1>3 DEF ScopeObject
<1>7. IsFailed(p, t, emits, pop, error)
  BY <1>5, <1>6 DEF push, IsFailed
<1> QED BY <1>7 DEF p

\* The record of a scope that is left.
LEMMA ExitedIs ==
  ASSUME Types, NEW s \in Scopes, NEW state \in {"exited", "failed"}, NEW popped \in BOOLEAN,
         scope' = Exited(s, state, popped)
  PROVE  \E p : /\ ScopeBecomes(s, p) /\ p.state = state /\ p.emitted = scope[s].emitted
                /\ p.thread = scope[s].thread /\ p.push = scope[s].push
                /\ p.pop = (IF scope[s].emitted THEN now + 1 ELSE 0) /\ p.popError = ~popped
                /\ p.recorded = scope[s].recorded /\ p.lock = scope[s].lock
<1> DEFINE pop == IF scope[s].emitted THEN now + 1 ELSE 0
           error == ~popped
           p == [scope[s] EXCEPT !.state = state, !.popError = error, !.pop = pop]
<1>1. scope[s] \in ScopeObject /\ pop \in Nat /\ error \in BOOLEAN
  BY DEF Types
<1>2. scope' = [scope EXCEPT ![s] = p]
  BY DEF Exited
<1> HIDE DEF pop, error
<1>3. [scope[s] EXCEPT !.state = state] \in ScopeObject
  BY <1>1 DEF ScopeObject
<1>4. [scope[s] EXCEPT !.state = state, !.popError = error] \in ScopeObject
  BY <1>1, <1>3 DEF ScopeObject
<1>5. p \in ScopeObject
  BY <1>1, <1>4 DEF ScopeObject
<1>6. /\ p.state = state /\ p.emitted = scope[s].emitted /\ p.thread = scope[s].thread
      /\ p.push = scope[s].push /\ p.pop = pop /\ p.popError = error
      /\ p.recorded = scope[s].recorded /\ p.lock = scope[s].lock
  BY <1>1 DEF ScopeObject
<1> HIDE DEF p
<1> QED BY <1>2, <1>5, <1>6 DEF ScopeBecomes, pop, error

\* The scope's new record, and what a step does to the trace where it emits.
LEMMA PushTrace ==
  ASSUME Types, Trace, Nests, NEW s \in Scopes, NEW p, Moves(s, p), NEW h \in Threads,
         scope[s].state = "new", p.emitted, p.thread = h, p.push = now + 1,
         p.state # "open" => p.popError, now + 1 <= now',
         ranges' = Pushed(h, s, now + 1), UNCHANGED <<markers, kernels>>
  PROVE  /\ ScopesFollow' /\ RangesFollow' /\ MarkersFollow' /\ NestedFollow'
         /\ MarkersNest' /\ KernelsFollow' /\ ranges' \in [Threads -> Seq(ThreadRange)]
<1>0. /\ TasksFollow /\ ScopesFollow /\ RangesFollow /\ MarkersFollow /\ NestedFollow
      /\ now \in Nat /\ now' \in Nat
  BY DEF Trace, Types, Moves
<1>1. /\ ranges' \in [Threads -> Seq(ThreadRange)]
      /\ Len(ranges'[h]) = Len(ranges[h]) + 1
      /\ ranges'[h][Len(ranges[h]) + 1].name = s
      /\ ranges'[h][Len(ranges[h]) + 1].start = now + 1
      /\ \A i \in 1 .. Len(ranges[h]) : ranges'[h][i] = ranges[h][i]
      /\ \A g \in Threads \ {h} : ranges'[g] = ranges[g]
  BY <1>0, PushIs
<1>2. Len(ranges[h]) \in Nat
  BY Stacked
<1>3. scope'[s] = p /\ ~scope[s].emitted
  BY <1>0, ScopeFrame DEF Moves, TasksFollow
<1>4. ASSUME NEW g \in Threads, NEW i \in 1 .. Len(ranges'[g])
      PROVE  \/ i \in 1 .. Len(ranges[g]) /\ ranges'[g][i] = ranges[g][i]
             \/ /\ i = Len(ranges'[g]) /\ ranges'[g][i].name = s /\ ranges'[g][i].start = p.push
                /\ p.emitted /\ p.thread = g /\ now < p.push
  <2>1. CASE g = h /\ i = Len(ranges[h]) + 1
    BY <1>0, <1>1, <2>1
  <2>2. CASE g = h /\ i # Len(ranges[h]) + 1
    <3>1. i \in 1 .. Len(ranges[h])
      BY <1>1, <1>2, <2>2
    <3> QED BY <1>1, <2>2, <3>1
  <2>3. CASE g # h
    BY <1>1, <2>3
  <2> QED BY <2>1, <2>2, <2>3
<1>5. RangesFollow'
  BY <1>0, <1>1, <1>4, RangesMove
<1>6. MarkersFollow'
  BY <1>0, MarkersMove
<1>7. ASSUME NEW g \in Threads \ {h} PROVE NestedFollows(g)'
  BY <1>0, <1>1, NestedElsewhere
<1>8. NestedFollows(h)'
  <2>1. ASSUME IsNested(h)' PROVE p.state = "open"
    <3>1. ~scope'[s].popError
      BY <1>3, <2>1 DEF IsNested
    <3> QED BY <1>3, <3>1
  <2>2. ASSUME p.state = "open"
        PROVE  /\ \A i \in 1 .. Len(ranges'[h]) :
                    \/ ranges'[h][i].name = s /\ p.state = "open"
                    \/ ranges'[h][i].name # s /\ \E j \in 1 .. Len(ranges[h]) :
                                                   ranges[h][j].name = ranges'[h][i].name
               /\ \A j \in 1 .. Len(ranges[h]) :
                    \/ ranges[h][j].name = s
                    \/ \E i \in 1 .. Len(ranges'[h]) : ranges'[h][i].name = ranges[h][j].name
               /\ InStack(s, h)'
    <3>1. \A i \in 1 .. Len(ranges[h]) : ranges[h][i].name # s
      BY <1>0, <1>3, RangeNames
    <3>2. Len(ranges[h]) + 1 \in 1 .. Len(ranges'[h])
          /\ \A j \in 1 .. Len(ranges[h]) : j \in 1 .. Len(ranges'[h])
      BY <1>1, <1>2
    <3>3. InStack(s, h)'
      BY <1>1, <3>2 DEF InStack
    <3>4. ASSUME NEW i \in 1 .. Len(ranges'[h])
          PROVE  \/ ranges'[h][i].name = s
                 \/ ranges'[h][i].name # s /\ \E j \in 1 .. Len(ranges[h]) :
                                                ranges[h][j].name = ranges'[h][i].name
      BY <1>4, <3>1
    <3>5. ASSUME NEW j \in 1 .. Len(ranges[h])
          PROVE  \E i \in 1 .. Len(ranges'[h]) : ranges'[h][i].name = ranges[h][j].name
      BY <1>1, <3>2
    <3>6. \A j \in 1 .. Len(ranges[h]) :
            \/ ranges[h][j].name = s
            \/ \E i \in 1 .. Len(ranges'[h]) : ranges'[h][i].name = ranges[h][j].name
      BY <3>5
    <3>7. \A i \in 1 .. Len(ranges'[h]) :
            \/ ranges'[h][i].name = s /\ p.state = "open"
            \/ ranges'[h][i].name # s /\ \E j \in 1 .. Len(ranges[h]) :
                                           ranges[h][j].name = ranges'[h][i].name
      BY <2>2, <3>4
    <3> QED BY <3>3, <3>6, <3>7
  <2>3. KeepsNested(s, p, h)
    BY <2>1, <2>2 DEF KeepsNested
  <2>4. markers \subseteq markers'
    OBVIOUS
  <2> QED BY <1>0, <2>3, <2>4, NestedHere
<1>9. MarkersNest' /\ KernelsFollow'
  BY <1>0, PushNests
<1>10. ScopesFollow'
  BY <1>0, ScopesMove
<1> QED BY <1>1, <1>5, <1>6, <1>7, <1>8, <1>9, <1>10 DEF NestedFollow

\* A step that neither pushes nor pops: it emits nothing, or its pop has failed.
LEMMA QuietTrace ==
  ASSUME Types, Trace, Nests, NEW s \in Scopes, NEW p, Moves(s, p),
         p.emitted => p.popError, UNCHANGED <<ranges, markers, kernels>>
  PROVE  /\ ScopesFollow' /\ RangesFollow' /\ MarkersFollow' /\ NestedFollow'
         /\ MarkersNest' /\ KernelsFollow'
<1>0. /\ TasksFollow /\ ScopesFollow /\ RangesFollow /\ MarkersFollow /\ NestedFollow
      /\ now \in Nat /\ now' \in Nat /\ now <= now'
      /\ ranges' \in [Threads -> Seq(ThreadRange)]
  BY DEF Trace, Types, Moves
<1>1. scope'[s] = p
  BY ScopeFrame DEF Moves
<1>2. RangesFollow' /\ MarkersFollow' /\ ScopesFollow'
  BY <1>0, RangesMove, MarkersMove, ScopesMove
<1>3. ASSUME NEW h \in Threads PROVE NestedFollows(h)'
  <2>1. CASE ~(p.emitted /\ p.thread = h)
    BY <1>0, <2>1, NestedElsewhere
  <2>2. CASE p.emitted /\ p.thread = h
    <3>1. ASSUME IsNested(h)' PROVE FALSE
      <4>1. ~scope'[s].popError
        BY <1>1, <2>2, <3>1 DEF IsNested
      <4> QED BY <1>1, <2>2, <4>1
    <3>2. KeepsNested(s, p, h)
      BY <3>1 DEF KeepsNested
    <3> QED BY <1>0, <2>2, <3>2, NestedHere
  <2> QED BY <2>1, <2>2
<1>4. MarkersNest' /\ KernelsFollow'
  BY <1>0, QuietNests
<1> QED BY <1>2, <1>3, <1>4 DEF NestedFollow

\* A pop: of the scope's own range, while the ranges of the thread are nested.
LEMMA PopTrace ==
  ASSUME Types, Trace, Nests, NEW s \in Scopes, NEW p, Moves(s, p), NEW h \in Threads,
         scope[s].state = "open", scope[s].emitted, scope[s].thread = h, p.state # "open",
         p.emitted, p.thread = h, p.push = scope[s].push, p.pop = now + 1,
         ranges[h] # <<>>, now' = now + 1, PopLast(h), UNCHANGED kernels
  PROVE  /\ ScopesFollow' /\ RangesFollow' /\ MarkersFollow' /\ NestedFollow'
         /\ MarkersNest' /\ KernelsFollow' /\ ranges' \in [Threads -> Seq(ThreadRange)]
         /\ markers' \subseteq ThreadMarker
<1>0. /\ TasksFollow /\ ScopesFollow /\ RangesFollow /\ MarkersFollow /\ NestedFollow
      /\ now \in Nat
  BY DEF Trace, Types
<1>1. /\ ranges' \in [Threads -> Seq(ThreadRange)]
      /\ Len(ranges[h]) \in Nat \ {0} /\ Len(ranges[h]) \in 1 .. Len(ranges[h])
      /\ Len(ranges'[h]) = Len(ranges[h]) - 1
      /\ \A i \in 1 .. Len(ranges[h]) - 1 : ranges'[h][i] = ranges[h][i]
      /\ \A g \in Threads \ {h} : ranges'[g] = ranges[g]
      /\ markers' = markers \cup {Marker(ranges[h][Len(ranges[h])], h, now + 1)}
  BY <1>0, PopIs
<1>2. PICK n \in 1 .. Len(ranges[h]) : n = Len(ranges[h])
  BY <1>1
<1>3. /\ ranges[h][n].name \in Scopes /\ ranges[h][n].start \in Nat
      /\ scope[ranges[h][n].name].push = ranges[h][n].start
  BY <1>0, RangeNames
<1>4. PICK made : /\ markers' = markers \cup {made} /\ made = Marker(ranges[h][n], h, now + 1)
                  /\ made.name = ranges[h][n].name /\ made.thread = h
                  /\ made.start = ranges[h][n].start /\ made \in ThreadMarker
  <2>1. /\ Marker(ranges[h][n], h, now + 1).name = ranges[h][n].name
        /\ Marker(ranges[h][n], h, now + 1).thread = h
        /\ Marker(ranges[h][n], h, now + 1).start = ranges[h][n].start
        /\ Marker(ranges[h][n], h, now + 1) \in ThreadMarker
    BY <1>0, <1>3 DEF Marker, ThreadMarker
  <2> QED BY <1>1, <1>2, <2>1
<1>5. scope'[s] = p
  BY ScopeFrame DEF Moves
<1>6. ASSUME NEW g \in Threads, NEW i \in 1 .. Len(ranges'[g])
      PROVE  i \in 1 .. Len(ranges[g]) /\ ranges'[g][i] = ranges[g][i] /\ (g = h => i < n)
  <2>1. CASE g = h
    <3>1. i \in 1 .. Len(ranges[h]) - 1 /\ i \in 1 .. Len(ranges[h]) /\ i < n
      BY <1>1, <1>2, <2>1
    <3> QED BY <1>1, <2>1, <3>1
  <2>2. CASE g # h
    BY <1>1, <2>2
  <2> QED BY <2>1, <2>2
<1>7. RangesFollow'
  <2>1. \A g \in Threads : \A i \in 1 .. Len(ranges'[g]) :
          i \in 1 .. Len(ranges[g]) /\ ranges'[g][i] = ranges[g][i]
    BY <1>6
  <2>2. ranges' \in [Threads -> Seq(ThreadRange)]
    BY <1>1
  <2> QED BY <1>0, <2>1, <2>2, RangesMove
<1>8. MarkersFollow'
  BY <1>0, <1>4, MarkersMove
<1>9. ASSUME NEW g \in Threads \ {h} PROVE NestedFollows(g)'
  BY <1>0, <1>1, <1>4, NestedElsewhere
<1>10. NestedFollows(h)'
  <2>1. ASSUME IsNested(h)'
        PROVE  /\ \A i \in 1 .. Len(ranges'[h]) :
                    ranges'[h][i].name # s /\ \E j \in 1 .. Len(ranges[h]) :
                                                ranges[h][j].name = ranges'[h][i].name
               /\ \A j \in 1 .. Len(ranges[h]) :
                    \/ ranges[h][j].name = s
                    \/ \E i \in 1 .. Len(ranges'[h]) : ranges'[h][i].name = ranges[h][j].name
               /\ MarkerOf(s, h)' \in markers'
    <3>1. ranges[h][n].name = s
      BY <1>0, <1>2, <2>1, PopsItsOwn
    <3>2. ASSUME NEW i \in 1 .. Len(ranges'[h])
          PROVE  ranges'[h][i].name # s /\ \E j \in 1 .. Len(ranges[h]) :
                                             ranges[h][j].name = ranges'[h][i].name
      <4>1. i \in 1 .. Len(ranges[h]) /\ ranges'[h][i] = ranges[h][i] /\ i < n
        BY <1>6
      <4>2. ranges[h][i].start < ranges[h][n].start /\ ranges[h][i].start \in Nat
        BY <1>0, <4>1, RangesOrdered, RangeNames
      <4>3. scope[ranges[h][i].name].push = ranges[h][i].start
        BY <1>0, <4>1, RangeNames
      <4>4. ranges[h][i].name # s
        BY <1>3, <3>1, <4>2, <4>3
      <4> QED BY <4>1, <4>4
    <3>3. ASSUME NEW j \in 1 .. Len(ranges[h])
          PROVE  \/ ranges[h][j].name = s
                 \/ \E i \in 1 .. Len(ranges'[h]) : ranges'[h][i].name = ranges[h][j].name
      <4>1. CASE j = n
        BY <3>1, <4>1
      <4>2. CASE j # n
        <5>1. j \in 1 .. Len(ranges'[h]) /\ j \in 1 .. Len(ranges[h]) - 1
          BY <1>1, <1>2, <4>2
        <5> QED BY <1>1, <5>1
      <4> QED BY <4>1, <4>2
    <3>4. MarkerOf(s, h)' = made
      BY <1>3, <1>4, <1>5, <3>1 DEF Marker, MarkerOf
    <3> QED BY <1>4, <3>2, <3>3, <3>4
  <2>2. markers \subseteq markers'
    BY <1>4
  <2>3. KeepsNested(s, p, h)
    BY <2>1 DEF KeepsNested
  <2> QED BY <1>0, <2>2, <2>3, NestedHere
<1>11. MarkersNest' /\ KernelsFollow' /\ ScopesFollow'
  BY <1>0, PopNests, ScopesMove
<1>12. markers' \subseteq ThreadMarker
  BY <1>4 DEF Types
<1> QED BY <1>1, <1>7, <1>8, <1>9, <1>10, <1>11, <1>12 DEF NestedFollow

\* A push and a pop at once.
LEMMA FailedTrace ==
  ASSUME Types, Trace, Nests, NEW s \in Scopes, NEW p, Moves(s, p), NEW h \in Threads,
         scope[s].state = "new", p.state # "open", p.emitted, p.thread = h, p.push = now + 1,
         p.pop = now + 2, OpenAndFinishRange(h, s, TRUE), UNCHANGED kernels
  PROVE  /\ ScopesFollow' /\ RangesFollow' /\ MarkersFollow' /\ NestedFollow'
         /\ MarkersNest' /\ KernelsFollow' /\ UNCHANGED ranges
         /\ markers' \subseteq ThreadMarker
<1>0. /\ TasksFollow /\ ScopesFollow /\ RangesFollow /\ MarkersFollow /\ NestedFollow
      /\ now \in Nat /\ ranges \in [Threads -> Seq(ThreadRange)]
  BY DEF Trace, Types
<1> DEFINE new == Marker([name |-> s, start |-> now + 1], h, now + 2)
<1>1. UNCHANGED ranges /\ markers' = markers \cup {new}
  BY DEF OpenAndFinishRange
<1>2. new.name = s /\ new.thread = h /\ new.start = now + 1 /\ new \in ThreadMarker
  BY <1>0 DEF Marker, ThreadMarker
<1>3. scope'[s] = p /\ ~scope[s].emitted
  BY <1>0, ScopeFrame DEF Moves, TasksFollow
<1>4. MarkerOf(s, h)' \in markers'
  BY <1>1, <1>3 DEF MarkerOf, Marker
<1>5. markers \subseteq markers' /\ markers' \subseteq ThreadMarker
  BY <1>1, <1>2 DEF Types
<1> HIDE DEF new
<1>6. RangesFollow' /\ ScopesFollow'
  BY <1>0, <1>1, RangesMove, ScopesMove
<1>7. MarkersFollow'
  BY <1>0, <1>1, <1>2, MarkersMove
<1>8. ASSUME NEW g \in Threads \ {h} PROVE NestedFollows(g)'
  BY <1>0, <1>1, <1>5, NestedElsewhere
<1>9. NestedFollows(h)'
  <2>1. \A i \in 1 .. Len(ranges[h]) : ranges[h][i].name # s
    BY <1>0, <1>3, RangeNames
  <2>2. KeepsNested(s, p, h)
    BY <1>0, <1>1, <1>4, <2>1 DEF KeepsNested
  <2> QED BY <1>0, <1>5, <2>2, NestedHere
<1>10. MarkersNest' /\ KernelsFollow'
  BY <1>0, FailedRangeNests
<1> QED BY <1>1, <1>5, <1>6, <1>7, <1>8, <1>9, <1>10 DEF NestedFollow

\* What the completions need to know of the scope's new record.
Opens(s, p, state) ==
  /\ ScopeBecomes(s, p) /\ p.state = state
  /\ p.recorded => scope[s].recorded
  /\ p.lock \in {scope[s].lock, NoCaller}

LEMMA EnterTrace ==
  ASSUME Inv, NEW t \in Tasks, NEW s \in Scopes, NEW emits \in BOOLEAN, Enter(t, s, emits)
  PROVE  Trace' /\ TraceTypes' /\ \E p : Opens(s, p, "open")
<1>0. /\ Types /\ Trace /\ Nests /\ now \in Nat /\ TasksFollow
  BY InvParts
<1>1. /\ Free(t) /\ IsNext(s) /\ Enters(t, s)
      /\ scope' = [scope EXCEPT ![s] = Entered(t, "open", emits)]
      /\ UNCHANGED <<markers, kernels>>
  BY DEF Enter
<1>2. PICK h \in Threads : h = thread[t] /\ thread[t] # NoCaller
  BY <1>0, <1>1, FreeThread
<1>3. PICK p : p = Entered(t, "open", emits)
  OBVIOUS
<1>4. /\ p \in ScopeObject /\ p.state = "open" /\ p.depth = depth[t]
      /\ p.thread = thread[t] /\ p.emitted = emits
      /\ p.push = (IF emits THEN now + 1 ELSE 0) /\ p.pop = 0 /\ p.popError = FALSE
      /\ p.recorded = FALSE /\ p.lock = NoCaller
  <2>1. Types /\ Free(t) /\ "open" \in {"open", "failed"}
    BY <1>0, <1>1
  <2>2. p \in ScopeObject /\ p.state = "open"
    BY <2>1, <1>3, EnteredIs
  <2>3. p.depth = depth[t] /\ p.thread = thread[t]
    BY <2>1, <1>3, EnteredIs
  <2>4. p.emitted = emits /\ p.push = (IF emits THEN now + 1 ELSE 0)
    BY <2>1, <1>3, EnteredIs
  <2>5. p.pop = 0 /\ p.popError = FALSE /\ p.recorded = FALSE /\ p.lock = NoCaller
    BY <2>1, <1>3, EnteredIs
  <2> QED BY <2>2, <2>3, <2>4, <2>5
<1>5. scope' = [scope EXCEPT ![s] = p]
  BY <1>1, <1>3
<1>6. ScopeBecomes(s, p)
  BY <1>4, <1>5 DEF ScopeBecomes
<1>7. scope[s].state = "new" /\ ~scope[s].emitted
  BY <1>0, <1>1 DEF IsNext, TasksFollow
<1>8. Opens(s, p, "open")
  BY <1>4, <1>6 DEF Opens
<1>9. TasksFollow'
  BY <1>0, <1>1, <1>2, <1>4, <1>6, EnterTasksFollow
<1>10. /\ nesting' \in [Tasks -> Seq(Scopes)] /\ depth' \in [Tasks -> Nat]
       /\ thread' = thread /\ base' = base
  BY <1>0, <1>1, EnterTask
<1>11. CASE emits
  <2>1. now' = now + 1 /\ ranges' = Pushed(h, s, now + 1) /\ p.push = now + 1
    BY <1>2, <1>4, <1>11 DEF Enter
  <2>2. Moves(s, p)
    BY <1>0, <1>2, <1>4, <1>6, <1>7, <2>1 DEF Moves
  <2>3. now + 1 <= now' /\ now' \in Nat
    BY <1>0, <2>1
  <2>4. /\ ScopesFollow' /\ RangesFollow' /\ MarkersFollow' /\ NestedFollow'
        /\ MarkersNest' /\ KernelsFollow' /\ ranges' \in [Threads -> Seq(ThreadRange)]
    BY <1>0, <1>1, <1>2, <1>4, <1>7, <1>11, <2>1, <2>2, <2>3, PushTrace
  <2> QED BY <1>0, <1>1, <1>8, <1>9, <1>10, <2>3, <2>4 DEF Trace, TraceTypes, Types
<1>12. CASE ~emits
  <2>1. UNCHANGED <<now, ranges>> /\ p.push = 0
    BY <1>4, <1>12 DEF Enter
  <2>2. Moves(s, p)
    BY <1>0, <1>2, <1>4, <1>6, <1>7, <1>12, <2>1 DEF Moves
  <2>3. /\ ScopesFollow' /\ RangesFollow' /\ MarkersFollow' /\ NestedFollow'
        /\ MarkersNest' /\ KernelsFollow'
    BY <1>0, <1>1, <1>4, <1>12, <2>1, <2>2, QuietTrace
  <2> QED BY <1>0, <1>1, <1>8, <1>9, <1>10, <2>1, <2>3 DEF Trace, TraceTypes, Types
<1> QED BY <1>11, <1>12

\* The three ways to leave a scope.
LEMMA LeaveTrace ==
  ASSUME Inv, NEW t \in Tasks, NEW s \in Scopes, NEW state \in {"exited", "failed"},
         NEW popped \in BOOLEAN, Free(t), IsInnermost(t, s), Leaves(t),
         FinishRange(t, s, popped), scope' = Exited(s, state, popped), UNCHANGED kernels
  PROVE  Trace' /\ TraceTypes' /\ scope[s].state = "open" /\ \E p : Opens(s, p, state)
<1>0. /\ Types /\ Trace /\ Nests /\ now \in Nat /\ TasksFollow
  BY InvParts
<1>1. PICK h \in Threads : h = thread[t]
  BY <1>0, FreeThread
<1>2. PICK p : /\ ScopeBecomes(s, p) /\ p.state = state /\ p.emitted = scope[s].emitted
               /\ p.thread = scope[s].thread /\ p.push = scope[s].push
               /\ p.pop = (IF scope[s].emitted THEN now + 1 ELSE 0) /\ p.popError = ~popped
               /\ p.recorded = scope[s].recorded /\ p.lock = scope[s].lock
  BY <1>0, ExitedIs
<1>3. Opens(s, p, state)
  BY <1>2 DEF Opens
<1>4. /\ scope[s].state = "open" /\ scope[s].thread = h /\ thread' = thread /\ base' = base
      /\ nesting' \in [Tasks -> Seq(Scopes)] /\ depth' \in [Tasks -> Nat]
  BY <1>0, <1>1, LeaveTask
<1>5. TasksFollow'
  BY <1>0, <1>2, LeaveTasksFollow
<1>6. p.state # "new" /\ p.state # "open"
  BY <1>2
<1>7. scope[s].push <= now /\ scope[s].push \in Nat /\ scope[s].emitted \in BOOLEAN
  BY <1>0, ScopeTypes DEF Trace, ScopesFollow, ScopeFollows
<1>8. ASSUME now' = now \/ now' = now + 1, scope[s].emitted => now' = now + 1
      PROVE  Moves(s, p)
  <2>1. now' \in Nat /\ now <= now' /\ p.push <= now' /\ p.pop <= now'
    BY <1>0, <1>2, <1>7, <1>8
  <2>2. p.emitted => p.thread \in Threads /\ now < p.pop
    BY <1>0, <1>1, <1>2, <1>4
  <2> QED BY <1>2, <1>4, <1>6, <2>1, <2>2 DEF Moves
<1>9. CASE scope[s].emitted /\ popped
  <2>1. now' = now + 1 /\ ranges[h] # <<>> /\ PopLast(h)
    BY <1>1, <1>9 DEF FinishRange, Pop
  <2>2. Moves(s, p)
    BY <1>8, <2>1
  <2>3. /\ ScopesFollow' /\ RangesFollow' /\ MarkersFollow' /\ NestedFollow'
        /\ MarkersNest' /\ KernelsFollow' /\ ranges' \in [Threads -> Seq(ThreadRange)]
        /\ markers' \subseteq ThreadMarker
    BY <1>0, <1>2, <1>4, <1>6, <1>9, <2>1, <2>2, PopTrace
  <2> QED BY <1>0, <1>3, <1>4, <1>5, <2>1, <2>3 DEF Trace, TraceTypes, Types
<1>10. CASE ~(scope[s].emitted /\ popped)
  <2>1. UNCHANGED <<ranges, markers>>
    BY <1>10 DEF FinishRange, Pop
  <2>2. /\ now' = now \/ now' = now + 1
        /\ scope[s].emitted => now' = now + 1
    BY DEF FinishRange, Pop
  <2>3. Moves(s, p) /\ now' \in Nat
    BY <1>0, <1>8, <2>2
  <2>4. p.emitted => p.popError
    BY <1>2, <1>10
  <2>5. /\ ScopesFollow' /\ RangesFollow' /\ MarkersFollow' /\ NestedFollow'
        /\ MarkersNest' /\ KernelsFollow'
    BY <1>0, <2>1, <2>3, <2>4, QuietTrace
  <2> QED BY <1>0, <1>3, <1>4, <1>5, <2>1, <2>3, <2>5 DEF Trace, TraceTypes, Types
<1> QED BY <1>9, <1>10

LEMMA EnterFailsTrace ==
  ASSUME Inv, NEW t \in Tasks, NEW s \in Scopes, NEW emits \in BOOLEAN, NEW popped \in BOOLEAN,
         EnterFails(t, s, emits, popped)
  PROVE  Trace' /\ TraceTypes' /\ scope[s].state = "new" /\ \E p : Opens(s, p, "failed")
<1> DEFINE pop == IF emits THEN now + 2 ELSE 0
           error == ~popped
<1>0. /\ Types /\ Trace /\ Nests /\ now \in Nat /\ TasksFollow
  BY InvParts
<1>1. /\ Free(t) /\ IsNext(s) /\ UNCHANGED <<thread, base, nesting, depth, kernels>>
      /\ scope' = [scope EXCEPT ![s] = [Entered(t, "failed", emits) EXCEPT !.pop = pop,
                                                                          !.popError = error]]
  BY DEF EnterFails, task
<1>2. PICK h \in Threads : h = thread[t]
  BY <1>0, <1>1, FreeThread
<1>3. pop \in Nat /\ error \in BOOLEAN
  BY <1>0
<1> HIDE DEF pop, error
<1>4. PICK p : p = Failed(t, emits, pop, error)
  OBVIOUS
<1>5. /\ scope' = [scope EXCEPT ![s] = p] /\ p \in ScopeObject /\ p.state = "failed"
      /\ p.thread = h /\ p.emitted = emits
      /\ p.push = (IF emits THEN now + 1 ELSE 0) /\ p.pop = pop /\ p.popError = error
      /\ p.recorded = FALSE /\ p.lock = NoCaller
  <2>1. /\ p \in ScopeObject /\ p.state = "failed" /\ p.thread = thread[t]
        /\ p.emitted = emits /\ p.push = (IF emits THEN now + 1 ELSE 0)
        /\ p.pop = pop /\ p.popError = error /\ p.recorded = FALSE /\ p.lock = NoCaller
    <3>1. Types /\ Free(t)
      BY <1>0, <1>1
    <3>2. IsFailed(Failed(t, emits, pop, error), t, emits, pop, error)
      BY <1>3, <3>1, FailedIs
    <3>3. IsFailed(p, t, emits, pop, error)
      BY <1>4, <3>2
    <3> QED BY <3>3 DEF IsFailed
  <2>2. scope' = [scope EXCEPT ![s] = p] /\ p.thread = h
    BY <1>1, <1>2, <1>4, <2>1 DEF Failed
  <2> QED BY <2>1, <2>2
<1>6. ScopeBecomes(s, p)
  BY <1>5 DEF ScopeBecomes
<1>7. Opens(s, p, "failed")
  BY <1>5, <1>6 DEF Opens
<1>8. scope[s].state = "new" /\ ~scope[s].emitted
  BY <1>0, <1>1 DEF IsNext, TasksFollow
<1>9. scope'[s] = p /\ \A r \in Scopes \ {s} : scope'[r] = scope[r]
  BY <1>0, <1>6, ScopeFrame
<1>10. TasksFollow'
  <2>1. \A u \in Tasks : \A i \in 1 .. Len(nesting[u]) :
          scope'[nesting[u][i]] = scope[nesting[u][i]]
    <3> SUFFICES ASSUME NEW u \in Tasks, NEW i \in 1 .. Len(nesting[u])
                 PROVE  scope'[nesting[u][i]] = scope[nesting[u][i]]
      OBVIOUS
    <3>1. nesting[u][i] \in Scopes /\ scope[nesting[u][i]].state = "open"
      BY <1>0, Nested
    <3>2. nesting[u][i] # s
      BY <1>8, <3>1
    <3> QED BY <1>9, <3>1, <3>2
  <2>2. \A u \in Tasks : TaskFollows(u)'
    <3> SUFFICES ASSUME NEW u \in Tasks PROVE TaskFollows(u)'
      OBVIOUS
    <3>1. TaskFollows(u)
      BY <1>0 DEF TasksFollow
    <3>2. /\ nesting'[u] = nesting[u] /\ depth'[u] = depth[u]
          /\ base'[u] = base[u] /\ thread'[u] = thread[u]
      BY <1>1
    <3> QED BY <2>1, <3>1, <3>2, TaskKept
  <2>3. \A r, q \in Scopes : r < q /\ scope'[r].state = "new" => scope'[q].state = "new"
    BY <1>0, <1>1, <1>5, <1>9 DEF TasksFollow, IsNext
  <2>4. \A q \in Scopes : scope'[q].state = "new" => ~scope'[q].emitted
    BY <1>0, <1>5, <1>9 DEF TasksFollow
  <2> QED BY <1>0, <1>1, <2>2, <2>3, <2>4 DEF TasksFollow
<1>11. CASE emits
  <2>1. /\ OpenAndFinishRange(h, s, popped) /\ now' = now + 2
        /\ p.push = now + 1 /\ p.pop = now + 2 /\ now' \in Nat /\ now + 1 <= now'
    BY <1>0, <1>2, <1>5, <1>11 DEF EnterFails, OpenAndFinishRange, pop
  <2>2. Moves(s, p)
    BY <1>0, <1>5, <1>6, <1>8, <2>1 DEF Moves
  <2>3. CASE popped
    <3>1. OpenAndFinishRange(h, s, TRUE)
      BY <2>1, <2>3 DEF OpenAndFinishRange
    <3>2. /\ ScopesFollow' /\ RangesFollow' /\ MarkersFollow' /\ NestedFollow'
          /\ MarkersNest' /\ KernelsFollow' /\ UNCHANGED ranges /\ markers' \subseteq ThreadMarker
      BY <1>0, <1>1, <1>5, <1>8, <1>11, <2>1, <2>2, <3>1, FailedTrace
    <3> QED BY <1>0, <1>1, <1>7, <1>8, <1>10, <2>1, <3>2 DEF Trace, TraceTypes, Types
  <2>4. CASE ~popped
    <3>1. ranges' = Pushed(h, s, now + 1) /\ UNCHANGED markers /\ p.popError
      BY <1>5, <2>1, <2>4 DEF OpenAndFinishRange, error
    <3>2. /\ ScopesFollow' /\ RangesFollow' /\ MarkersFollow' /\ NestedFollow'
          /\ MarkersNest' /\ KernelsFollow' /\ ranges' \in [Threads -> Seq(ThreadRange)]
      BY <1>0, <1>1, <1>5, <1>8, <1>11, <2>1, <2>2, <3>1, PushTrace
    <3> QED BY <1>0, <1>1, <1>7, <1>8, <1>10, <2>1, <3>1, <3>2 DEF Trace, TraceTypes, Types
  <2> QED BY <2>3, <2>4
<1>12. CASE ~emits
  <2>1. UNCHANGED <<now, ranges, markers>> /\ p.push = 0 /\ p.pop = 0
    BY <1>5, <1>12 DEF EnterFails, pop
  <2>2. Moves(s, p)
    BY <1>0, <1>5, <1>6, <1>8, <1>12, <2>1 DEF Moves
  <2>3. /\ ScopesFollow' /\ RangesFollow' /\ MarkersFollow' /\ NestedFollow'
        /\ MarkersNest' /\ KernelsFollow'
    BY <1>0, <1>1, <1>5, <1>12, <2>1, <2>2, QuietTrace
  <2> QED BY <1>0, <1>1, <1>7, <1>8, <1>10, <2>1, <2>3 DEF Trace, TraceTypes, Types
<1> QED BY <1>11, <1>12

\* A new task begins inside no scope, at the depth of its creator.
LEMMA SpawnTrace ==
  ASSUME Inv, NEW t \in Tasks, NEW u \in Tasks, NEW h \in Threads, Spawn(t, u, h)
  PROVE  Trace' /\ TraceTypes'
<1>0. /\ Types /\ Trace /\ TasksFollow /\ TaskFollows(t) /\ TaskFollows(u)
      /\ Len(nesting[t]) \in Nat
  BY InvParts, Nested
<1>1. /\ thread[u] = NoCaller /\ thread[t] # NoCaller
      /\ UNCHANGED <<nesting, scope, ranges, markers, kernels, now>>
      /\ thread' = [thread EXCEPT ![u] = h] /\ depth' = [depth EXCEPT ![u] = depth[t]]
      /\ base' = [base EXCEPT ![u] = base[t] + Len(nesting[t])]
  BY DEF Spawn, Free, trace
<1>2. base[t] \in Nat /\ depth[t] \in Nat /\ base[t] + Len(nesting[t]) \in Nat
  BY <1>0 DEF Types
<1>3. /\ thread' \in [Tasks -> Threads \cup {NoCaller}] /\ base' \in [Tasks -> Nat]
      /\ depth' \in [Tasks -> Nat]
  BY <1>0, <1>1, <1>2 DEF Types
<1>4. TraceTypes'
  BY <1>0, <1>1, <1>3 DEF TraceTypes, Types
<1>5. /\ thread'[u] = h /\ base'[u] = base[t] + Len(nesting[t]) /\ depth'[u] = depth[t]
      /\ \A v \in Tasks \ {u} : thread'[v] = thread[v] /\ base'[v] = base[v] /\ depth'[v] = depth[v]
  BY <1>0, <1>1 DEF Types
<1>6. TaskFollows(u)'
  <2>1. nesting'[u] = <<>> /\ Len(nesting'[u]) = 0
    BY <1>0, <1>1, EmptySeq DEF TaskFollows
  <2>2. depth'[u] = base'[u] + 0
    BY <1>0, <1>2, <1>5 DEF TaskFollows
  <2>3. 1 .. Len(nesting'[u]) = {}
    BY <2>1
  <2> QED BY <2>1, <2>2, <2>3 DEF TaskFollows
<1>7. ASSUME NEW v \in Tasks \ {u} PROVE TaskFollows(v)'
  <2>1. TaskFollows(v) /\ thread'[v] = thread[v] /\ base'[v] = base[v] /\ depth'[v] = depth[v]
    BY <1>0, <1>5 DEF TasksFollow
  <2> QED BY <1>1, <2>1 DEF TaskFollows
<1>8. TasksFollow'
  BY <1>0, <1>1, <1>6, <1>7 DEF TasksFollow
<1>9. ScopesFollow' /\ RangesFollow' /\ MarkersFollow' /\ MarkersNest'
  BY <1>0, <1>1 DEF Trace, ScopesFollow, ScopeFollows, RangesFollow, MarkersFollow, MarkersNest
<1>10. NestedFollow'
  BY <1>0, <1>1 DEF Trace, NestedFollow, NestedFollows, IsNested, Crossed, InStack, MarkerOf
<1>11. KernelsFollow'
  BY <1>0, <1>1 DEF Trace, KernelsFollow, KernelFollows, OpenAt, Around, IsLatest
<1> QED BY <1>4, <1>8, <1>9, <1>10, <1>11 DEF Trace

-----------------------------------------------------------------------------
(* Steps of the tasks: what they leave of the completions.                 *)

LEMMA TypesFrom ==
  ASSUME TraceTypes', scope' \in [Scopes -> ScopeObject], lines' \in [Scopes -> Nat],
         kernels' \subseteq Kernel, events' \in [HipScopes -> EventState],
         call' \in [Callers -> Call], future' \in [Observers -> FutureState],
         failures' \in 0 .. MaxFailures
  PROVE  Types'
BY DEF Types, TraceTypes

LEMMA FailsCounts ==
  ASSUME Types, NEW failed \in BOOLEAN, FailsIf(failed)
  PROVE  failures' \in 0 .. MaxFailures
BY Bounds DEF Types, Fails, FailsIf

\* The calls and the futures of a caller.
LEMMA CallTypes ==
  /\ Idle \in Call /\ Idle.at = "idle" /\ Idle.starts = NoCaller
  /\ \A s \in HipScopes :
       \A what \in {"idle", "wait", "sync", "write", "poll", "observe", "start"} :
         At(what, s) \in Call /\ At(what, s).at = what /\ At(what, s).of = s
         /\ At(what, s).starts = NoCaller
<1>1. 0 \in 0 .. NumScopes /\ \A s \in HipScopes : s \in 0 .. NumScopes
  BY Bounds
<1> QED BY <1>1 DEF Idle, At, Call

\* A scope that was never exited has no line and nobody completes it.
LEMMA NoneCompletes ==
  ASSUME Inv, NEW s \in Scopes, scope[s].state # "exited"
  PROVE  /\ lines[s] = 0 /\ (s \in HipScopes => ~scope[s].recorded)
         /\ \A c \in Callers : call[c].at # "idle" => call[c].of # s
<1>1. lines[s] \in Nat /\ ~(lines[s] > 0)
  BY DEF Inv, Types, CompletionFollows
<1>2. s \in HipScopes => ~scope[s].recorded
  BY <1>1 DEF Inv, CompletionIsUnique
<1> QED BY <1>1, <1>2 DEF Inv, CompletionFollows

LEMMA TaskCompletes ==
  ASSUME Inv, NEW s \in Scopes, scope[s].state # "exited", NEW p, Opens(s, p, p.state),
         \A r \in Scopes \ {s} : lines'[r] = lines[r],
         lines'[s] > 0 => p.state = "exited", s \in HipScopes => lines'[s] = 0,
         \A r \in HipScopes \ {s} : events'[r] = events[r],
         s \in HipScopes /\ events'[s] = "closed" => p.state = "failed",
         \A c \in Callers : \/ call'[c] = call[c]
                            \/ /\ call'[c] = At("wait", s)
                               /\ s \in HipScopes /\ p.state = "exited"
  PROVE  CompletionFollows' /\ CompletionIsUnique'
<1>0. Types /\ CompletionFollows /\ CompletionIsUnique
  BY DEF Inv
<1>1. scope'[s] = p /\ \A r \in Scopes \ {s} : scope'[r] = scope[r]
  BY <1>0, ScopeFrame DEF Opens
<1>2. /\ lines[s] = 0 /\ (s \in HipScopes => ~scope[s].recorded)
      /\ \A c \in Callers : call[c].at # "idle" => call[c].of # s
  BY NoneCompletes
<1>3. \A r \in Scopes : lines'[r] > 0 => scope'[r].state = "exited"
  BY <1>0, <1>1 DEF CompletionFollows
<1>4. \A c \in Callers : call'[c].at # "idle" =>
        call'[c].of \in HipScopes /\ scope'[call'[c].of].state = "exited"
  <2> SUFFICES ASSUME NEW c \in Callers, call'[c].at # "idle"
               PROVE  call'[c].of \in HipScopes /\ scope'[call'[c].of].state = "exited"
    OBVIOUS
  <2>1. CASE call'[c] = call[c]
    BY <1>0, <1>1, <1>2, <2>1, Bounds DEF CompletionFollows
  <2>2. CASE call'[c] # call[c]
    BY <1>1, <2>2, CallTypes
  <2> QED BY <2>1, <2>2
<1>5. \A c \in Callers : call'[c].at \in {"sync", "write", "poll"} =>
        call'[c] = call[c] /\ call[c].of # s /\ call[c].of \in Scopes
  BY <1>0, <1>2, Bounds, CallTypes DEF CompletionFollows
<1>6. \A c \in Callers : call'[c].at \in {"sync", "write"} =>
        scope'[call'[c].of].lock = c /\ ~scope'[call'[c].of].recorded
  BY <1>0, <1>1, <1>5 DEF CompletionFollows
<1>6a. \A c \in Callers : call'[c].at # "start" => call'[c].starts = NoCaller
  BY <1>0, CallTypes DEF CompletionFollows
<1>7. CompletionFollows'
  BY <1>3, <1>4, <1>6, <1>6a DEF CompletionFollows
<1>8. ASSUME NEW r \in HipScopes
      PROVE  /\ lines'[r] = IF scope'[r].recorded THEN 1 ELSE 0
             /\ events'[r] = "closed" => scope'[r].recorded \/ scope'[r].state = "failed"
             /\ events'[r] = "closed" =>
                  \A c \in Callers : call'[c].of = r => call'[c].at \notin {"sync", "write", "poll"}
  <2>1. CASE r = s
    BY <1>1, <1>2, <1>5, <2>1 DEF Opens
  <2>2. CASE r # s
    <3>1. scope'[r] = scope[r] /\ lines'[r] = lines[r] /\ events'[r] = events[r]
      BY <1>1, <2>2, Bounds
    <3> QED BY <1>0, <1>5, <3>1 DEF CompletionIsUnique
  <2> QED BY <2>1, <2>2
<1> QED BY <1>7, <1>8 DEF CompletionIsUnique

LEMMA EnterInv ==
  ASSUME Inv, NEW t \in Tasks, NEW s \in Scopes, NEW emits \in BOOLEAN, Enter(t, s, emits)
  PROVE  Inv'
<1>0. Types
  BY DEF Inv
<1>1. PICK p : Opens(s, p, "open")
  BY EnterTrace
<1>2. /\ scope[s].state = "new" /\ UNCHANGED <<lines, kernels, call, future, failures>>
      /\ events' = IF s \in HipScopes THEN [events EXCEPT ![s] = "open"] ELSE events
  BY DEF Enter, IsNext
<1>3. Trace' /\ TraceTypes'
  BY EnterTrace
<1>4. events' \in [HipScopes -> EventState]
  BY <1>0, <1>2 DEF Types, EventState
<1>5. Types'
  BY <1>0, <1>1, <1>2, <1>3, <1>4, TypesFrom, ScopeFrame DEF Types, Opens
<1>6. lines[s] = 0
  BY <1>2, NoneCompletes
<1>7. /\ \A r \in HipScopes \ {s} : events'[r] = events[r]
      /\ s \in HipScopes => events'[s] = "open"
  BY <1>0, <1>2 DEF Types
<1>8. CompletionFollows' /\ CompletionIsUnique'
  BY <1>1, <1>2, <1>6, <1>7, TaskCompletes DEF Opens
<1> QED BY <1>3, <1>5, <1>8 DEF Inv, Trace

LEMMA EnterFailsInv ==
  ASSUME Inv, NEW t \in Tasks, NEW s \in Scopes, NEW emits \in BOOLEAN, NEW popped \in BOOLEAN,
         EnterFails(t, s, emits, popped)
  PROVE  Inv'
<1>0. Types
  BY DEF Inv
<1>1. PICK p : Opens(s, p, "failed")
  BY EnterFailsTrace
<1>2. /\ s \in HipScopes /\ FailsIf(TRUE) /\ UNCHANGED <<lines, kernels, call, future>>
      /\ events' = [events EXCEPT ![s] = "closed"]
  BY DEF EnterFails, FailsIf
<1>3. Trace' /\ TraceTypes' /\ scope[s].state = "new"
  BY EnterFailsTrace
<1>4. events' \in [HipScopes -> EventState]
  BY <1>0, <1>2 DEF Types, EventState
<1>5. Types'
  BY <1>0, <1>1, <1>2, <1>3, <1>4, TypesFrom, ScopeFrame, FailsCounts DEF Types, Opens
<1>6. lines[s] = 0
  BY <1>3, NoneCompletes
<1>7. \A r \in HipScopes \ {s} : events'[r] = events[r]
  BY <1>0, <1>2 DEF Types
<1>8. CompletionFollows' /\ CompletionIsUnique'
  BY <1>1, <1>2, <1>3, <1>6, <1>7, TaskCompletes DEF Opens
<1> QED BY <1>3, <1>5, <1>8 DEF Inv, Trace

LEMMA ExitInv ==
  ASSUME Inv, NEW t \in Tasks, NEW s \in Scopes, NEW popped \in BOOLEAN, NEW written \in BOOLEAN,
         Exit(t, s, popped, written)
  PROVE  Inv'
<1> DEFINE failed == ~popped \/ ~written
<1>0. Types
  BY DEF Inv
<1>1. /\ Free(t) /\ IsInnermost(t, s) /\ s \notin HipScopes /\ Leaves(t)
      /\ FinishRange(t, s, popped) /\ scope' = Exited(s, "exited", popped)
      /\ UNCHANGED <<kernels, events, call, future>> /\ FailsIf(failed)
      /\ lines' = IF written THEN [lines EXCEPT ![s] = @ + 1] ELSE lines
  BY DEF Exit, completion
<1>2. Trace' /\ TraceTypes' /\ scope[s].state = "open" /\ \E p : Opens(s, p, "exited")
  BY <1>1, LeaveTrace
<1>3. PICK p : Opens(s, p, "exited")
  BY <1>2
<1>4. lines' \in [Scopes -> Nat] /\ \A r \in Scopes \ {s} : lines'[r] = lines[r]
  BY <1>0, <1>1 DEF Types
<1>5. failures' \in 0 .. MaxFailures
  <2>1. failed \in BOOLEAN
    OBVIOUS
  <2> HIDE DEF failed
  <2> QED BY <1>0, <1>1, <2>1, FailsCounts
<1>6. Types'
  BY <1>0, <1>1, <1>2, <1>3, <1>4, <1>5, TypesFrom, ScopeFrame DEF Types, Opens
<1>7. CompletionFollows' /\ CompletionIsUnique'
  BY <1>1, <1>2, <1>3, <1>4, TaskCompletes DEF Opens
<1> QED BY <1>2, <1>6, <1>7 DEF Inv, Trace

LEMMA HipExitInv ==
  ASSUME Inv, NEW t \in Tasks, NEW s \in Scopes, NEW popped \in BOOLEAN, NEW exception \in BOOLEAN,
         HipExit(t, s, popped, exception)
  PROVE  Inv'
<1> DEFINE error == ~popped
<1>0. Types
  BY DEF Inv
<1>1. /\ Free(t) /\ IsInnermost(t, s) /\ s \in HipScopes /\ Leaves(t)
      /\ FinishRange(t, s, popped) /\ FailsIf(error) /\ scope' = Exited(s, "exited", popped)
      /\ UNCHANGED <<lines, kernels, future>>
      /\ events' = [events EXCEPT ![s] = "recorded"]
  BY DEF HipExit
<1>2. /\ Trace' /\ TraceTypes' /\ scope[s].state = "open"
      /\ \E p : Opens(s, p, "exited")
  BY <1>1, LeaveTrace
<1>3. PICK p : Opens(s, p, "exited")
  BY <1>2
<1>4. events' \in [HipScopes -> EventState]
      /\ \A r \in HipScopes \ {s} : events'[r] = events[r]
      /\ events'[s] = "recorded"
  BY <1>0, <1>1 DEF Types, EventState
<1>5. /\ call' \in [Callers -> Call]
      /\ \A c \in Callers : call'[c] = call[c] \/ call'[c] = At("wait", s)
  <2>1. call' = IF exception THEN [call EXCEPT ![thread[t]] = At("wait", s)] ELSE call
    BY DEF HipExit
  <2>2. At("wait", s) \in Call
    BY <1>1, CallTypes
  <2> QED BY <1>0, <2>1, <2>2 DEF Types
<1>5a. failures' \in 0 .. MaxFailures
  <2>1. error \in BOOLEAN
    OBVIOUS
  <2> HIDE DEF error
  <2> QED BY <1>0, <1>1, <2>1, FailsCounts
<1>6. Types'
  BY <1>0, <1>1, <1>2, <1>3, <1>4, <1>5, <1>5a, TypesFrom, ScopeFrame DEF Types, Opens
<1>7. lines[s] = 0
  BY <1>2, NoneCompletes
<1>8. CompletionFollows' /\ CompletionIsUnique'
  BY <1>1, <1>2, <1>3, <1>4, <1>5, <1>7, TaskCompletes DEF Opens
<1> QED BY <1>2, <1>6, <1>8 DEF Inv, Trace

LEMMA HipExitFailsInv ==
  ASSUME Inv, NEW t \in Tasks, NEW s \in Scopes, NEW popped \in BOOLEAN,
         HipExitFails(t, s, popped)
  PROVE  Inv'
<1>0. Types
  BY DEF Inv
<1>1. /\ Free(t) /\ IsInnermost(t, s) /\ s \in HipScopes /\ Leaves(t)
      /\ FinishRange(t, s, popped) /\ scope' = Exited(s, "failed", popped)
      /\ UNCHANGED <<lines, kernels, call, future>>
      /\ events' = [events EXCEPT ![s] = "closed"] /\ FailsIf(TRUE)
  BY DEF HipExitFails, FailsIf
<1>2. /\ Trace' /\ TraceTypes' /\ scope[s].state = "open"
      /\ \E p : Opens(s, p, "failed")
  BY <1>1, LeaveTrace
<1>3. PICK p : Opens(s, p, "failed")
  BY <1>2
<1>4. events' \in [HipScopes -> EventState]
      /\ \A r \in HipScopes \ {s} : events'[r] = events[r]
  BY <1>0, <1>1 DEF Types, EventState
<1>5. Types'
  BY <1>0, <1>1, <1>2, <1>3, <1>4, TypesFrom, ScopeFrame, FailsCounts DEF Types, Opens
<1>6. lines[s] = 0
  BY <1>2, NoneCompletes
<1>7. CompletionFollows' /\ CompletionIsUnique'
  BY <1>1, <1>2, <1>3, <1>4, <1>6, TaskCompletes DEF Opens
<1> QED BY <1>2, <1>5, <1>7 DEF Inv, Trace

LEMMA SpawnInv ==
  ASSUME Inv, NEW t \in Tasks, NEW u \in Tasks, NEW h \in Threads, Spawn(t, u, h)
  PROVE  Inv'
<1>0. Types /\ CompletionFollows /\ CompletionIsUnique
  BY DEF Inv
<1>1. Trace' /\ TraceTypes'
  BY SpawnTrace
<1>2. UNCHANGED <<scope, lines, kernels, events, call, future, failures>>
  BY DEF Spawn, trace, completion
<1>3. Types'
  BY <1>0, <1>1, <1>2, TypesFrom DEF Types
<1>4. CompletionFollows' /\ CompletionIsUnique'
  BY <1>0, <1>2 DEF CompletionFollows, CompletionIsUnique
<1> QED BY <1>1, <1>3, <1>4 DEF Inv, Trace

LEMMA LaunchInv ==
  ASSUME Inv, NEW t \in Tasks, Launch(t)
  PROVE  Inv'
<1>0. Types /\ Trace /\ CompletionFollows /\ CompletionIsUnique /\ Nests
  BY InvParts DEF Inv
<1>1. MarkersNest' /\ KernelsFollow' /\ now' = now + 1 /\ kernels' \subseteq Kernel
  BY <1>0, LaunchNests
<1>2. UNCHANGED <<thread, base, nesting, depth, scope, lines, ranges, markers, events, call,
                  future, failures>>
  BY DEF Launch, task, completion
<1>3. now' \in Nat /\ \A n \in Nat : n <= now => n <= now'
  BY <1>0, <1>1 DEF Types
<1>4. Types'
  BY <1>0, <1>1, <1>2, <1>3 DEF Types
<1>5. TasksFollow' /\ MarkersFollow'
  BY <1>0, <1>2 DEF Trace, TasksFollow, TaskFollows, MarkersFollow
<1>6. ScopesFollow'
  <2> SUFFICES ASSUME NEW s \in Scopes PROVE ScopeFollows(s)'
    BY DEF ScopesFollow
  <2>1. ScopeFollows(s) /\ scope[s].push \in Nat /\ scope[s].pop \in Nat
    BY <1>0, ScopeTypes DEF Trace, ScopesFollow
  <2> QED BY <1>2, <1>3, <2>1 DEF ScopeFollows
<1>7. RangesFollow'
  <2>1. \A h \in Threads : \A i \in 1 .. Len(ranges[h]) :
          ranges[h][i].start \in Nat /\ ranges[h][i].start <= now
    BY <1>0, RangeNames DEF Trace
  <2> QED BY <1>0, <1>2, <1>3, <2>1 DEF Trace, RangesFollow
<1>8. NestedFollow'
  BY <1>0, <1>2 DEF Trace, NestedFollow, NestedFollows, IsNested, Crossed, InStack, MarkerOf
<1>9. CompletionFollows' /\ CompletionIsUnique'
  BY <1>0, <1>2 DEF CompletionFollows, CompletionIsUnique
<1> QED BY <1>1, <1>4, <1>5, <1>6, <1>7, <1>8, <1>9 DEF Inv

-----------------------------------------------------------------------------
(* Steps of the completions: the tasks and the trace stay.                 *)

\* What a completion leaves of a scope.
Keeps(s, q) ==
  /\ ScopeBecomes(s, q)
  /\ q.state = scope[s].state /\ q.depth = scope[s].depth /\ q.emitted = scope[s].emitted
  /\ q.push = scope[s].push /\ q.pop = scope[s].pop
  /\ q.thread = scope[s].thread /\ q.popError = scope[s].popError

LEMMA CompletionTrace ==
  ASSUME Inv, CompletionOnly, NEW s \in Scopes, NEW q, Keeps(s, q)
  PROVE  Trace' /\ TraceTypes'
<1>0. Types /\ Trace /\ TasksFollow
  BY InvParts
<1>1. UNCHANGED <<thread, base, nesting, depth, ranges, markers, kernels, now>>
  BY DEF CompletionOnly, task, trace
<1>2. \A r \in Scopes :
        /\ scope'[r].state = scope[r].state /\ scope'[r].depth = scope[r].depth
        /\ scope'[r].emitted = scope[r].emitted /\ scope'[r].thread = scope[r].thread
        /\ scope'[r].push = scope[r].push /\ scope'[r].pop = scope[r].pop
        /\ scope'[r].popError = scope[r].popError
  BY <1>0, ScopeFrame DEF Keeps
<1>3. \A t \in Tasks : /\ Len(nesting[t]) \in Nat /\ TaskFollows(t)
                       /\ \A i \in 1 .. Len(nesting[t]) : nesting[t][i] \in Scopes
  BY <1>0, Nested
<1>4. TasksFollow'
  <2>1. \A t \in Tasks : TaskFollows(t)'
    BY <1>1, <1>2, <1>3 DEF TaskFollows
  <2>2. \A t, u \in Tasks : t # u =>
          \A i \in 1 .. Len(nesting'[t]), j \in 1 .. Len(nesting'[u]) :
            nesting'[t][i] # nesting'[u][j]
    BY <1>0, <1>1 DEF TasksFollow
  <2>3. /\ \A r, u \in Scopes : r < u /\ scope[r].state = "new" => scope[u].state = "new"
        /\ \A u \in Scopes : scope[u].state = "new" => ~scope[u].emitted
    BY <1>0 DEF TasksFollow
  <2>4. \A r, u \in Scopes : r < u /\ scope'[r].state = "new" => scope'[u].state = "new"
    BY <1>2, <2>3
  <2>5. \A u \in Scopes : scope'[u].state = "new" => ~scope'[u].emitted
    BY <1>2, <2>3
  <2> QED BY <2>1, <2>2, <2>4, <2>5 DEF TasksFollow
<1>5. ScopesFollow'
  BY <1>0, <1>1, <1>2 DEF Trace, ScopesFollow, ScopeFollows
<1>6. \A h \in Threads : \A i \in 1 .. Len(ranges[h]) : ranges[h][i].name \in Scopes
  BY <1>0, Stacked
<1>7. RangesFollow'
  BY <1>0, <1>1, <1>2, <1>6 DEF Trace, RangesFollow
<1>8. \A m \in markers : m.name \in Scopes
  BY <1>0, MarkerTypes
<1>9. MarkersFollow'
  BY <1>0, <1>1, <1>2, <1>8 DEF Trace, MarkersFollow
<1>10. ASSUME NEW h \in Threads PROVE NestedFollows(h)'
  <2>1. NestedFollows(h)
    BY <1>0 DEF Trace, NestedFollow
  <2>2. \A r, u \in Scopes : Crossed(r, u)' <=> Crossed(r, u)
    BY <1>2 DEF Crossed
  <2>3. IsNested(h)' <=> IsNested(h)
    BY <1>2, <2>2 DEF IsNested
  <2>4. \A r \in Scopes : MarkerOf(r, h)' = MarkerOf(r, h) /\ (InStack(r, h)' <=> InStack(r, h))
    BY <1>1, <1>2 DEF MarkerOf, InStack
  <2> QED BY <1>1, <1>2, <1>6, <2>1, <2>3, <2>4 DEF NestedFollows
<1>11. MarkersNest' /\ KernelsFollow'
  BY <1>0, <1>1 DEF Trace, MarkersNest, KernelsFollow, KernelFollows, OpenAt, Around, IsLatest
<1>12. TraceTypes'
  BY <1>0, <1>1 DEF TraceTypes, Types
<1> QED BY <1>4, <1>5, <1>7, <1>9, <1>10, <1>11, <1>12 DEF Trace, NestedFollow

\* Some callers move, between calls on one exited scope whose events are kept.
LEMMA CallsMove ==
  ASSUME Inv, CompletionOnly, NEW s \in HipScopes, scope[s].state = "exited",
         NEW q, Keeps(s, q), UNCHANGED events,
         lines' \in [Scopes -> Nat], \A r \in Scopes \ {s} : lines'[r] = lines[r],
         lines'[s] = IF q.recorded THEN 1 ELSE 0, scope[s].recorded => q.recorded,
         call' \in [Callers -> Call],
         \A c \in Callers :
           \/ /\ call'[c] = call[c]
              /\ call[c].at \in {"sync", "write"} /\ call[c].of = s => q.lock = c /\ ~q.recorded
           \/ /\ call'[c].at # "idle" => call'[c].of = s
              /\ call'[c].at \in {"sync", "write"} => q.lock = c /\ ~q.recorded
              /\ call'[c].at \in {"sync", "write", "poll"} => events[s] # "closed"
              /\ call'[c].at # "start" => call'[c].starts = NoCaller,
         future' \in [Observers -> FutureState],
         failures' \in 0 .. MaxFailures
  PROVE  Inv'
<1>0. Types /\ CompletionFollows /\ CompletionIsUnique /\ s \in Scopes
  BY Bounds DEF Inv
<1>1. Trace' /\ TraceTypes'
  BY <1>0, CompletionTrace
<1>2. /\ scope' \in [Scopes -> ScopeObject] /\ scope'[s] = q
      /\ \A r \in Scopes \ {s} : scope'[r] = scope[r]
  BY <1>0, ScopeFrame DEF Keeps
<1>3. UNCHANGED kernels
  BY DEF CompletionOnly, trace
<1>4. Types'
  BY <1>0, <1>1, <1>2, <1>3, TypesFrom DEF Types
<1>5. q.state = "exited"
  BY DEF Keeps
<1>6. \A r \in Scopes : lines'[r] > 0 => scope'[r].state = "exited"
  BY <1>0, <1>2, <1>5 DEF CompletionFollows
<1>7. \A c \in Callers : call'[c].at # "idle" =>
        call'[c].of \in HipScopes /\ scope'[call'[c].of].state = "exited"
  <2> SUFFICES ASSUME NEW c \in Callers, call'[c].at # "idle"
               PROVE  call'[c].of \in HipScopes /\ scope'[call'[c].of].state = "exited"
    OBVIOUS
  <2>1. CASE call'[c].of = s
    BY <1>2, <1>5, <2>1
  <2>2. CASE call'[c].of # s
    <3>1. call'[c] = call[c]
      BY <2>2
    <3> QED BY <1>0, <1>2, <2>2, <3>1, Bounds DEF CompletionFollows
  <2> QED BY <2>1, <2>2
<1>8. \A c \in Callers : call'[c].at \in {"sync", "write"} =>
        scope'[call'[c].of].lock = c /\ ~scope'[call'[c].of].recorded
  <2> SUFFICES ASSUME NEW c \in Callers, call'[c].at \in {"sync", "write"}
               PROVE  scope'[call'[c].of].lock = c /\ ~scope'[call'[c].of].recorded
    OBVIOUS
  <2>1. CASE call'[c].of = s
    BY <1>2, <2>1
  <2>2. CASE call'[c].of # s
    <3>1. call'[c] = call[c]
      BY <2>2
    <3> QED BY <1>0, <1>2, <2>2, <3>1, Bounds DEF CompletionFollows
  <2> QED BY <2>1, <2>2
<1>8a. \A c \in Callers : call'[c].at # "start" => call'[c].starts = NoCaller
  BY <1>0 DEF CompletionFollows
<1>9. CompletionFollows'
  BY <1>6, <1>7, <1>8, <1>8a DEF CompletionFollows
<1>10. ASSUME NEW r \in HipScopes
       PROVE  /\ lines'[r] = IF scope'[r].recorded THEN 1 ELSE 0
              /\ events'[r] = "closed" => scope'[r].recorded \/ scope'[r].state = "failed"
              /\ events'[r] = "closed" =>
                   \A c \in Callers : call'[c].of = r =>
                        call'[c].at \notin {"sync", "write", "poll"}
  <2>1. \A c \in Callers : call'[c].at \in {"sync", "write", "poll"} /\ call'[c].of = r =>
          events[r] # "closed"
    BY <1>0 DEF CompletionIsUnique
  <2>2. CASE r = s
    BY <1>0, <1>2, <2>1, <2>2 DEF CompletionIsUnique
  <2>3. CASE r # s
    <3>1. scope'[r] = scope[r] /\ lines'[r] = lines[r]
      BY <1>2, <2>3, Bounds
    <3> QED BY <1>0, <2>1, <3>1 DEF CompletionIsUnique
  <2> QED BY <2>2, <2>3
<1> QED BY <1>1, <1>4, <1>9, <1>10 DEF Inv, Trace, CompletionIsUnique

LEMMA SameKeeps ==
  ASSUME Types, NEW s \in Scopes, UNCHANGED scope
  PROVE  Keeps(s, scope[s])
<1>1. scope[s] \in ScopeObject /\ scope' = [scope EXCEPT ![s] = scope[s]]
  BY DEF Types
<1> QED BY <1>1 DEF Keeps, ScopeBecomes

\* A call that is not inside the lock begins or ends, and nothing else happens.
LEMMA CallMoves ==
  ASSUME Inv, CompletionOnly, NEW s \in HipScopes, scope[s].state = "exited", NEW c \in Callers,
         NEW v \in Call, v.at \notin {"sync", "write"},
         v.at # "idle" => v.of = s, v.at # "start" => v.starts = NoCaller,
         v.at = "poll" => events[s] # "closed",
         call' = [call EXCEPT ![c] = v], UNCHANGED <<scope, lines, events>>,
         failures' \in 0 .. MaxFailures, future' \in [Observers -> FutureState]
  PROVE  Inv'
<1>0. Types /\ CompletionFollows /\ CompletionIsUnique /\ s \in Scopes
  BY Bounds DEF Inv
<1>1. Keeps(s, scope[s])
  BY <1>0, SameKeeps
<1>2. lines' \in [Scopes -> Nat] /\ lines'[s] = IF scope[s].recorded THEN 1 ELSE 0
  BY <1>0 DEF Types, CompletionIsUnique
<1>3. call' \in [Callers -> Call]
  BY <1>0 DEF Types
<1>4. call'[c] = v /\ \A d \in Callers \ {c} : call'[d] = call[d]
  BY <1>0 DEF Types
<1>5. \A d \in Callers : call[d].at \in {"sync", "write"} /\ call[d].of = s =>
        scope[s].lock = d /\ ~scope[s].recorded
  BY <1>0 DEF CompletionFollows
<1> QED BY <1>1, <1>2, <1>3, <1>4, <1>5, CallsMove

LEMMA Involved ==
  ASSUME Inv, NEW c \in Callers, NEW s \in HipScopes, NEW what, what # "idle", Doing(c, what, s)
  PROVE  /\ scope[s].state = "exited" /\ call[c].at = what /\ call[c].of = s
         /\ what \in {"sync", "write"} => scope[s].lock = c /\ ~scope[s].recorded
         /\ what \in {"sync", "write", "poll"} => events[s] # "closed"
<1>1. call[c].at = what /\ call[c].of = s
  BY DEF Doing, At
<1> QED BY <1>1 DEF Inv, CompletionFollows, CompletionIsUnique

LEMMA Results ==
  ASSUME Types, NEW c, SetResult(c) \/ SetException(c)
  PROVE  future' \in [Observers -> FutureState]
BY DEF Types, FutureState, SetResult, SetException

LEMMA FinishInv ==
  ASSUME Inv, NEW s \in HipScopes, Finish(s)
  PROVE  Inv'
<1>0. Types /\ CompletionFollows /\ CompletionIsUnique /\ s \in Scopes
  BY Bounds DEF Inv
<1>1. /\ events' = [events EXCEPT ![s] = "done"] /\ CompletionOnly
      /\ UNCHANGED <<scope, lines, kernels, call, future, failures>>
  BY DEF Finish, CompletionOnly, trace
<1>2. Trace' /\ TraceTypes'
  BY <1>0, <1>1, SameKeeps, CompletionTrace
<1>3. Types'
  BY <1>0, <1>1, <1>2, TypesFrom DEF Types, EventState
<1>4. \A r \in HipScopes : events'[r] = "closed" => events[r] = "closed"
  BY <1>0, <1>1 DEF Types
<1>5. CompletionFollows' /\ CompletionIsUnique'
  BY <1>0, <1>1, <1>4 DEF CompletionFollows, CompletionIsUnique
<1> QED BY <1>2, <1>3, <1>5 DEF Inv, Trace

LEMMA CloseInv ==
  ASSUME Inv, NEW u \in Callers, NEW s \in HipScopes, Close(u, s)
  PROVE  Inv'
<1>0. Types /\ CompletionFollows /\ CompletionIsUnique /\ s \in Scopes
  BY Bounds DEF Inv
<1>1. /\ events' = [events EXCEPT ![s] = "closed"] /\ CompletionOnly /\ scope[s].recorded
      /\ Unpolled(s)
      /\ UNCHANGED <<scope, lines, kernels, call, future, failures>>
  BY DEF Close, CompletionOnly, trace, HasRecord
<1>2. Trace' /\ TraceTypes'
  BY <1>0, <1>1, SameKeeps, CompletionTrace
<1>3. Types'
  BY <1>0, <1>1, <1>2, TypesFrom DEF Types, EventState
<1>4. \A r \in HipScopes : events'[r] = "closed" => r = s \/ events[r] = "closed"
  BY <1>0, <1>1 DEF Types
<1>5. \A c \in Callers : call[c].of = s => call[c].at \notin {"sync", "write", "poll"}
  <2> SUFFICES ASSUME NEW c \in Callers, call[c].of = s
               PROVE  call[c].at \notin {"sync", "write", "poll"}
    OBVIOUS
  <2>1. call[c] = [at |-> call[c].at, of |-> s, starts |-> call[c].starts]
    BY <1>0 DEF Types, Call
  <2>2. call[c].at # "poll"
    BY <1>0, <1>1, <2>1 DEF Unpolled, Doing, At, CompletionFollows
  <2> QED BY <1>0, <1>1, <2>2 DEF CompletionFollows
<1>6. CompletionFollows' /\ CompletionIsUnique'
  BY <1>0, <1>1, <1>4, <1>5 DEF CompletionFollows, CompletionIsUnique
<1> QED BY <1>2, <1>3, <1>6 DEF Inv, Trace

LEMMA WaitInv ==
  ASSUME Inv, NEW u \in Callers, NEW s \in HipScopes, Wait(u, s) \/ Observe(u, s)
  PROVE  Inv'
<1>1. /\ CompletionOnly /\ UNCHANGED <<scope, lines, events, future, failures>>
      /\ scope[s].state = "exited"
      /\ \/ call' = [call EXCEPT ![u] = At("wait", s)]
         \/ call' = [call EXCEPT ![u] = At("observe", s)]
  BY DEF Wait, Observe, Does, Submitted
<1>2. future' \in [Observers -> FutureState] /\ failures' \in 0 .. MaxFailures
  BY <1>1 DEF Inv, Types
<1> QED BY <1>1, <1>2, CallMoves, CallTypes

LEMMA PollInv ==
  ASSUME Inv, NEW u \in Callers, NEW s \in HipScopes, Poll(u, s)
  PROVE  Inv'
<1>1. /\ CompletionOnly /\ UNCHANGED <<scope, lines, events, future, failures>>
      /\ scope[s].state = "exited" /\ ~scope[s].recorded
      /\ call' = [call EXCEPT ![u] = At("poll", s)]
  BY DEF Poll, Does, Submitted
<1>2. /\ future' \in [Observers -> FutureState] /\ failures' \in 0 .. MaxFailures
      /\ events[s] # "closed"
  BY <1>1 DEF Inv, Types, CompletionIsUnique
<1> QED BY <1>1, <1>2, CallMoves, CallTypes

LEMMA PollEndsInv ==
  ASSUME Inv, NEW u \in Callers, NEW s \in HipScopes, PollEnds(u, s)
  PROVE  Inv'
<1>1. /\ CompletionOnly /\ UNCHANGED <<scope, lines, events, future, failures>>
      /\ Doing(u, "poll", s) /\ call' = [call EXCEPT ![u] = Idle]
  BY DEF PollEnds
<1>2. future' \in [Observers -> FutureState] /\ failures' \in 0 .. MaxFailures
  BY <1>1 DEF Inv, Types
<1>3. scope[s].state = "exited"
  BY <1>1, Involved
<1> QED BY <1>1, <1>2, <1>3, CallMoves, CallTypes

\* The scope keeps the future that somebody stores in it.
LEMMA StoreFutureInv ==
  ASSUME Inv, NEW u \in Callers, NEW o \in Observers, NEW s \in HipScopes, StoreFuture(u, o, s)
  PROVE  Inv'
<1> DEFINE q == [scope[s] EXCEPT !.future = o]
           v == [at |-> "start", of |-> s, starts |-> o]
<1>0. Types /\ CompletionFollows /\ CompletionIsUnique /\ s \in Scopes
  BY Bounds DEF Inv
<1>1. /\ Doing(u, "observe", s) /\ future' = [future EXCEPT ![o] = "stored"]
      /\ scope' = [scope EXCEPT ![s].future = o] /\ call' = [call EXCEPT ![u] = v]
      /\ CompletionOnly /\ UNCHANGED <<lines, events, failures>>
  BY DEF StoreFuture
<1>2. scope[s].state = "exited"
  BY <1>1, Involved
<1>3. scope[s] \in ScopeObject
  BY <1>0 DEF Types
<1>4. q \in ScopeObject /\ q.lock = scope[s].lock /\ q.recorded = scope[s].recorded
  BY <1>3 DEF ScopeObject
<1>5. Keeps(s, q)
  BY <1>1, <1>3, <1>4 DEF Keeps, ScopeBecomes, ScopeObject
<1>6. v \in Call /\ v.at = "start" /\ v.of = s
  BY Bounds DEF Call
<1> HIDE DEF q, v
<1>7. lines' \in [Scopes -> Nat] /\ lines'[s] = IF q.recorded THEN 1 ELSE 0
  BY <1>0, <1>1, <1>4 DEF Types, CompletionIsUnique
<1>8. call' \in [Callers -> Call] /\ \A d \in Callers : call'[d] = call[d] \/ call'[d] = v
  BY <1>0, <1>1, <1>6 DEF Types
<1>9. \A d \in Callers : call[d].at \in {"sync", "write"} /\ call[d].of = s =>
        q.lock = d /\ ~q.recorded
  BY <1>0, <1>4 DEF CompletionFollows
<1>10. failures' \in 0 .. MaxFailures /\ future' \in [Observers -> FutureState]
  BY <1>0, <1>1 DEF Types, FutureState
<1> QED BY <1>1, <1>2, <1>4, <1>5, <1>6, <1>7, <1>8, <1>9, <1>10, CallsMove

LEMMA StartInvolved ==
  ASSUME Inv, NEW u \in Callers, NEW o \in Observers, NEW s \in HipScopes, Starting(u, o, s)
  PROVE  scope[s].state = "exited"
<1>1. call[u].at = "start" /\ call[u].of = s
  BY DEF Starting
<1> QED BY <1>1 DEF Inv, CompletionFollows

\* Its thread begins to wait, from no call: only that call may hold the lock.
LEMMA StartThreadInv ==
  ASSUME Inv, NEW u \in Callers, NEW o \in Observers, NEW s \in HipScopes, StartThread(u, o, s)
  PROVE  Inv'
<1>0. Types /\ CompletionFollows /\ CompletionIsUnique /\ s \in Scopes /\ o \in Callers
  BY Bounds DEF Inv
<1>1. /\ Starting(u, o, s) /\ future' = [future EXCEPT ![o] = "pending"]
      /\ call' = [call EXCEPT ![u] = Idle, ![o] = At("wait", s)]
      /\ CompletionOnly /\ UNCHANGED <<scope, lines, events, failures>>
  BY DEF StartThread
<1>2. scope[s].state = "exited"
  BY <1>1, StartInvolved
<1>3. Keeps(s, scope[s])
  BY <1>0, <1>1, SameKeeps
<1>4. lines' \in [Scopes -> Nat] /\ lines'[s] = IF scope[s].recorded THEN 1 ELSE 0
  BY <1>0, <1>1 DEF Types, CompletionIsUnique
<1>5. /\ call' \in [Callers -> Call]
      /\ \A d \in Callers : call'[d] = call[d] \/ call'[d] = Idle \/ call'[d] = At("wait", s)
  BY <1>0, <1>1, CallTypes DEF Types
<1>6. \A d \in Callers : call[d].at \in {"sync", "write"} /\ call[d].of = s =>
        scope[s].lock = d /\ ~scope[s].recorded
  BY <1>0 DEF CompletionFollows
<1>7. failures' \in 0 .. MaxFailures /\ future' \in [Observers -> FutureState]
  BY <1>0, <1>1 DEF Types, FutureState
<1> QED BY <1>1, <1>2, <1>3, <1>4, <1>5, <1>6, <1>7, CallTypes, CallsMove

LEMMA StartFailsInv ==
  ASSUME Inv, NEW u \in Callers, NEW o \in Observers, NEW s \in HipScopes, StartFails(u, o, s)
  PROVE  Inv'
<1>0. Types
  BY DEF Inv
<1>1. /\ Starting(u, o, s) /\ FailsIf(TRUE) /\ future' = [future EXCEPT ![o] = "orphaned"]
      /\ call' = [call EXCEPT ![u] = Idle]
      /\ CompletionOnly /\ UNCHANGED <<scope, lines, events>>
  BY DEF StartFails, FailsIf
<1>2. scope[s].state = "exited"
  BY <1>1, StartInvolved
<1>3. failures' \in 0 .. MaxFailures
  BY <1>0, <1>1, FailsCounts
<1>4. future' \in [Observers -> FutureState]
  BY <1>0, <1>1 DEF Types, FutureState
<1> QED BY <1>1, <1>2, <1>3, <1>4, CallTypes, CallMoves

\* A step under the lock: a caller goes on, the lock and the record become those of q.
Goes(c, s, q, v) ==
  /\ CompletionOnly /\ Keeps(s, q) /\ UNCHANGED events
  /\ scope[s].recorded => q.recorded
  /\ v \in Call /\ v.at \in {"idle", "sync", "write"} /\ v.starts = NoCaller
  /\ v.at # "idle" => v.of = s /\ q.lock = c /\ ~q.recorded /\ events[s] # "closed"
  /\ call' = [call EXCEPT ![c] = v]
  /\ \A d \in Callers \ {c} : ~(call[d].at \in {"sync", "write"} /\ call[d].of = s)
  /\ lines' \in [Scopes -> Nat] /\ \A r \in Scopes \ {s} : lines'[r] = lines[r]
  /\ lines'[s] = IF q.recorded THEN 1 ELSE 0
  /\ future' \in [Observers -> FutureState]
  /\ failures' \in 0 .. MaxFailures

LEMMA LockedMove ==
  ASSUME Inv, NEW c \in Callers, NEW s \in HipScopes, scope[s].state = "exited",
         NEW q, NEW v, Goes(c, s, q, v)
  PROVE  Inv'
<1>0. Types /\ s \in Scopes
  BY Bounds DEF Inv
<1>1. call'[c] = v /\ \A d \in Callers \ {c} : call'[d] = call[d]
  BY <1>0 DEF Types, Goes
<1>2. call' \in [Callers -> Call]
  BY <1>0 DEF Types, Goes
<1> QED BY <1>1, <1>2, CallsMove DEF Goes

LEMMA OnlyHolder ==
  ASSUME Inv, NEW c \in Callers, NEW s \in HipScopes, NEW what \in {"sync", "write"},
         Doing(c, what, s)
  PROVE  \A d \in Callers \ {c} : ~(call[d].at \in {"sync", "write"} /\ call[d].of = s)
BY Involved DEF Inv, CompletionFollows

LEMMA LinesAre ==
  ASSUME Inv, NEW s \in HipScopes
  PROVE  /\ scope[s].recorded \in BOOLEAN /\ scope[s] \in ScopeObject
         /\ lines \in [Scopes -> Nat] /\ lines[s] = IF scope[s].recorded THEN 1 ELSE 0
<1>1. s \in Scopes /\ scope[s] \in ScopeObject
  BY Bounds DEF Inv, Types
<1>2. scope[s].recorded \in BOOLEAN
  BY <1>1 DEF ScopeObject
<1> QED BY <1>1, <1>2 DEF Inv, Types, CompletionIsUnique

LEMMA LockInv ==
  ASSUME Inv, NEW c \in Callers, NEW s \in HipScopes, Lock(c, s)
  PROVE  Inv'
<1>0. Types /\ s \in Scopes /\ scope[s] \in ScopeObject
  BY Bounds, LinesAre DEF Inv
<1>1. Doing(c, "wait", s) /\ LockFree(s) /\ CompletionOnly /\ UNCHANGED <<lines, events, failures>>
  BY DEF Lock
<1>2. scope[s].state = "exited"
  BY <1>1, Involved
<1>3. CASE scope[s].recorded
  <2>1. call' = [call EXCEPT ![c] = Idle] /\ SetResult(c) /\ UNCHANGED scope
    BY <1>3 DEF Lock, Returns
  <2>2. failures' \in 0 .. MaxFailures
    BY <1>0, <1>1 DEF Types
  <2> QED BY <1>0, <1>1, <1>2, <2>1, <2>2, Results, CallTypes, CallMoves
<1>4. CASE ~scope[s].recorded
  <2> DEFINE q == [scope[s] EXCEPT !.lock = c]
             v == At("sync", s)
  <2>1. scope' = [scope EXCEPT ![s].lock = c] /\ call' = [call EXCEPT ![c] = v] /\ UNCHANGED future
    BY <1>4 DEF Lock, Does
  <2>2. q \in ScopeObject /\ q.lock = c /\ q.recorded = scope[s].recorded
    BY <1>0 DEF ScopeObject
  <2>3. Keeps(s, q)
    BY <1>0, <2>1, <2>2 DEF Keeps, ScopeBecomes, ScopeObject
  <2> HIDE DEF q
  <2>4. events[s] # "closed"
    BY <1>2, <1>4 DEF Inv, CompletionIsUnique
  <2>5. \A d \in Callers \ {c} : ~(call[d].at \in {"sync", "write"} /\ call[d].of = s)
    BY <1>1, Bounds DEF LockFree, Inv, CompletionFollows
  <2>6. /\ lines' \in [Scopes -> Nat] /\ lines'[s] = IF q.recorded THEN 1 ELSE 0
        /\ \A r \in Scopes \ {s} : lines'[r] = lines[r]
    BY <1>1, <1>4, <2>2, LinesAre
  <2>7. v \in Call /\ v.at \in {"idle", "sync", "write"} /\ v.of = s /\ v.starts = NoCaller
    BY CallTypes
  <2>8. /\ failures' \in 0 .. MaxFailures
        /\ future' \in [Observers -> FutureState]
    BY <1>0, <1>1, <2>1 DEF Types
  <2> HIDE DEF v
  <2>9. Goes(c, s, q, v)
    BY <1>1, <1>2, <1>4, <2>1, <2>2, <2>3, <2>4, <2>5, <2>6, <2>7, <2>8 DEF Goes
  <2> QED BY <1>2, <2>9, LockedMove
<1> QED BY <1>3, <1>4

LEMMA SynchronizeInv ==
  ASSUME Inv, NEW c \in Callers, NEW s \in HipScopes, Synchronize(c, s)
  PROVE  Inv'
<1> DEFINE v == At("write", s)
<1>0. Types /\ s \in Scopes
  BY Bounds DEF Inv
<1>1. /\ Doing(c, "sync", s) /\ call' = [call EXCEPT ![c] = v] /\ CompletionOnly
      /\ UNCHANGED <<scope, lines, events, future, failures>>
  BY DEF Synchronize, Does
<1>2. /\ scope[s].state = "exited" /\ scope[s].lock = c /\ ~scope[s].recorded
      /\ events[s] # "closed"
  BY <1>1, Involved
<1>3. \A d \in Callers \ {c} : ~(call[d].at \in {"sync", "write"} /\ call[d].of = s)
  BY <1>1, OnlyHolder
<1>4. /\ lines' \in [Scopes -> Nat] /\ lines'[s] = IF scope[s].recorded THEN 1 ELSE 0
      /\ \A r \in Scopes \ {s} : lines'[r] = lines[r]
  BY <1>1, <1>2, LinesAre
<1>5. v \in Call /\ v.at \in {"idle", "sync", "write"} /\ v.of = s /\ v.starts = NoCaller
  BY CallTypes
<1>6. /\ failures' \in 0 .. MaxFailures
      /\ future' \in [Observers -> FutureState]
  BY <1>0, <1>1 DEF Types
<1>7. Keeps(s, scope[s])
  BY <1>0, <1>1, SameKeeps
<1> HIDE DEF v
<1>8. Goes(c, s, scope[s], v)
  BY <1>1, <1>2, <1>3, <1>4, <1>5, <1>6, <1>7 DEF Goes
<1> QED BY <1>2, <1>8, LockedMove

LEMMA WriteInv ==
  ASSUME Inv, NEW c \in Callers, NEW s \in HipScopes, Write(c, s)
  PROVE  Inv'
<1> DEFINE q == [scope[s] EXCEPT !.recorded = TRUE, !.lock = NoCaller]
<1>0. Types /\ s \in Scopes /\ scope[s] \in ScopeObject
  BY Bounds, LinesAre DEF Inv
<1>1. /\ Doing(c, "write", s) /\ lines' = [lines EXCEPT ![s] = @ + 1]
      /\ scope' = [scope EXCEPT ![s].recorded = TRUE, ![s].lock = NoCaller]
      /\ call' = [call EXCEPT ![c] = Idle] /\ SetResult(c) /\ CompletionOnly
      /\ UNCHANGED <<events, failures>>
  BY DEF Write, Returns
<1>2. scope[s].state = "exited" /\ ~scope[s].recorded
  BY <1>1, Involved
<1>3. \A d \in Callers \ {c} : ~(call[d].at \in {"sync", "write"} /\ call[d].of = s)
  BY <1>1, OnlyHolder
<1>4. [scope[s] EXCEPT !.recorded = TRUE] \in ScopeObject
  BY <1>0 DEF ScopeObject
<1>5. q \in ScopeObject /\ q.recorded = TRUE
  BY <1>0, <1>4 DEF ScopeObject
<1>6. scope' = [scope EXCEPT ![s] = q]
  BY <1>0, <1>1 DEF Types, ScopeObject
<1>7. Keeps(s, q)
  BY <1>0, <1>5, <1>6 DEF Keeps, ScopeBecomes, ScopeObject
<1> HIDE DEF q
<1>8. /\ lines' \in [Scopes -> Nat] /\ lines'[s] = IF q.recorded THEN 1 ELSE 0
      /\ \A r \in Scopes \ {s} : lines'[r] = lines[r]
  BY <1>0, <1>1, <1>2, <1>5, LinesAre
<1>9. Idle \in Call /\ Idle.at = "idle" /\ Idle.starts = NoCaller
  BY CallTypes
<1>10. /\ failures' \in 0 .. MaxFailures
       /\ future' \in [Observers -> FutureState]
  BY <1>0, <1>1, Results DEF Types
<1>11. Goes(c, s, q, Idle)
  BY <1>1, <1>2, <1>3, <1>5, <1>7, <1>8, <1>9, <1>10 DEF Goes
<1> QED BY <1>2, <1>11, LockedMove

LEMMA WaitFailsInv ==
  ASSUME Inv, NEW c \in Callers, NEW s \in HipScopes, WaitFails(c, s)
  PROVE  Inv'
<1> DEFINE q == [scope[s] EXCEPT !.lock = NoCaller]
<1>0. Types /\ s \in Scopes /\ scope[s] \in ScopeObject
  BY Bounds, LinesAre DEF Inv
<1>1. /\ Doing(c, "sync", s) \/ Doing(c, "write", s)
      /\ scope' = [scope EXCEPT ![s].lock = NoCaller] /\ FailsIf(TRUE)
      /\ call' = [call EXCEPT ![c] = Idle] /\ SetException(c) /\ CompletionOnly
      /\ UNCHANGED <<lines, events>>
  BY DEF WaitFails, Raises, FailsIf
<1>2. scope[s].state = "exited" /\ ~scope[s].recorded
  BY <1>1, Involved
<1>3. \A d \in Callers \ {c} : ~(call[d].at \in {"sync", "write"} /\ call[d].of = s)
  BY <1>1, OnlyHolder
<1>4. q \in ScopeObject /\ q.recorded = scope[s].recorded
  BY <1>0 DEF ScopeObject
<1>5. Keeps(s, q)
  BY <1>0, <1>1, <1>4 DEF Keeps, ScopeBecomes, ScopeObject
<1> HIDE DEF q
<1>6. /\ lines' \in [Scopes -> Nat] /\ lines'[s] = IF q.recorded THEN 1 ELSE 0
      /\ \A r \in Scopes \ {s} : lines'[r] = lines[r]
  BY <1>1, <1>2, <1>4, LinesAre
<1>7. Idle \in Call /\ Idle.at = "idle" /\ Idle.starts = NoCaller
  BY CallTypes
<1>8. /\ failures' \in 0 .. MaxFailures
      /\ future' \in [Observers -> FutureState]
  BY <1>0, <1>1, Results, FailsCounts
<1>9. Goes(c, s, q, Idle)
  BY <1>1, <1>2, <1>3, <1>4, <1>5, <1>6, <1>7, <1>8 DEF Goes
<1> QED BY <1>2, <1>9, LockedMove

-----------------------------------------------------------------------------
(* The invariant.                                                          *)

LEMMA RunningThreads ==
  ASSUME Types
  PROVE  Running \subseteq Threads
BY DEF Types, Running

LEMMA InitInv == Init => Inv
<1> SUFFICES ASSUME Init PROVE Inv
  OBVIOUS
<1> USE DEF Init
<1>1. \A s \in Scopes : scope[s] = NewScope
  OBVIOUS
<1>2. NewScope \in ScopeObject
  BY Bounds DEF NewScope, ScopeObject
<1>3. \A c \in Callers : call[c] = Idle /\ call[c].at = "idle" /\ call[c].starts = NoCaller
  BY CallTypes
<1>4. /\ nesting \in [Tasks -> Seq(Scopes)] /\ ranges \in [Threads -> Seq(ThreadRange)]
      /\ \A t \in Tasks : nesting[t] = <<>> /\ Len(nesting[t]) = 0 /\ 1 .. Len(nesting[t]) = {}
      /\ \A h \in Threads : ranges[h] = <<>> /\ 1 .. Len(ranges[h]) = {}
  <2>1. <<>> \in Seq(Scopes) /\ <<>> \in Seq(ThreadRange) /\ Len(<<>>) = 0 /\ 1 .. Len(<<>>) = {}
    BY EmptySeq
  <2> QED BY <2>1
<1>5. /\ scope \in [Scopes -> ScopeObject] /\ call \in [Callers -> Call]
      /\ thread \in [Tasks -> Threads \cup {NoCaller}]
  BY <1>2, CallTypes, ProfileAssumption
<1>6. Types
  BY <1>4, <1>5, Bounds DEF Types, EventState, FutureState
<1>7. TasksFollow
  BY <1>1, <1>4 DEF TasksFollow, TaskFollows, NewScope
<1>8. ScopesFollow
  BY <1>1 DEF ScopesFollow, ScopeFollows, NewScope
<1>9. RangesFollow
  BY <1>4 DEF RangesFollow
<1>10. NestedFollow
  BY <1>1, <1>4 DEF NestedFollow, NestedFollows, NewScope
<1>11. MarkersFollow /\ MarkersNest /\ KernelsFollow
  BY DEF MarkersFollow, MarkersNest, KernelsFollow
<1>12. CompletionFollows
  BY <1>3 DEF CompletionFollows
<1>13. CompletionIsUnique
  BY <1>1, <1>3, Bounds DEF CompletionIsUnique, NewScope
<1> QED BY <1>6, <1>7, <1>8, <1>9, <1>10, <1>11, <1>12, <1>13 DEF Inv

LEMMA StepInv == Inv /\ [Next]_vars => Inv'
<1> SUFFICES ASSUME Inv, [Next]_vars PROVE Inv'
  OBVIOUS
<1>1. CASE UNCHANGED vars
  <2> USE <1>1 DEF vars, task, trace, completion
  <2>1. Types' /\ CompletionFollows' /\ CompletionIsUnique'
    BY DEF Inv, Types, CompletionFollows, CompletionIsUnique
  <2>2. TasksFollow' /\ ScopesFollow' /\ RangesFollow' /\ MarkersFollow'
    BY DEF Inv, TasksFollow, TaskFollows, ScopesFollow, ScopeFollows, RangesFollow, MarkersFollow
  <2>3. NestedFollow'
    BY DEF Inv, NestedFollow, NestedFollows, IsNested, Crossed, InStack, MarkerOf
  <2>4. MarkersNest' /\ KernelsFollow'
    BY DEF Inv, MarkersNest, KernelsFollow, KernelFollows, OpenAt, Around, IsLatest
  <2> QED BY <2>1, <2>2, <2>3, <2>4 DEF Inv
<1>2. ASSUME NEW t \in Tasks,
             \/ Launch(t)
             \/ \E u \in Tasks, h \in Threads : Spawn(t, u, h)
             \/ \E s \in Scopes :
                  \E a, b \in BOOLEAN :
                    \/ Enter(t, s, a) \/ EnterFails(t, s, a, b)
                    \/ Exit(t, s, a, b) \/ HipExit(t, s, a, b) \/ HipExitFails(t, s, a)
      PROVE  Inv'
  <2>1. ASSUME NEW s \in Scopes, NEW a \in BOOLEAN, NEW b \in BOOLEAN,
               \/ Enter(t, s, a) \/ EnterFails(t, s, a, b)
               \/ Exit(t, s, a, b) \/ HipExit(t, s, a, b) \/ HipExitFails(t, s, a)
        PROVE  Inv'
    BY <2>1, ExitInv, HipExitFailsInv, EnterInv, EnterFailsInv, HipExitInv
  <2> QED BY <1>2, <2>1, LaunchInv, SpawnInv
<1>3. ASSUME NEW s \in HipScopes,
             \/ Finish(s)
             \/ \E u \in Running :
                  Wait(u, s) \/ Close(u, s) \/ Poll(u, s) \/ PollEnds(u, s) \/ Observe(u, s)
      PROVE  Inv'
  <2>1. \A u \in Running : u \in Callers
    BY RunningThreads, Bounds DEF Inv
  <2> QED BY <1>3, <2>1, FinishInv, WaitInv, CloseInv, PollInv, PollEndsInv
<1>4. ASSUME NEW c \in Callers, Progress(c) PROVE Inv'
  BY <1>4, LockInv, SynchronizeInv, WriteInv, WaitFailsInv, StoreFutureInv, StartThreadInv,
     StartFailsInv DEF Progress
<1> QED BY <1>1, <1>2, <1>3, <1>4 DEF Next

LEMMA Invariant == Spec => []Inv
BY InitInv, StepInv, PTL DEF Spec

-----------------------------------------------------------------------------
(* The theorems.                                                           *)

LEMMA InvTypes == Inv => TypeOK
<1> SUFFICES ASSUME Inv PROVE TypeOK
  OBVIOUS
<1>0. Types /\ CompletionFollows
  BY DEF Inv
<1>1. ASSUME NEW s \in Scopes
      PROVE  /\ scope[s].state \in {"new", "open", "exited", "failed"}
             /\ scope[s].depth \in Nat /\ scope[s].thread \in Threads \cup {NoCaller}
             /\ scope[s].emitted \in BOOLEAN /\ scope[s].popError \in BOOLEAN
             /\ scope[s].recorded \in BOOLEAN
             /\ scope[s].lock \in Callers \cup {NoCaller}
             /\ scope[s].future \in Observers \cup {NoCaller}
  <2>1. scope[s] \in ScopeObject
    BY <1>0 DEF Types
  <2> QED BY <2>1 DEF ScopeObject
<1>2. ASSUME NEW c \in Callers
      PROVE  /\ call[c].at \in {"idle", "wait", "sync", "write", "poll", "observe", "start"}
             /\ call[c].at \in {"sync", "write"} => scope[call[c].of].lock = c
  <2>1. call[c] \in Call
    BY <1>0 DEF Types
  <2> QED BY <1>0, <2>1 DEF Call, CompletionFollows
<1>3. \A h \in Threads : \A i \in DOMAIN ranges[h] : ranges[h][i].name \in Scopes
  <2> SUFFICES ASSUME NEW h \in Threads, NEW i \in DOMAIN ranges[h]
               PROVE  ranges[h][i].name \in Scopes
    OBVIOUS
  <2>1. i \in 1 .. Len(ranges[h])
    BY <1>0, Stacked, LenProperties
  <2> QED BY <1>0, <2>1, Stacked
<1> QED BY <1>0, <1>1, <1>2, <1>3 DEF TypeOK, Types, EventState, FutureState

LEMMA InvRows == Inv => RowsAreTrue
<1> SUFFICES ASSUME Inv PROVE RowsAreTrue
  OBVIOUS
<1>0. /\ Types /\ TasksFollow /\ ScopesFollow /\ MarkersFollow /\ NestedFollow /\ MarkersNest
      /\ CompletionFollows
  BY DEF Inv
<1>1. ASSUME NEW t \in Tasks, NEW i \in DOMAIN nesting[t]
      PROVE  scope[nesting[t][i]].depth = base[t] + i - 1
  BY <1>0, Nested DEF TaskFollows
<1>2. ASSUME NEW s \in Scopes, lines[s] > 0, scope[s].emitted, IsNested(scope[s].thread)
      PROVE  HoldsMarker(s)
  <2>1. PICK h \in Threads : h = scope[s].thread
    BY <1>0, <1>2 DEF ScopesFollow, ScopeFollows
  <2>2. MarkerOf(s, h) \in markers
    <3>1. scope[s].state # "open"
      BY <1>0, <1>2 DEF CompletionFollows
    <3>2. NestedFollows(h) /\ IsNested(h)
      BY <1>0, <1>2, <2>1 DEF NestedFollow
    <3> QED BY <1>2, <2>1, <3>1, <3>2 DEF NestedFollows
  <2>3. /\ MarkerOf(s, h).name = s /\ MarkerOf(s, h).thread = h
        /\ MarkerOf(s, h).start = scope[s].push /\ MarkerOf(s, h).end = scope[s].pop
    BY DEF MarkerOf
  <2>4. \A m \in markers : m.name = s => m.thread = h /\ m.start = scope[s].push
    BY <1>0, <2>1 DEF MarkersFollow
  <2> HIDE DEF MarkerOf
  <2>5. \A m \in markers : m.name = s => m = MarkerOf(s, h)
    BY <1>0, <2>2, <2>3, <2>4 DEF MarkersNest
  <2>6. Matches(s) = {MarkerOf(s, h)}
    BY <2>2, <2>3, <2>5 DEF Matches
  <2>7. Cardinality(Matches(s)) = 1
    BY <2>6, FS_Singleton
  <2> QED BY <2>3, <2>6, <2>7 DEF HoldsMarker
<1> QED BY <1>1, <1>2 DEF RowsAreTrue

\* The marker that starts last of those around a time is strictly the shortest of them.
LEMMA LatestIsShortest ==
  ASSUME Inv, NEW k \in kernels, NEW m \in Around(k), \A n \in Around(k) : n.start <= m.start,
         NEW n \in Around(k), Duration(n) <= Duration(m)
  PROVE  n = m
<1>0. Types /\ MarkersNest
  BY DEF Inv
<1>1. /\ m \in markers /\ n \in markers /\ m.thread = n.thread
      /\ n.start <= m.start /\ m.start <= k.time /\ k.time <= n.end
  BY DEF Around
<1>2. /\ m.start \in Nat /\ m.end \in Nat /\ n.start \in Nat /\ n.end \in Nat /\ k.time \in Nat
  BY <1>0, <1>1, MarkerTypes, KernelTypes
<1>3. CASE n.start = m.start
  BY <1>0, <1>1, <1>3 DEF MarkersNest
<1>4. CASE n.start < m.start
  <2>1. m.start <= n.end
    BY <1>1, <1>2
  <2>2. m.end < n.end
    BY <1>0, <1>1, <1>4, <2>1 DEF MarkersNest
  <2> QED BY <1>2, <1>4, <2>2 DEF Duration
<1> QED BY <1>1, <1>2, <1>3, <1>4

LEMMA InvKernels == Inv => KernelsFollowRanges
<1> SUFFICES ASSUME Inv, \A h \in Threads : ranges[h] = <<>>, NEW k \in kernels,
                    \A m \in Containing(k) : m.thread = k.thread
             PROVE  Attributed(k) = k.within
  BY DEF KernelsFollowRanges
<1>0. Types /\ KernelFollows(k) /\ k.thread \in Threads /\ k.within \in 0 .. NumScopes
  BY KernelTypes DEF Inv, KernelsFollow
<1>1. Containing(k) = Around(k)
  BY DEF Containing, Around
<1>2. OpenAt(k) = {}
  <2>1. Len(ranges[k.thread]) = 0
    BY <1>0, EmptySeq
  <2> QED BY <2>1 DEF OpenAt
<1>3. CASE k.within = 0
  BY <1>0, <1>1, <1>3 DEF KernelFollows, Attributed
<1>4. CASE k.within # 0
  <2>1. PICK m \in Around(k) : m.name = k.within /\ IsLatest(m.start, k)
    BY <1>0, <1>2, <1>4 DEF KernelFollows
  <2>2. \A n \in Around(k) : n.start <= m.start
    BY <2>1 DEF IsLatest
  <2>3. \A n \in Around(k) : /\ n.start \in Nat /\ n.end \in Nat /\ Duration(n) \in Int
                             /\ Duration(n) <= Duration(m) => n = m
    <3> SUFFICES ASSUME NEW n \in Around(k)
                 PROVE  /\ n.start \in Nat /\ n.end \in Nat /\ Duration(n) \in Int
                        /\ Duration(n) <= Duration(m) => n = m
      OBVIOUS
    <3>1. n.start \in Nat /\ n.end \in Nat
      BY <1>0, MarkerTypes DEF Around
    <3>2. Duration(n) \in Int
      BY <3>1 DEF Duration
    <3> QED BY <2>2, <3>1, <3>2, LatestIsShortest
  <2>4. \A n \in Around(k) : Duration(m) <= Duration(n)
    <3> SUFFICES ASSUME NEW n \in Around(k) PROVE Duration(m) <= Duration(n)
      OBVIOUS
    <3>1. Duration(m) \in Int /\ Duration(n) \in Int
      BY <2>3
    <3>2. CASE Duration(n) <= Duration(m)
      <4>1. n = m
        BY <2>3, <3>2
      <4> QED BY <3>1, <4>1
    <3> QED BY <3>1, <3>2
  <2> DEFINE c == NarrowestOf(Around(k))
  <2>5. c \in Around(k) /\ \A n \in Around(k) : Duration(c) <= Duration(n)
    BY <2>4 DEF NarrowestOf
  <2> HIDE DEF c
  <2>6. c = m
    BY <2>3, <2>5
  <2> QED BY <1>1, <2>1, <2>6 DEF Attributed, c
<1> QED BY <1>3, <1>4

\* Every variable has its type, and who writes a record holds the scope's lock.
THEOREM TypeCorrect == Spec => []TypeOK
BY Invariant, InvTypes, PTL

\* The depth of a row counts the scopes of its own task and those the task was created
\* in.  In a thread whose ranges were not crossed and were all popped, a row that has
\* emitted a range has exactly one marker, which starts and ends with it: for any
\* interleaving of tasks, whatever happens in other threads, for scopes that fail to
\* start or to end, and completions from any thread.
THEOREM RowsSayWhatHappened == Spec => []RowsAreTrue
BY Invariant, InvRows, PTL

\* The narrowest marker around a kernel's launch, if none of another thread is around it,
\* is the range that was on top of its thread: the ranges of a thread are a stack, of
\* whichever task each of them is, and whichever pop fails.
THEOREM KernelsAreAttributed == Spec => []KernelsFollowRanges
BY Invariant, InvKernels, PTL

\* A completion writes its line once, whatever fails and whoever waits for it, and the
\* events are neither closed before that nor used afterwards.
THEOREM CompletesOnce == Spec => []CompletionIsUnique
<1>1. Inv => CompletionIsUnique
  BY DEF Inv
<1> QED BY <1>1, Invariant, PTL

-----------------------------------------------------------------------------
(* Nobody waits forever.  That a future ends (FuturesEnd) is a matter of    *)
(* fairness and stays with TLC; this is what the argument rests on: a       *)
(* future that is stored has a thread about to start its observer, and for  *)
(* a pending one the stream or some thread has a step to take for the scope *)
(* it is about: none of them waits for another's lock in vain.              *)

\* When the guards of Finish and of a Progress on the scope hold.
CanFinish(s) == events[s] = "recorded"
CanProgress(c, s) ==
  \/ Doing(c, "wait", s) /\ LockFree(s)
  \/ Doing(c, "sync", s) /\ events[s] = "done"
  \/ Doing(c, "write", s)
CanStart(o) == \E u \in Callers, s \in HipScopes : Starting(u, o, s)
CanComplete(o) ==
  \E s \in HipScopes :
    call[o].of = s /\ (CanFinish(s) \/ \E c \in Callers : CanProgress(c, s))
FutureMoves ==
  \A o \in Observers : /\ future[o] = "stored" => CanStart(o)
                       /\ future[o] = "pending" => CanComplete(o)

\* A pending future has a thread that waits for the scope, and no other observer has begun
\* or goes on; a stored one is about to be started by exactly one caller, and nobody
\* starts any other; who has a scope's lock is inside it; an exited scope has recorded
\* its finish event.
ObserversWait ==
  \A o \in Observers :
    /\ future[o] = "pending" => call[o].at \in {"wait", "sync", "write"}
    /\ future[o] # "pending" => call[o].at = "idle"
StartsFollow ==
  /\ \A u \in Callers : call[u].at = "start" =>
       call[u].starts \in Observers /\ future[call[u].starts] = "stored"
  /\ \A u, v \in Callers :
       call[u].at = "start" /\ call[v].at = "start" /\ call[u].starts = call[v].starts => u = v
  /\ \A o \in Observers : future[o] = "stored" =>
       \E u \in Callers : call[u].at = "start" /\ call[u].starts = o
Holds(c, s) == scope[s].lock = c /\ call[c].at \in {"sync", "write"} /\ call[c].of = s
LocksHeld == \A s \in HipScopes : scope[s].lock # NoCaller => \E c \in Callers : Holds(c, s)
FinishRecorded ==
  \A s \in HipScopes : scope[s].state = "exited" => events[s] \in {"recorded", "done", "closed"}
WaitsFollow == ObserversWait /\ StartsFollow /\ LocksHeld /\ FinishRecorded

\* The calls that start an observer, and what is stored, stay.
LEMMA StartsStay ==
  ASSUME StartsFollow,
         \A c \in Callers : call'[c] = call[c] \/ (call[c].at # "start" /\ call'[c].at # "start"),
         \A o \in Observers : future'[o] = future[o] \/
                                (future[o] # "stored" /\ future'[o] # "stored")
  PROVE  StartsFollow'
<1>1. \A c \in Callers : /\ call'[c].at = "start" <=> call[c].at = "start"
                         /\ call'[c].at = "start" => call'[c].starts = call[c].starts
  OBVIOUS
<1>2. \A o \in Observers : future'[o] = "stored" <=> future[o] = "stored"
  OBVIOUS
<1> QED BY <1>1, <1>2 DEF StartsFollow

LEMMA WaitsMove == Inv /\ WaitsFollow => FutureMoves
<1> SUFFICES ASSUME Inv, WaitsFollow, NEW o \in Observers
             PROVE  /\ future[o] = "stored" => CanStart(o)
                    /\ future[o] = "pending" => CanComplete(o)
  BY DEF FutureMoves
<1>1. Types /\ CompletionFollows /\ CompletionIsUnique /\ o \in Callers
  BY Bounds DEF Inv
<1>2. \A c \in Callers :
        call[c] = [at |-> call[c].at, of |-> call[c].of, starts |-> call[c].starts]
  BY <1>1 DEF Types, Call
<1>3. ASSUME future[o] = "stored" PROVE CanStart(o)
  <2>1. PICK u \in Callers : call[u].at = "start" /\ call[u].starts = o
    BY <1>3 DEF WaitsFollow, StartsFollow
  <2>2. call[u].of \in HipScopes
    BY <1>1, <2>1 DEF CompletionFollows
  <2>3. call[u] = [at |-> "start", of |-> call[u].of, starts |-> o]
    BY <1>2, <2>1
  <2> QED BY <2>2, <2>3 DEF CanStart, Starting
<1>4. ASSUME future[o] = "pending" PROVE CanComplete(o)
  <2>1. call[o].at \in {"wait", "sync", "write"}
    BY <1>4 DEF WaitsFollow, ObserversWait
  <2>2. PICK s \in HipScopes : call[o].of = s /\ scope[s].state = "exited"
    BY <1>1, <2>1 DEF CompletionFollows
  <2>3. ASSUME NEW c \in Callers, call[c].at \in {"wait", "sync", "write"}, call[c].of = s
        PROVE  Doing(c, call[c].at, s)
    <3>1. call[c].starts = NoCaller
      BY <1>1, <2>3 DEF CompletionFollows
    <3>2. call[c] = [at |-> call[c].at, of |-> s, starts |-> NoCaller]
      BY <1>2, <2>3, <3>1
    <3> QED BY <3>2 DEF Doing, At
  <2>4. ASSUME NEW c \in Callers, call[c].at \in {"sync", "write"}, call[c].of = s
        PROVE  CanFinish(s) \/ CanProgress(c, s)
    <3>1. events[s] \in {"recorded", "done"}
      BY <1>1, <2>2, <2>4 DEF WaitsFollow, FinishRecorded, CompletionIsUnique
    <3>2. Doing(c, "sync", s) \/ Doing(c, "write", s)
      BY <2>3, <2>4
    <3> QED BY <3>1, <3>2 DEF CanFinish, CanProgress
  <2>5. CASE call[o].at \in {"sync", "write"}
    BY <1>1, <2>2, <2>4, <2>5 DEF CanComplete
  <2>6. CASE call[o].at = "wait" /\ LockFree(s)
    <3>1. Doing(o, "wait", s)
      BY <1>1, <2>2, <2>3, <2>6
    <3> QED BY <1>1, <2>2, <2>6, <3>1 DEF CanComplete, CanProgress
  <2>7. CASE ~LockFree(s)
    <3>1. PICK c \in Callers : Holds(c, s)
      BY <2>7 DEF WaitsFollow, LocksHeld, LockFree
    <3> QED BY <2>2, <2>4, <3>1 DEF Holds, CanComplete
  <2> QED BY <2>1, <2>5, <2>6, <2>7
<1> QED BY <1>3, <1>4

\* A step of a task: locks and futures stay, and so does every call but that of a thread
\* that had none.
LEMMA TaskWaits ==
  ASSUME Inv, WaitsFollow, NEW s \in Scopes, NEW p, Opens(s, p, p.state),
         p.state = "exited" => events'[s] = "recorded" \/ s \notin HipScopes,
         \A r \in HipScopes \ {s} : events'[r] = events[r],
         UNCHANGED future,
         \A c \in Callers : \/ call'[c] = call[c]
                            \/ c \in Threads /\ call[c] = Idle /\ call'[c].at # "start"
  PROVE  WaitsFollow'
<1>1. scope'[s] = p /\ \A r \in Scopes \ {s} : scope'[r] = scope[r]
  BY ScopeFrame DEF Inv, Opens
<1>2. \A o \in Observers : call'[o] = call[o]
  BY ProfileAssumption DEF Callers
<1>3. ObserversWait'
  BY <1>2 DEF WaitsFollow, ObserversWait
<1>4. StartsFollow'
  BY StartsStay, CallTypes DEF WaitsFollow
<1>5. \A r \in HipScopes : scope'[r].lock # NoCaller => scope'[r].lock = scope[r].lock
  BY <1>1, Bounds DEF Opens
<1>6. \A c \in Callers, r \in HipScopes : Holds(c, r) => call'[c] = call[c]
  BY CallTypes DEF Holds
<1>7. LocksHeld'
  BY <1>5, <1>6 DEF WaitsFollow, LocksHeld, Holds
<1>8. FinishRecorded'
  BY <1>1, Bounds DEF WaitsFollow, FinishRecorded
<1> QED BY <1>3, <1>4, <1>7, <1>8 DEF WaitsFollow

LEMMA TaskStepWaits ==
  ASSUME Inv, WaitsFollow, NEW t \in Tasks, NEW s \in Scopes, NEW a \in BOOLEAN, NEW b \in BOOLEAN,
         \/ Enter(t, s, a) \/ EnterFails(t, s, a, b)
         \/ Exit(t, s, a, b) \/ HipExit(t, s, a, b) \/ HipExitFails(t, s, a)
  PROVE  WaitsFollow'
<1>0. Types
  BY DEF Inv
<1>1. CASE Enter(t, s, a)
  <2>1. PICK p : Opens(s, p, "open")
    BY <1>1, EnterTrace
  <2>2. \A r \in HipScopes \ {s} : events'[r] = events[r]
    BY <1>0, <1>1 DEF Enter, Types
  <2>3. UNCHANGED <<call, future>>
    BY <1>1 DEF Enter
  <2> QED BY <2>1, <2>2, <2>3, TaskWaits DEF Opens
<1>2. CASE EnterFails(t, s, a, b)
  <2>1. PICK p : Opens(s, p, "failed")
    BY <1>2, EnterFailsTrace
  <2>2. \A r \in HipScopes \ {s} : events'[r] = events[r]
    BY <1>0, <1>2 DEF EnterFails, Types
  <2>3. UNCHANGED <<call, future>>
    BY <1>2 DEF EnterFails
  <2> QED BY <2>1, <2>2, <2>3, TaskWaits DEF Opens
<1>3. CASE Exit(t, s, a, b)
  <2>1. /\ Free(t) /\ IsInnermost(t, s) /\ s \notin HipScopes /\ Leaves(t) /\ FinishRange(t, s, a)
        /\ scope' = Exited(s, "exited", a) /\ UNCHANGED <<kernels, events, call, future>>
    BY <1>3 DEF Exit, completion
  <2>2. PICK p : Opens(s, p, "exited")
    BY <2>1, LeaveTrace
  <2> QED BY <2>1, <2>2, TaskWaits DEF Opens
<1>4. CASE HipExitFails(t, s, a)
  <2>1. /\ Free(t) /\ IsInnermost(t, s) /\ Leaves(t) /\ FinishRange(t, s, a)
        /\ scope' = Exited(s, "failed", a) /\ UNCHANGED <<kernels, call, future>>
        /\ events' = [events EXCEPT ![s] = "closed"]
    BY <1>4 DEF HipExitFails
  <2>2. PICK p : Opens(s, p, "failed")
    BY <2>1, LeaveTrace
  <2>3. \A r \in HipScopes \ {s} : events'[r] = events[r]
    BY <1>0, <2>1 DEF Types
  <2> QED BY <2>1, <2>2, <2>3, TaskWaits DEF Opens
<1>5. CASE HipExit(t, s, a, b)
  <2>1. /\ Free(t) /\ IsInnermost(t, s) /\ s \in HipScopes /\ Leaves(t) /\ FinishRange(t, s, a)
        /\ scope' = Exited(s, "exited", a) /\ UNCHANGED <<kernels, future>>
        /\ events' = [events EXCEPT ![s] = "recorded"] /\ call[thread[t]] = Idle
        /\ call' = IF b THEN [call EXCEPT ![thread[t]] = At("wait", s)] ELSE call
    BY <1>5 DEF HipExit, Free
  <2>2. PICK p : Opens(s, p, "exited")
    BY <2>1, LeaveTrace
  <2>3. events'[s] = "recorded" /\ \A r \in HipScopes \ {s} : events'[r] = events[r]
    BY <1>0, <2>1 DEF Types
  <2>4. thread[t] \in Threads
    BY <1>0, <2>1, FreeThread
  <2>5. \A c \in Callers : \/ call'[c] = call[c]
                           \/ c \in Threads /\ call[c] = Idle /\ call'[c].at # "start"
    BY <1>0, <2>1, <2>4, CallTypes DEF Types
  <2> QED BY <2>1, <2>2, <2>3, <2>5, TaskWaits DEF Opens
<1> QED BY <1>1, <1>2, <1>3, <1>4, <1>5

\* The stream comes to the event, or somebody closes the scope.
LEMMA EventWaits ==
  ASSUME Inv, WaitsFollow, NEW s \in HipScopes,
         NEW where \in {"done", "closed"}, events' = [events EXCEPT ![s] = where],
         UNCHANGED <<scope, call, future>>
  PROVE  WaitsFollow'
<1>1. events \in [HipScopes -> EventState]
  BY DEF Inv, Types
<1> QED BY <1>1 DEF WaitsFollow, ObserversWait, StartsFollow, LocksHeld, Holds, FinishRecorded

\* A thread that is not inside a lock takes up or drops something.
LEMMA ThreadWaits ==
  ASSUME Inv, WaitsFollow, NEW s \in HipScopes, NEW u \in Threads,
         call[u].at \in {"idle", "poll"}, NEW v, v.at # "start", call' = [call EXCEPT ![u] = v],
         UNCHANGED <<scope, events, future>>
  PROVE  WaitsFollow'
<1>1. call'[u] = v /\ \A c \in Callers : c # u => call'[c] = call[c]
  BY Bounds DEF Inv, Types
<1>2. \A o \in Observers : call'[o] = call[o]
  BY <1>1, ProfileAssumption DEF Callers
<1>3. ObserversWait' /\ FinishRecorded'
  BY <1>2 DEF WaitsFollow, ObserversWait, FinishRecorded
<1>4. \A c \in Callers, r \in HipScopes : Holds(c, r) => call'[c] = call[c]
  BY <1>1 DEF Holds
<1>5. LocksHeld'
  BY <1>4 DEF WaitsFollow, LocksHeld, Holds
<1>6. StartsFollow'
  BY <1>1, StartsStay DEF WaitsFollow
<1> QED BY <1>3, <1>5, <1>6 DEF WaitsFollow

\* The locks and the finish events stay, and who has a lock goes on.
LEMMA HoldersStay ==
  ASSUME WaitsFollow, UNCHANGED events,
         \A r \in HipScopes : scope'[r].lock = scope[r].lock /\ scope'[r].state = scope[r].state,
         \A c \in Callers : call[c].at \in {"sync", "write"} => call'[c] = call[c]
  PROVE  LocksHeld' /\ FinishRecorded'
<1>1. \A c \in Callers, r \in HipScopes : Holds(c, r) => call'[c] = call[c]
  BY DEF Holds
<1>2. LocksHeld'
  BY <1>1 DEF WaitsFollow, LocksHeld, Holds
<1>3. FinishRecorded'
  BY DEF WaitsFollow, FinishRecorded
<1> QED BY <1>2, <1>3

\* A future that nobody has been given is stored, and its caller is to start its thread.
LEMMA StoreFutureWaits ==
  ASSUME Inv, WaitsFollow, NEW s \in HipScopes, NEW u \in Callers, NEW o \in Observers,
         StoreFuture(u, o, s)
  PROVE  WaitsFollow'
<1> DEFINE v == [at |-> "start", of |-> s, starts |-> o]
<1>1. /\ call[u].at = "observe" /\ future[o] = "none" /\ UNCHANGED events
      /\ future' = [future EXCEPT ![o] = "stored"] /\ scope' = [scope EXCEPT ![s].future = o]
      /\ call' = [call EXCEPT ![u] = v]
  BY DEF StoreFuture, Doing, At, IsFresh
<1>2. v.at = "start" /\ v.starts = o
  OBVIOUS
<1> HIDE DEF v
<1>3. /\ call'[u] = v /\ \A c \in Callers \ {u} : call'[c] = call[c]
      /\ future'[o] = "stored" /\ \A q \in Observers \ {o} : future'[q] = future[q]
  BY <1>1 DEF Inv, Types
<1>4. \A q \in Observers : q # u /\ call'[q] = call[q]
  BY <1>1, <1>3, Bounds DEF WaitsFollow, ObserversWait
<1>5. ObserversWait'
  BY <1>1, <1>3, <1>4 DEF WaitsFollow, ObserversWait
<1>6. StartsFollow'
  <2>1. \A c \in Callers : call[c].at = "start" =>
          /\ c # u /\ call'[c] = call[c] /\ call[c].starts \in Observers \ {o}
          /\ future[call[c].starts] = "stored"
    BY <1>1, <1>3 DEF WaitsFollow, StartsFollow
  <2>2. \A c \in Callers : call'[c].at = "start" =>
          \/ c = u /\ call'[c].starts = o
          \/ c # u /\ call[c].at = "start" /\ call'[c].starts = call[c].starts
    BY <1>2, <1>3
  <2>3. \A c \in Callers : call'[c].at = "start" =>
          call'[c].starts \in Observers /\ future'[call'[c].starts] = "stored"
    BY <1>3, <2>1, <2>2
  <2>4. \A c, d \in Callers :
          call'[c].at = "start" /\ call'[d].at = "start" /\ call'[c].starts = call'[d].starts
            => c = d
    BY <2>1, <2>2 DEF WaitsFollow, StartsFollow
  <2>5. ASSUME NEW q \in Observers, future'[q] = "stored"
        PROVE  \E c \in Callers : call'[c].at = "start" /\ call'[c].starts = q
    <3>1. CASE q = o
      BY <1>2, <1>3, <3>1
    <3>2. CASE q # o
      <4>1. PICK c \in Callers : call[c].at = "start" /\ call[c].starts = q
        BY <1>3, <2>5, <3>2 DEF WaitsFollow, StartsFollow
      <4> QED BY <2>1, <4>1
    <3> QED BY <3>1, <3>2
  <2> QED BY <2>3, <2>4, <2>5 DEF StartsFollow
<1>7. \A r \in HipScopes : scope'[r].lock = scope[r].lock /\ scope'[r].state = scope[r].state
  <2>1. scope \in [Scopes -> ScopeObject] /\ HipScopes \subseteq Scopes
    BY Bounds DEF Inv, Types
  <2>2. \A r \in Scopes : scope'[r] = IF r = s THEN [scope[s] EXCEPT !.future = o] ELSE scope[r]
    BY <1>1, <2>1
  <2> QED BY <2>1, <2>2 DEF ScopeObject
<1>8. LocksHeld' /\ FinishRecorded'
  BY <1>1, <1>3, <1>7, HoldersStay
<1> QED BY <1>5, <1>6, <1>8 DEF WaitsFollow

\* Whoever is to start the observer of a stored future has started it, or has failed to.
LEMMA StartsEnd ==
  ASSUME Inv, WaitsFollow, NEW s \in HipScopes, NEW u \in Callers, NEW o \in Observers,
         Starting(u, o, s), NEW state, state # "stored", future' = [future EXCEPT ![o] = state],
         call'[u] = Idle, \A c \in Callers \ {u, o} : call'[c] = call[c],
         \/ state = "pending" /\ call'[o] = At("wait", s)
         \/ state # "pending" /\ call'[o] = call[o],
         UNCHANGED <<scope, events>>
  PROVE  WaitsFollow'
<1>1. call[u].at = "start" /\ call[u].starts = o
  BY DEF Starting
<1>2. future[o] = "stored" /\ call[o].at = "idle" /\ o \in Callers
  BY <1>1, Bounds DEF WaitsFollow, StartsFollow, ObserversWait
<1>3. future'[o] = state /\ \A q \in Observers \ {o} : future'[q] = future[q]
  BY DEF Inv, Types
<1>4. \A q \in Observers \ {o} : q # u /\ call'[q] = call[q]
  BY <1>1, Bounds DEF WaitsFollow, ObserversWait
<1>5. ObserversWait'
  BY <1>2, <1>3, <1>4, CallTypes DEF WaitsFollow, ObserversWait
<1>6. StartsFollow'
  <2>1. \A c \in Callers : call'[c].at = "start" =>
          /\ c # u /\ c # o /\ call'[c] = call[c] /\ call[c].starts \in Observers
          /\ call[c].starts # o /\ future[call[c].starts] = "stored"
    BY <1>1, <1>2, CallTypes DEF WaitsFollow, StartsFollow
  <2>2. \A c \in Callers : call'[c].at = "start" =>
          call'[c].starts \in Observers /\ future'[call'[c].starts] = "stored"
    BY <1>3, <2>1
  <2>3. \A c, d \in Callers :
          call'[c].at = "start" /\ call'[d].at = "start" /\ call'[c].starts = call'[d].starts
            => c = d
    BY <2>1 DEF WaitsFollow, StartsFollow
  <2>4. ASSUME NEW q \in Observers, future'[q] = "stored"
        PROVE  \E c \in Callers : call'[c].at = "start" /\ call'[c].starts = q
    <3>1. q # o /\ future[q] = "stored"
      BY <1>3, <2>4
    <3>2. PICK c \in Callers : call[c].at = "start" /\ call[c].starts = q
      BY <3>1 DEF WaitsFollow, StartsFollow
    <3>3. c # u /\ c # o
      BY <1>1, <1>2, <3>1, <3>2
    <3> QED BY <3>2, <3>3
  <2> QED BY <2>2, <2>3, <2>4 DEF StartsFollow
<1>7. \A c \in Callers : call[c].at \in {"sync", "write"} => call'[c] = call[c]
  BY <1>1, <1>2
<1>8. LocksHeld' /\ FinishRecorded'
  BY <1>7, HoldersStay
<1> QED BY <1>5, <1>6, <1>8 DEF WaitsFollow

LEMMA StartWaits ==
  ASSUME Inv, WaitsFollow, NEW s \in HipScopes, NEW u \in Callers, NEW o \in Observers,
         StartThread(u, o, s) \/ StartFails(u, o, s)
  PROVE  WaitsFollow'
<1>1. Starting(u, o, s) /\ UNCHANGED <<scope, events>>
  BY DEF StartThread, StartFails
<1>2. o # u /\ o \in Callers
  <2>1. call[u].at = "start" /\ call[u].starts = o
    BY <1>1 DEF Starting
  <2> QED BY <2>1, Bounds DEF WaitsFollow, ObserversWait, StartsFollow
<1>3. CASE StartThread(u, o, s)
  <2>1. /\ future' = [future EXCEPT ![o] = "pending"]
        /\ call' = [call EXCEPT ![u] = Idle, ![o] = At("wait", s)]
    BY <1>3 DEF StartThread
  <2>2. /\ call'[u] = Idle /\ call'[o] = At("wait", s)
        /\ \A c \in Callers \ {u, o} : call'[c] = call[c]
    BY <1>2, <2>1 DEF Inv, Types
  <2> QED BY <1>1, <2>1, <2>2, StartsEnd
<1>4. CASE StartFails(u, o, s)
  <2>1. future' = [future EXCEPT ![o] = "orphaned"] /\ call' = [call EXCEPT ![u] = Idle]
    BY <1>4 DEF StartFails
  <2>2. /\ call'[u] = Idle /\ call'[o] = call[o]
        /\ \A c \in Callers \ {u, o} : call'[c] = call[c]
    BY <1>2, <2>1 DEF Inv, Types
  <2> QED BY <1>1, <2>1, <2>2, StartsEnd
<1> QED BY <1>3, <1>4

\* A caller that has taken the lock holds it, and one that lets it go has ended.
LEMMA LockWaits ==
  ASSUME Inv, WaitsFollow, NEW c \in Callers, NEW s \in HipScopes,
         call[c].at \in {"wait", "sync", "write"}, call[c].of = s,
         call[c].at = "wait" => LockFree(s) \/ scope'[s].lock = scope[s].lock,
         NEW v, call' = [call EXCEPT ![c] = v],
         scope' \in [Scopes -> ScopeObject],
         \A r \in Scopes \ {s} : scope'[r] = scope[r],
         scope'[s].state = scope[s].state, UNCHANGED events,
         \/ v = Idle /\ (SetResult(c) \/ SetException(c))
         \/ v.at \in {"sync", "write"} /\ v.of = s /\ UNCHANGED future,
         scope'[s].lock # NoCaller =>
           \/ scope'[s].lock = c /\ v.at \in {"sync", "write"} /\ v.of = s
           \/ scope'[s].lock = scope[s].lock /\ call[c].at = "wait"
  PROVE  WaitsFollow'
<1>0. Types
  BY DEF Inv
<1>1. call'[c] = v /\ \A d \in Callers \ {c} : call'[d] = call[d]
  BY <1>0 DEF Types
<1>2. /\ \A o \in Observers \ {c} : future'[o] = future[o]
      /\ c \in Observers => \/ v = Idle /\ future'[c] \in {"result", "exception"}
                            \/ v.at \in {"sync", "write"} /\ future'[c] = future[c]
  BY <1>0 DEF SetResult, SetException, Types
<1>3. c \in Observers => future[c] = "pending"
  BY DEF WaitsFollow, ObserversWait
<1>4. ObserversWait'
  BY <1>1, <1>2, <1>3, CallTypes, Bounds DEF WaitsFollow, ObserversWait
<1>5. ASSUME NEW r \in HipScopes, scope'[r].lock # NoCaller
      PROVE  \E d \in Callers : scope'[r].lock = d /\ call'[d].at \in {"sync", "write"}
                                /\ call'[d].of = r
  <2>1. CASE r # s
    <3>1. scope'[r] = scope[r]
      BY <2>1, Bounds
    <3>2. PICK d \in Callers : Holds(d, r)
      BY <1>5, <3>1 DEF WaitsFollow, LocksHeld
    <3>3. d # c
      BY <2>1, <3>2 DEF Holds
    <3> QED BY <1>1, <3>1, <3>2, <3>3 DEF Holds
  <2>2. CASE r = s /\ scope'[s].lock = c /\ v.at \in {"sync", "write"} /\ v.of = s
    BY <1>1, <2>2
  <2>3. CASE r = s /\ scope'[s].lock = scope[s].lock /\ call[c].at = "wait"
    <3>1. PICK d \in Callers : Holds(d, s)
      BY <1>5, <2>3 DEF WaitsFollow, LocksHeld
    <3>2. d # c
      BY <2>3, <3>1 DEF Holds
    <3> QED BY <1>1, <2>3, <3>1, <3>2 DEF Holds
  <2> QED BY <1>5, <2>1, <2>2, <2>3
<1>6. LocksHeld'
  BY <1>5 DEF LocksHeld, Holds
<1>7. FinishRecorded'
  <2>1. \A r \in HipScopes : scope'[r].state = scope[r].state
    BY Bounds
  <2> QED BY <2>1 DEF WaitsFollow, FinishRecorded
<1>8. StartsFollow'
  <2>1. \A o \in Observers : \/ future'[o] = future[o]
                             \/ future[o] # "stored" /\ future'[o] # "stored"
    BY <1>2, <1>3
  <2>2. call[c].at # "start" /\ call'[c].at # "start"
    BY <1>1, CallTypes
  <2> QED BY <1>1, <2>1, <2>2, StartsStay DEF WaitsFollow
<1> QED BY <1>4, <1>6, <1>7, <1>8 DEF WaitsFollow

LEMMA ProgressWaits ==
  ASSUME Inv, WaitsFollow, NEW c \in Callers, Progress(c)
  PROVE  WaitsFollow'
<1>0. Types /\ HipScopes \subseteq Scopes /\ scope \in [Scopes -> ScopeObject]
      /\ c \in Callers /\ c # NoCaller
  BY Bounds DEF Inv, Types
<1>1. PICK s \in HipScopes :
        \/ Lock(c, s) \/ Synchronize(c, s) \/ Write(c, s) \/ WaitFails(c, s)
        \/ \E o \in Observers : StoreFuture(c, o, s) \/ StartThread(c, o, s) \/ StartFails(c, o, s)
  BY DEF Progress
<1>2. s \in Scopes /\ scope[s] \in ScopeObject
  BY <1>0
<1>3. ASSUME NEW q, scope' = [scope EXCEPT ![s] = q], NEW lock, q \in ScopeObject,
             q.state = scope[s].state, q.lock = lock
      PROVE  /\ scope' \in [Scopes -> ScopeObject] /\ \A r \in Scopes \ {s} : scope'[r] = scope[r]
             /\ scope'[s].state = scope[s].state /\ scope'[s].lock = lock
  BY <1>0, <1>3
<1>4. CASE Lock(c, s) /\ scope[s].recorded
  <2>1. /\ Doing(c, "wait", s) /\ call' = [call EXCEPT ![c] = Idle] /\ SetResult(c)
        /\ UNCHANGED <<scope, events>>
    BY <1>4 DEF Lock, Returns
  <2>2. call[c].at = "wait" /\ call[c].of = s
    BY <2>1, CallTypes DEF Doing, At
  <2> QED BY <1>0, <2>1, <2>2, LockWaits
<1>5. CASE Lock(c, s) /\ ~scope[s].recorded
  <2> DEFINE v == At("sync", s)
  <2>1. /\ Doing(c, "wait", s) /\ LockFree(s) /\ call' = [call EXCEPT ![c] = v]
        /\ scope' = [scope EXCEPT ![s].lock = c] /\ UNCHANGED <<events, future>>
    BY <1>5 DEF Lock, Does
  <2>2. call[c].at = "wait" /\ call[c].of = s /\ v.at = "sync" /\ v.of = s
    BY <2>1, CallTypes DEF Doing, At
  <2>3. /\ scope' \in [Scopes -> ScopeObject] /\ \A r \in Scopes \ {s} : scope'[r] = scope[r]
        /\ scope'[s].state = scope[s].state /\ scope'[s].lock = c
    <3> DEFINE q == [scope[s] EXCEPT !.lock = c]
    <3>1. q \in ScopeObject /\ q.state = scope[s].state /\ q.lock = c
      BY <1>0, <1>2 DEF ScopeObject
    <3>2. scope' = [scope EXCEPT ![s] = q]
      BY <2>1
    <3> HIDE DEF q
    <3> QED BY <1>3, <3>1, <3>2
  <2> HIDE DEF v
  <2> QED BY <2>1, <2>2, <2>3, LockWaits
<1>6. CASE Synchronize(c, s)
  <2> DEFINE v == At("write", s)
  <2>1. /\ Doing(c, "sync", s) /\ call' = [call EXCEPT ![c] = v]
        /\ UNCHANGED <<scope, events, future>>
    BY <1>6 DEF Synchronize, Does
  <2>2. call[c].at = "sync" /\ call[c].of = s /\ v.at = "write" /\ v.of = s
    BY <2>1, CallTypes DEF Doing, At
  <2>3. scope[s].lock = c
    BY <2>1, Involved
  <2> HIDE DEF v
  <2> QED BY <1>0, <2>1, <2>2, <2>3, LockWaits
<1>7. CASE Write(c, s)
  <2>1. /\ Doing(c, "write", s) /\ call' = [call EXCEPT ![c] = Idle] /\ SetResult(c)
        /\ scope' = [scope EXCEPT ![s].recorded = TRUE, ![s].lock = NoCaller] /\ UNCHANGED events
    BY <1>7 DEF Write, Returns
  <2>2. call[c].at = "write" /\ call[c].of = s
    BY <2>1, CallTypes DEF Doing, At
  <2>3. scope' = [scope EXCEPT ![s] = [scope[s] EXCEPT !.recorded = TRUE, !.lock = NoCaller]]
    BY <1>0, <1>2, <2>1 DEF ScopeObject
  <2>4. /\ scope' \in [Scopes -> ScopeObject] /\ \A r \in Scopes \ {s} : scope'[r] = scope[r]
        /\ scope'[s].state = scope[s].state /\ scope'[s].lock = NoCaller
    <3> DEFINE p == [scope[s] EXCEPT !.recorded = TRUE]
               q == [scope[s] EXCEPT !.recorded = TRUE, !.lock = NoCaller]
    <3>1. p \in ScopeObject /\ p.state = scope[s].state
      BY <1>2 DEF ScopeObject
    <3>2. q \in ScopeObject /\ q.state = scope[s].state /\ q.lock = NoCaller
      BY <1>2, <3>1 DEF ScopeObject
    <3> HIDE DEF q
    <3>3. scope' = [scope EXCEPT ![s] = q]
      BY <2>3 DEF q
    <3> QED BY <1>3, <3>2, <3>3
  <2> QED BY <2>1, <2>2, <2>4, LockWaits
<1>8. CASE WaitFails(c, s)
  <2>1. /\ Doing(c, "sync", s) \/ Doing(c, "write", s)
        /\ call' = [call EXCEPT ![c] = Idle] /\ SetException(c)
        /\ scope' = [scope EXCEPT ![s].lock = NoCaller] /\ UNCHANGED events
    BY <1>8 DEF WaitFails, Raises
  <2>2. call[c].at \in {"sync", "write"} /\ call[c].of = s
    BY <2>1, CallTypes DEF Doing, At
  <2>3. /\ scope' \in [Scopes -> ScopeObject] /\ \A r \in Scopes \ {s} : scope'[r] = scope[r]
        /\ scope'[s].state = scope[s].state /\ scope'[s].lock = NoCaller
    <3> DEFINE q == [scope[s] EXCEPT !.lock = NoCaller]
    <3>1. q \in ScopeObject /\ q.state = scope[s].state /\ q.lock = NoCaller
      BY <1>0, <1>2 DEF ScopeObject
    <3>2. scope' = [scope EXCEPT ![s] = q]
      BY <2>1
    <3> HIDE DEF q
    <3> QED BY <1>3, <3>1, <3>2
  <2> QED BY <2>1, <2>2, <2>3, LockWaits
<1> QED BY <1>1, <1>4, <1>5, <1>6, <1>7, <1>8, StoreFutureWaits, StartWaits

LEMMA InitWaits == Init => WaitsFollow
<1> SUFFICES ASSUME Init PROVE WaitsFollow
  OBVIOUS
<1>1. /\ \A c \in Callers : call[c].at = "idle"
      /\ \A o \in Observers : future[o] = "none" /\ o \in Callers
  BY CallTypes, Bounds DEF Init
<1>2. \A s \in HipScopes : scope[s].lock = NoCaller /\ scope[s].state = "new"
  BY Bounds DEF Init, NewScope
<1> QED BY <1>1, <1>2 DEF WaitsFollow, ObserversWait, StartsFollow, LocksHeld, FinishRecorded

LEMMA StepWaits == ASSUME Inv, WaitsFollow, [Next]_vars PROVE WaitsFollow'
<1>1. CASE \/ UNCHANGED vars \/ \E t \in Tasks : Launch(t)
           \/ \E t, u \in Tasks, h \in Threads : Spawn(t, u, h)
  <2>1. UNCHANGED <<scope, events, call, future>>
    BY <1>1 DEF vars, completion, Launch, Spawn
  <2> QED BY <2>1 DEF WaitsFollow, ObserversWait, StartsFollow, LocksHeld, Holds, FinishRecorded
<1>2. ASSUME NEW t \in Tasks, NEW s \in Scopes, NEW a \in BOOLEAN, NEW b \in BOOLEAN,
             \/ Enter(t, s, a) \/ EnterFails(t, s, a, b)
             \/ Exit(t, s, a, b) \/ HipExit(t, s, a, b) \/ HipExitFails(t, s, a)
      PROVE  WaitsFollow'
  BY <1>2, TaskStepWaits
<1>3. ASSUME NEW s \in HipScopes, Finish(s) PROVE WaitsFollow'
  BY <1>3, EventWaits DEF Finish
<1>4. ASSUME NEW s \in HipScopes, NEW u \in Running, Close(u, s) PROVE WaitsFollow'
  BY <1>4, EventWaits DEF Close
<1>5. ASSUME NEW s \in HipScopes, NEW u \in Running,
             Wait(u, s) \/ Poll(u, s) \/ PollEnds(u, s) \/ Observe(u, s)
      PROVE  WaitsFollow'
  <2>1. call[u].at \in {"idle", "poll"} /\ UNCHANGED <<scope, events, future>>
    BY <1>5 DEF Wait, Poll, PollEnds, Observe, Doing, At, Idle
  <2>2. \E v : call' = [call EXCEPT ![u] = v] /\ v.at # "start"
    BY <1>5, CallTypes DEF Wait, Poll, PollEnds, Observe, Does
  <2>3. u \in Threads
    BY RunningThreads DEF Inv
  <2> QED BY <2>1, <2>2, <2>3, ThreadWaits
<1>6. ASSUME NEW c \in Callers, Progress(c) PROVE WaitsFollow'
  BY <1>6, ProgressWaits
<1> QED BY <1>1, <1>2, <1>3, <1>4, <1>5, <1>6 DEF Next

\* As long as a future that observe_async() returned is under way, somebody can go on: a
\* caller that has stored it and has yet to start its thread, and then its scope has a
\* finish event to come or a thread that can complete it.  The lock of a scope is always
\* with a thread that will give it back, and nobody waits on a closed or unrecorded event.
\* (The future of a thread that did not start is not under way: nobody completes it.)
THEOREM CompletionNeverSticks == Spec => []FutureMoves
BY InitWaits, StepWaits, WaitsMove, Invariant, PTL DEF Spec
=============================================================================
