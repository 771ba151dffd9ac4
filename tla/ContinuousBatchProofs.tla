----------------------- MODULE ContinuousBatchProofs ------------------------
(***************************************************************************)
(* Theorems about ContinuousBatch, for every number of requests and slots, *)
(* every capacity, workload and set of faults.                             *)
(***************************************************************************)
EXTENDS ContinuousBatch, FiniteSetTheorems, NaturalsInduction, WellFoundedInduction,
        SequenceTheorems, TLAPS

-----------------------------------------------------------------------------
(* Least and greatest elements, and ranks.                                 *)

\* Every non-empty set of naturals has a least element, which Min denotes.
LEMMA MinOfNaturals ==
  ASSUME NEW T, T \subseteq Nat, T # {}
  PROVE  Min(T) \in T /\ \A y \in T : Min(T) <= y
<1>1. PICK x \in T : \A y \in T : ~ (<<y, x>> \in OpToRel(<, Nat))
  BY NatLessThanWellFounded, WFMin
<1>2. ASSUME NEW y \in T PROVE ~ (y < x)
  <2>1. y < x => <<y, x>> \in OpToRel(<, Nat)
    <3>1. ASSUME y < x PROVE <<y, x>> \in {ss \in Nat \X Nat : ss[1] < ss[2]}
      BY <3>1
    <3> QED BY <3>1, Zenon DEF OpToRel
  <2> QED BY <1>1, <2>1, Zenon
<1>3. \A y \in T : x <= y
  <2> TAKE y \in T
  <2>1. ~ (y < x)
    BY <1>2
  <2>2. x \in Nat /\ y \in Nat
    OBVIOUS
  <2> QED BY <2>1, <2>2
<1> DEFINE Least(z) == z \in T /\ \A y \in T : z <= y
<1>4. Least(x) BY <1>3
<1>5. Least(CHOOSE z : Least(z)) BY <1>4, Zenon
<1> QED
  BY <1>5 DEF Min

\* A non-empty set of naturals with an upper bound has a greatest element, which
\* Max denotes.
LEMMA MaxOfBounded ==
  ASSUME NEW T, T \subseteq Nat, T # {}, NEW b \in Nat, \A y \in T : y <= b
  PROVE  Max(T) \in T /\ \A y \in T : y <= Max(T)
<1> DEFINE Bounds == {m \in Nat : \A y \in T : y <= m}
<1>1. Min(Bounds) \in Bounds /\ \A m \in Bounds : Min(Bounds) <= m
  <2>1. Bounds \subseteq Nat /\ b \in Bounds
    OBVIOUS
  <2> QED BY <2>1, MinOfNaturals
<1> DEFINE m == Min(Bounds)
<1> HIDE DEF m
<1>2. m \in Nat /\ \A y \in T : y <= m
  BY <1>1 DEF m
<1>3. m \in T
  <2> SUFFICES ASSUME m \notin T PROVE FALSE
    OBVIOUS
  <2>1. \A y \in T : y <= m - 1
    BY <1>2
  <2>2. m - 1 \in Nat
    <3>1. PICK y \in T : TRUE
      OBVIOUS
    <3> QED BY <1>2, <2>1, <3>1
  <2>3. m - 1 \in Bounds
    BY <2>1, <2>2
  <2>4. m <= m - 1
    BY <1>1, <2>3 DEF m
  <2> QED BY <1>2, <2>4
<1> QED
  BY <1>2, <1>3 DEF Max

\* In a finite set of integers no two elements have the same rank.
LEMMA RankInjective ==
  ASSUME NEW S, IsFiniteSet(S), S \subseteq Int, NEW x \in S, NEW y \in S,
         Rank(x, S) = Rank(y, S)
  PROVE  x = y
<1>1. ASSUME NEW u \in S, NEW v \in S, u < v PROVE Rank(u, S) < Rank(v, S)
  <2> DEFINE U == {z \in S : z < u}
             V == {z \in S : z < v}
  <2>1. IsFiniteSet(V) /\ IsFiniteSet(U)
    BY FS_Subset
  <2>2. U \in SUBSET V
    <3> SUFFICES ASSUME NEW z \in S, z < u PROVE z < v
      OBVIOUS
    <3>1. z \in Int /\ u \in Int /\ v \in Int
      OBVIOUS
    <3> QED BY <1>1, <3>1
  <2>3. u \in V /\ u \notin U
    BY <1>1
  <2>4. Cardinality(U) <= Cardinality(V) /\ Cardinality(U) # Cardinality(V)
    BY <2>1, <2>2, <2>3, FS_Subset
  <2>5. Cardinality(U) \in Nat /\ Cardinality(V) \in Nat
    BY <2>1, FS_CardinalityType
  <2> QED BY <2>4, <2>5 DEF Rank
<1>2. Rank(x, S) \in Nat
  <2>1. IsFiniteSet({z \in S : z < x})
    BY FS_Subset
  <2> QED BY <2>1, FS_CardinalityType DEF Rank
<1> QED
  BY <1>1, <1>2

-----------------------------------------------------------------------------
(* The inductive invariant.                                                *)

\* submit() let in only requests that fit; an active request has not got all its
\* tokens yet, and a pending one has none.
RequestsFit ==
  \A r \in Requests :
    /\ cfg[r].prompt + cfg[r].maxNew <= Capacity
    /\ r \in Active => Len(generated[r]) < cfg[r].maxNew
    /\ state[r] \in {"Absent", "PendingPrefill"} => generated[r] = <<>>

\* Before the decode every row left has one token that is not in the cache.
TokenToDecode ==
  phase = "decode" =>
    \A s \in Occupied : position[s] < cfg[slots[s]].prompt + Len(generated[slots[s]])

Inv == TypeOK /\ SlotMapConsistent /\ RowsFollowRequests /\ RequestsFit /\ TokenToDecode

LEMMA FiniteSets ==
  /\ IsFiniteSet(Requests) /\ IsFiniteSet(Slots)
  /\ \A S : S \subseteq Requests \/ S \subseteq Slots =>
       IsFiniteSet(S) /\ Cardinality(S) \in Nat
<1>1. IsFiniteSet(Requests) /\ IsFiniteSet(Slots)
  BY ConstantsAssumption, FS_Interval DEF Requests, Slots
<1> QED
  BY <1>1, FS_Subset, FS_CardinalityType

LEMMA ConfigTypes ==
  ASSUME TypeOK
  PROVE  \A r \in Requests : /\ cfg[r].prompt \in Nat /\ cfg[r].maxNew \in Nat
                            /\ Len(generated[r]) \in Nat
<1> SUFFICES ASSUME NEW r \in Requests
             PROVE  /\ cfg[r].prompt \in Nat /\ cfg[r].maxNew \in Nat
                    /\ Len(generated[r]) \in Nat
  OBVIOUS
<1>1. cfg[r] \in Configs \/ cfg[r] = NoConfig
  BY ConstantsAssumption DEF TypeOK
<1>2. cfg[r].prompt \in Nat /\ cfg[r].maxNew \in Nat
  BY <1>1 DEF Configs, NoConfig
<1>3. generated[r] \in Seq([seen : Nat, draw : Nat])
  BY DEF TypeOK
<1> QED
  BY <1>2, <1>3, LenProperties

LEMMA CountersStep ==
  ASSUME NEW m \in Counters, NEW i \in Nat, NEW j \in Nat
  PROVE  /\ [m EXCEPT !.completed = @ + i] \in Counters
         /\ [m EXCEPT !.completed = @ + 1] \in Counters
         /\ [m EXCEPT !.cancelled = @ + 1] \in Counters
         /\ [m EXCEPT !.admissions = @ + i, !.refills = @ + j] \in Counters
<1>1. /\ m.completed + i \in Nat /\ m.completed + 1 \in Nat /\ m.cancelled + 1 \in Nat
      /\ m.admissions + i \in Nat /\ m.refills + j \in Nat
  BY DEF Counters
<1> QED
  BY <1>1 DEF Counters

\* The longest row is as long as some row.
LEMMA MaxPositionType ==
  ASSUME NEW p \in [Slots -> Nat], NEW b \in Nat, \A s \in Slots : p[s] <= b
  PROVE  MaxPosition(p) \in Nat
<1> DEFINE T == {p[s] : s \in Slots}
<1>1. T \subseteq Nat /\ \A y \in T : y <= b
  OBVIOUS
<1>2. 0 \in Slots
  BY ConstantsAssumption DEF Slots
<1>3. T # {}
  BY <1>2
<1>4. Max(T) \in T
  BY <1>1, <1>3, MaxOfBounded
<1> QED
  BY <1>1, <1>4 DEF MaxPosition

LEMMA MaxOfTwo ==
  ASSUME NEW x \in Nat, NEW y \in Nat
  PROVE  Max({x, y}) \in Nat
<1> DEFINE T == {x, y}
<1>1. T \subseteq Nat /\ T # {} /\ x + y \in Nat /\ \A z \in T : z <= x + y
  OBVIOUS
<1>2. Max(T) \in T
  <2> HIDE DEF T
  <2> QED BY <1>1, MaxOfBounded
<1> QED
  BY <1>1, <1>2

\* No row is longer than the capacity submit() checked.
LEMMA PositionsBounded ==
  ASSUME Inv
  PROVE  \A s \in Slots : position[s] \in Nat /\ position[s] <= Capacity
<1> SUFFICES ASSUME NEW s \in Slots PROVE position[s] \in Nat /\ position[s] <= Capacity
  OBVIOUS
<1>1. position[s] \in Nat
  BY DEF Inv, TypeOK
<1>2. CASE s \in Free
  BY <1>2, ConstantsAssumption DEF Inv, RowsFollowRequests
<1>3. CASE s \in Occupied
  <2>1. slots[s] \in Requests /\ slots[s] \in Active
    BY <1>3 DEF Inv, SlotMapConsistent, Decoding, Active
  <2>2. position[s] <= cfg[slots[s]].prompt + Len(generated[slots[s]])
    BY <1>3 DEF Inv, RowsFollowRequests
  <2>3. Len(generated[slots[s]]) < cfg[slots[s]].maxNew
    BY <2>1 DEF Inv, RequestsFit
  <2>4. cfg[slots[s]].prompt + cfg[slots[s]].maxNew <= Capacity
    BY <2>1 DEF Inv, RequestsFit
  <2>5. /\ cfg[slots[s]].prompt \in Nat /\ cfg[slots[s]].maxNew \in Nat
        /\ Len(generated[slots[s]]) \in Nat
    BY <2>1, ConfigTypes DEF Inv
  <2> QED
    BY <1>1, <2>2, <2>3, <2>4, <2>5, ConstantsAssumption
<1> QED
  BY <1>2, <1>3 DEF Free

LEMMA GrownPrefixType ==
  ASSUME Inv
  PROVE  GrownPrefix \in Nat
<1>1. MaxPosition(position) \in Nat
  BY PositionsBounded, MaxPositionType, ConstantsAssumption DEF Inv, TypeOK
<1>2. MaxPosition(position) + 1 \in Nat
  BY <1>1
<1>3. prefix \in Nat
  BY DEF Inv, TypeOK
<1>4. Max({prefix, MaxPosition(position) + 1}) \in Nat
  BY <1>2, <1>3, MaxOfTwo
<1> QED
  BY <1>4 DEF GrownPrefix

\* Releasing requests empties exactly their rows.
LEMMA ReleaseEmptiesRows ==
  ASSUME Inv, NEW rs \in SUBSET Requests, ReleaseSlots(rs)
  PROVE  /\ slots' = [s \in Slots |-> IF slots[s] \in rs THEN NoRequest ELSE slots[s]]
         /\ slotOf' = [r \in Requests |-> IF r \in rs THEN NoSlot ELSE slotOf[r]]
         /\ position' = [s \in Slots |-> IF slots[s] \in rs THEN 0 ELSE position[s]]
         /\ prefix' \in Nat
         /\ storage' = storage
<1> DEFINE rows == {slotOf[r] : r \in rs} \ {NoSlot}
<1>1. \A s \in Slots : s \in rows <=> slots[s] \in rs
  <2> SUFFICES ASSUME NEW s \in Slots PROVE s \in rows <=> slots[s] \in rs
    OBVIOUS
  <2>1. ASSUME s \in rows PROVE slots[s] \in rs
    <3>1. PICK r \in rs : s = slotOf[r] /\ s # NoSlot
      BY <2>1
    <3>2. r \in Decoding
      BY <3>1 DEF Inv, SlotMapConsistent
    <3> QED
      BY <3>1, <3>2 DEF Inv, SlotMapConsistent
  <2>2. ASSUME slots[s] \in rs PROVE s \in rows
    <3>1. s \in Occupied
      BY <2>2 DEF Occupied, NoRequest, Requests
    <3>2. slotOf[slots[s]] = s
      BY <3>1 DEF Inv, SlotMapConsistent
    <3>3. s # NoSlot
      BY DEF Slots, NoSlot
    <3> QED
      BY <2>2, <3>2, <3>3
  <2> QED
    BY <2>1, <2>2
<1>2. ResetRows(rows)
  BY DEF ReleaseSlots
<1>3. position' = [s \in Slots |-> IF slots[s] \in rs THEN 0 ELSE position[s]]
  BY <1>1, <1>2 DEF ResetRows
<1>4. prefix' \in Nat
  <2>1. \A s \in Slots : position'[s] \in Nat /\ position'[s] <= Capacity
    BY <1>3, PositionsBounded, ConstantsAssumption
  <2>2. position' \in [Slots -> Nat]
    BY <1>3, <2>1
  <2>3. MaxPosition(position') \in Nat
    BY <2>1, <2>2, MaxPositionType, ConstantsAssumption
  <2> QED
    BY <1>2, <2>3 DEF ResetRows, Inv, TypeOK
<1> QED
  BY <1>1, <1>2, <1>3, <1>4 DEF ReleaseSlots, ResetRows

-----------------------------------------------------------------------------
(* Each action preserves the invariant.                                    *)

LEMMA InitInv == Init => Inv
<1> SUFFICES ASSUME Init PROVE Inv
  OBVIOUS
<1>1. TypeOK
  BY ConstantsAssumption
  DEF Init, TypeOK, NoLogits, NoConfig, DrawCap, Counters
<1>2. SlotMapConsistent
  BY DEF Init, SlotMapConsistent, Occupied, Decoding
<1>3. RowsFollowRequests
  BY DEF Init, RowsFollowRequests, Free, Occupied
<1>4. RequestsFit
  BY ConstantsAssumption DEF Init, RequestsFit, Active, Pending, Decoding, NoConfig
<1>5. TokenToDecode
  BY DEF Init, TokenToDecode
<1> QED
  BY <1>1, <1>2, <1>3, <1>4, <1>5 DEF Inv

LEMMA SubmitInv ==
  ASSUME Inv, NEW r \in Requests, NEW c \in Workload, Submit(r, c)
  PROVE  Inv'
<1>1. c.prompt \in Nat /\ c.maxNew \in Nat /\ c.prompt + c.maxNew <= Capacity
  BY ConstantsAssumption DEF Configs, Submit, Fits
<1>2. Occupied' = Occupied /\ Free' = Free /\ Decoding' = Decoding
  BY DEF Inv, TypeOK, Submit, Occupied, Free, Decoding, requestVars
<1>3. r \notin Decoding /\ generated[r] = <<>>
  BY DEF Inv, RequestsFit, Submit, Decoding
<1>4. TypeOK'
  <2>1. metrics' \in Counters
    BY CountersStep DEF Inv, TypeOK, Submit
  <2> QED
    BY <2>1 DEF Inv, TypeOK, Submit, cacheVars
<1>5. SlotMapConsistent'
  BY <1>2 DEF Inv, SlotMapConsistent, Submit
<1>6. RowsFollowRequests'
  <2>1. \A s \in Occupied : slots[s] # r
    BY <1>3 DEF Inv, SlotMapConsistent
  <2> QED
    BY <1>2, <2>1 DEF Inv, TypeOK, RowsFollowRequests, Submit, cacheVars
<1>7. RequestsFit'
  <2> SUFFICES ASSUME NEW q \in Requests
               PROVE  /\ cfg'[q].prompt + cfg'[q].maxNew <= Capacity
                      /\ q \in Active' => Len(generated'[q]) < cfg'[q].maxNew
                      /\ state'[q] \in {"Absent", "PendingPrefill"} => generated'[q] = <<>>
    BY DEF RequestsFit
  <2>1. CASE q # r
    <3>1. cfg'[q] = cfg[q] /\ state'[q] = state[q] /\ generated' = generated
      BY <2>1 DEF Inv, TypeOK, Submit
    <3> QED
      BY <3>1 DEF Inv, RequestsFit, Active, Pending, Decoding
  <2>2. CASE q = r
    <3>1. cfg'[r] = c /\ generated' = generated
      BY DEF Inv, TypeOK, Submit
    <3>2. c.maxNew = 0 => r \notin Active'
      BY DEF Inv, TypeOK, Submit, Active, Pending, Decoding
    <3>3. Len(<<>>) = 0
      OBVIOUS
    <3> QED
      BY <1>1, <1>3, <2>2, <3>1, <3>2, <3>3
  <2> QED
    BY <2>1, <2>2
<1>8. TokenToDecode'
  BY DEF Submit, TokenToDecode
<1> QED
  BY <1>4, <1>5, <1>6, <1>7, <1>8 DEF Inv

LEMMA CancelInv ==
  ASSUME Inv, NEW r \in Requests, Cancel(r)
  PROVE  Inv'
<1>1. ReleaseSlots({r}) /\ {r} \in SUBSET Requests
  BY DEF Cancel
<1>2. /\ slots' = [s \in Slots |-> IF slots[s] \in {r} THEN NoRequest ELSE slots[s]]
      /\ slotOf' = [q \in Requests |-> IF q \in {r} THEN NoSlot ELSE slotOf[q]]
      /\ position' = [s \in Slots |-> IF slots[s] \in {r} THEN 0 ELSE position[s]]
      /\ prefix' \in Nat
      /\ storage' = storage
  BY <1>1, ReleaseEmptiesRows
<1>3. Decoding' = Decoding \ {r}
  BY DEF Inv, TypeOK, Cancel, Decoding
<1>4. Occupied' = {s \in Occupied : slots[s] # r} /\ Free' = Slots \ Occupied'
  BY <1>2 DEF Occupied, Free, NoRequest, Requests
<1>5. TypeOK'
  <2>1. metrics' \in Counters
    BY CountersStep DEF Inv, TypeOK, Cancel
  <2> QED
    BY <1>2, <2>1 DEF Inv, TypeOK, Cancel
<1>6. SlotMapConsistent'
  <2>1. ASSUME NEW s \in Occupied'
        PROVE  slots'[s] \in Decoding' /\ slotOf'[slots'[s]] = s
    <3>1. s \in Occupied /\ s \in Slots /\ slots[s] # r /\ slots'[s] = slots[s]
      BY <1>2, <1>4 DEF Occupied
    <3>2. slots[s] \in Decoding /\ slotOf[slots[s]] = s /\ slots[s] \in Requests
      BY <3>1 DEF Inv, SlotMapConsistent, Decoding
    <3> QED
      BY <1>2, <1>3, <3>1, <3>2
  <2>2. ASSUME NEW q \in Decoding'
        PROVE  slotOf'[q] \in Slots /\ slots'[slotOf'[q]] = q
    <3>1. q \in Decoding /\ q \in Requests /\ q # r
      BY <1>3 DEF Decoding
    <3>2. slotOf[q] \in Slots /\ slots[slotOf[q]] = q
      BY <3>1 DEF Inv, SlotMapConsistent
    <3> QED
      BY <1>2, <3>1, <3>2
  <2>3. ASSUME NEW q \in Requests \ Decoding' PROVE slotOf'[q] = NoSlot
    BY <1>2, <1>3 DEF Inv, SlotMapConsistent
  <2> QED
    BY <2>1, <2>2, <2>3 DEF SlotMapConsistent
<1>7. RowsFollowRequests'
  <2>1. ASSUME NEW s \in Free' PROVE position'[s] = 0
    BY <1>2, <1>4 DEF Inv, RowsFollowRequests, Free
  <2>2. ASSUME NEW s \in Occupied'
        PROVE  /\ slots'[s] = slots[s] /\ position'[s] = position[s] /\ s \in Occupied
    BY <1>2, <1>4 DEF Occupied
  <2> QED
    BY <2>1, <2>2 DEF Inv, RowsFollowRequests, Cancel
<1>8. RequestsFit'
  BY DEF Inv, TypeOK, RequestsFit, Cancel, Active, Pending, Decoding
<1>9. TokenToDecode'
  BY DEF Cancel, TokenToDecode
<1> QED
  BY <1>5, <1>6, <1>7, <1>8, <1>9 DEF Inv

\* StepBegin and AdmitDone change nothing but the phase.
LEMMA PhaseOnlyInv ==
  ASSUME Inv, StepBegin \/ AdmitDone
  PROVE  Inv'
<1>1. /\ UNCHANGED <<requestVars, slots, everUsed, cacheVars, logits, metrics, faults>>
      /\ phase' \in {"idle", "admit", "select"}
  BY DEF StepBegin, AdmitDone
<1>2. /\ UNCHANGED <<state, reason, cfg, generated, slotOf, draws>>
      /\ UNCHANGED <<position, storage, prefix>>
  BY <1>1 DEF requestVars, cacheVars
<1>3. TypeOK'
  BY <1>1, <1>2 DEF Inv, TypeOK
<1>4. Occupied' = Occupied /\ Free' = Free /\ Decoding' = Decoding /\ Active' = Active
  BY <1>1, <1>2 DEF Occupied, Free, Decoding, Active, Pending
<1>5. SlotMapConsistent' /\ RowsFollowRequests' /\ RequestsFit'
  BY <1>1, <1>2, <1>4 DEF Inv, SlotMapConsistent, RowsFollowRequests, RequestsFit
<1>6. TokenToDecode'
  BY <1>1 DEF TokenToDecode
<1> QED
  BY <1>3, <1>5, <1>6 DEF Inv

\* A batch takes pending requests of one prompt length that fits, and each of its
\* rows gets a request of its own.
LEMMA AdmissionIsInjective ==
  ASSUME Inv, Pending # {}
  PROVE  /\ PromptLength \in Nat /\ PromptLength <= Capacity
         /\ \A s \in AdmittedRows :
              /\ s \in Free
              /\ RequestFor(s) \in Pending /\ cfg[RequestFor(s)].prompt = PromptLength
         /\ \A s, t \in AdmittedRows : RequestFor(s) = RequestFor(t) => s = t
<1>1. Min(Pending) \in Pending
  <2>1. Pending \subseteq Nat
    BY DEF Pending, Requests
  <2> QED
    BY <2>1, MinOfNaturals
<1>2. PromptLength \in Nat /\ PromptLength <= Capacity
  <2> DEFINE first == Min(Pending)
  <2> HIDE DEF first
  <2>1. first \in Requests
    BY <1>1 DEF Pending, first
  <2>2. cfg[first].prompt \in Nat /\ cfg[first].maxNew \in Nat
    BY <2>1, ConfigTypes DEF Inv
  <2>3. cfg[first].prompt + cfg[first].maxNew <= Capacity
    BY <2>1 DEF Inv, RequestsFit
  <2>4. cfg[first].prompt <= Capacity
    BY <2>2, <2>3, ConstantsAssumption
  <2> QED
    BY <2>2, <2>4 DEF PromptLength, first
<1>3. ASSUME NEW s \in AdmittedRows
      PROVE  s \in Free /\ RequestFor(s) \in SameLength /\ Assigned(RequestFor(s), s)
  <2>1. PICK r \in SameLength : Assigned(r, s)
    BY <1>3 DEF AdmittedRows
  <2> QED
    BY <1>3, <2>1 DEF AdmittedRows, RequestFor
<1>4. ASSUME NEW s \in AdmittedRows, NEW t \in AdmittedRows, RequestFor(s) = RequestFor(t)
      PROVE  s = t
  <2>1. Rank(s, Free) = Rank(t, Free)
    BY <1>3, <1>4 DEF Assigned
  <2>2. IsFiniteSet(Free) /\ Free \subseteq Int
    BY FiniteSets DEF Free, Slots
  <2> QED
    BY <1>3, <2>1, <2>2, RankInjective
<1> QED
  BY <1>2, <1>3, <1>4 DEF SameLength

LEMMA AdmitBatchInv ==
  ASSUME Inv, AdmitBatch
  PROVE  Inv'
<1> DEFINE row(r) == CHOOSE s \in AdmittedRows : RequestFor(s) = r
<1>1. /\ PromptLength \in Nat /\ PromptLength <= Capacity
      /\ \A s \in AdmittedRows :
           /\ s \in Free
           /\ RequestFor(s) \in Pending /\ cfg[RequestFor(s)].prompt = PromptLength
      /\ \A s, t \in AdmittedRows : RequestFor(s) = RequestFor(t) => s = t
  BY AdmissionIsInjective DEF AdmitBatch
<1>2. \A s \in AdmittedRows :
        /\ s \in Slots /\ slots[s] = NoRequest /\ RequestFor(s) \in Requests
        /\ RequestFor(s) \in AdmittedRequests /\ row(RequestFor(s)) = s
  BY <1>1 DEF Free, Occupied, Pending, AdmittedRequests
<1>3. \A r \in AdmittedRequests :
        /\ r \in Requests /\ state[r] = "PendingPrefill"
        /\ row(r) \in AdmittedRows /\ RequestFor(row(r)) = r
  BY <1>1, <1>2 DEF AdmittedRequests, Pending
<1>4. /\ slots' = [s \in Slots |-> IF s \in AdmittedRows THEN RequestFor(s) ELSE slots[s]]
      /\ slotOf' = [r \in Requests |-> IF r \in AdmittedRequests THEN row(r) ELSE slotOf[r]]
      /\ state' = [r \in Requests |-> IF r \in AdmittedRequests THEN "Decoding" ELSE state[r]]
      /\ position' = [s \in Slots |-> IF s \in AdmittedRows THEN PromptLength ELSE position[s]]
      /\ phase = "admit" /\ phase' = phase
      /\ UNCHANGED <<reason, cfg, generated, draws, faults>>
  BY DEF AdmitBatch
<1> HIDE DEF row
<1>5. Decoding' = Decoding \cup AdmittedRequests
  BY <1>3, <1>4 DEF Decoding
<1>6. Occupied' = Occupied \cup AdmittedRows /\ Free' = Free \ AdmittedRows
  <2>1. NoRequest \notin Requests
    BY DEF NoRequest, Requests
  <2> QED
    BY <1>2, <1>4, <2>1 DEF Occupied, Free
<1>7. /\ logits' \in [Slots -> [seen : Nat, finite : BOOLEAN]]
      /\ \A s \in AdmittedRows : logits'[s].seen = 0
      /\ \A s \in Occupied : logits'[s] = logits[s]
  <2>1. PICK nonfinite \in SUBSET AdmittedRows :
          logits' = [s \in Slots |-> IF s \in AdmittedRows
                                     THEN [seen |-> 0, finite |-> s \notin nonfinite]
                                     ELSE logits[s]]
    BY DEF AdmitBatch
  <2>2. \A s \in Occupied : s \in Slots /\ s \notin AdmittedRows
    BY <1>1 DEF Free, Occupied
  <2> QED
    BY <1>2, <2>1, <2>2 DEF Inv, TypeOK
<1>8. TypeOK'
  <2>1. prefix' \in Nat
    <3>1. MaxPosition(position) \in Nat
      BY PositionsBounded, MaxPositionType, ConstantsAssumption DEF Inv, TypeOK
    <3> QED
      BY <1>1, <3>1, MaxOfTwo DEF AdmitBatch
  <2>2. metrics' \in Counters
    <3>1. AdmittedRows \subseteq Slots /\ AdmittedRows \cap everUsed \subseteq Slots
      BY <1>2
    <3>2. Cardinality(AdmittedRows) \in Nat /\ Cardinality(AdmittedRows \cap everUsed) \in Nat
      BY <3>1, FiniteSets
    <3> QED
      BY <3>2, CountersStep DEF AdmitBatch, Inv, TypeOK
  <2>3. position' \in [Slots -> Nat]
    BY <1>1, <1>4 DEF Inv, TypeOK
  <2>4. slots' \in [Slots -> Requests \cup {NoRequest}]
    BY <1>2, <1>4 DEF Inv, TypeOK
  <2>5. slotOf' \in [Requests -> Slots \cup {NoSlot}]
    BY <1>2, <1>3, <1>4 DEF Inv, TypeOK
  <2>6. state' \in [Requests -> {"Absent", "PendingPrefill", "Decoding", "Completed", "Cancelled"}]
    BY <1>4 DEF Inv, TypeOK
  <2>7. everUsed' \subseteq Slots /\ storage' \in {"none", "partial", "ready"}
    BY <1>2 DEF AdmitBatch, Inv, TypeOK
  <2> QED
    BY <1>4, <1>7, <2>1, <2>2, <2>3, <2>4, <2>5, <2>6, <2>7 DEF Inv, TypeOK
<1>9. SlotMapConsistent'
  <2>1. ASSUME NEW s \in Occupied'
        PROVE  slots'[s] \in Decoding' /\ slotOf'[slots'[s]] = s
    <3>1. CASE s \in AdmittedRows
      BY <1>2, <1>4, <1>5, <3>1
    <3>2. CASE s \notin AdmittedRows
      <4>1. s \in Occupied /\ s \in Slots /\ slots'[s] = slots[s]
        BY <1>4, <1>6, <3>2 DEF Occupied
      <4>2. slots[s] \in Decoding /\ slotOf[slots[s]] = s
        BY <4>1 DEF Inv, SlotMapConsistent
      <4>3. slots[s] \in Requests /\ slots[s] \notin AdmittedRequests
        BY <1>3, <4>2 DEF Decoding
      <4> QED
        BY <1>4, <1>5, <4>1, <4>2, <4>3
    <3> QED
      BY <3>1, <3>2
  <2>2. ASSUME NEW r \in Decoding'
        PROVE  slotOf'[r] \in Slots /\ slots'[slotOf'[r]] = r
    <3>1. CASE r \in AdmittedRequests
      BY <1>2, <1>3, <1>4, <3>1
    <3>2. CASE r \notin AdmittedRequests
      <4>1. r \in Decoding /\ r \in Requests /\ slotOf'[r] = slotOf[r]
        BY <1>4, <1>5, <3>2 DEF Decoding
      <4>2. slotOf[r] \in Slots /\ slots[slotOf[r]] = r
        BY <4>1 DEF Inv, SlotMapConsistent
      <4>3. slotOf[r] \notin AdmittedRows
        BY <1>2, <4>1, <4>2 DEF NoRequest, Requests
      <4> QED
        BY <1>4, <4>1, <4>2, <4>3
    <3> QED
      BY <3>1, <3>2
  <2>3. ASSUME NEW r \in Requests \ Decoding' PROVE slotOf'[r] = NoSlot
    BY <1>4, <1>5 DEF Inv, SlotMapConsistent
  <2> QED
    BY <2>1, <2>2, <2>3 DEF SlotMapConsistent
<1>10. RowsFollowRequests'
  <2>1. ASSUME NEW s \in Free' PROVE position'[s] = 0
    BY <1>4, <1>6 DEF Inv, RowsFollowRequests, Free
  <2>2. ASSUME NEW s \in Occupied'
        PROVE  /\ cfg[slots'[s]].prompt + logits'[s].seen <= position'[s]
               /\ position'[s] <= cfg[slots'[s]].prompt + Len(generated[slots'[s]])
    <3>1. CASE s \in AdmittedRows
      <4>1. /\ slots'[s] = RequestFor(s) /\ position'[s] = PromptLength
            /\ logits'[s].seen = 0 /\ cfg[RequestFor(s)].prompt = PromptLength
        BY <1>1, <1>2, <1>4, <1>7, <3>1
      <4>2. Len(generated[RequestFor(s)]) \in Nat
        BY <1>2, <3>1, ConfigTypes DEF Inv
      <4> QED
        BY <1>1, <4>1, <4>2
    <3>2. CASE s \notin AdmittedRows
      <4>1. s \in Occupied /\ s \in Slots
        BY <1>6, <3>2 DEF Occupied
      <4>2. slots'[s] = slots[s] /\ position'[s] = position[s] /\ logits'[s] = logits[s]
        BY <1>4, <1>7, <3>2, <4>1
      <4> QED
        BY <4>1, <4>2 DEF Inv, RowsFollowRequests
    <3> QED
      BY <3>1, <3>2
  <2> QED
    BY <1>4, <2>1, <2>2 DEF RowsFollowRequests
<1>11. RequestsFit'
  <2>1. \A r \in Requests : r \in Active' => r \in Active
    BY <1>3, <1>4 DEF Active, Pending, Decoding
  <2>2. \A r \in Requests : state'[r] \in {"Absent", "PendingPrefill"} => state'[r] = state[r]
    BY <1>4
  <2> QED
    BY <1>4, <2>1, <2>2 DEF Inv, RequestsFit
<1>12. TokenToDecode'
  BY <1>4 DEF TokenToDecode
<1> QED
  BY <1>8, <1>9, <1>10, <1>11, <1>12 DEF Inv

\* A prefill that throws leaves at most empty rows behind.
LEMMA AdmitFailsInv ==
  ASSUME Inv, AdmitFails
  PROVE  Inv'
<1>1. /\ phase' = "idle"
      /\ position' = [s \in Slots |-> IF s \in AdmittedRows THEN 0 ELSE position[s]]
      /\ storage' \in {storage, "ready", "partial"}
      /\ faults' \in 0..MaxFaults
      /\ UNCHANGED <<state, reason, cfg, generated, slotOf, draws, slots, everUsed, logits, metrics>>
  <2>1. faults' = faults \/ (faults < MaxFaults /\ faults' = faults + 1)
    BY DEF AdmitFails, Fail
  <2>2. faults' \in 0..MaxFaults
    BY <2>1, ConstantsAssumption DEF Inv, TypeOK
  <2> QED
    BY <2>2 DEF AdmitFails, requestVars
<1>2. \A s \in Slots : position'[s] = position[s]
  <2>1. \A s \in AdmittedRows : position[s] = 0
    BY DEF AdmittedRows, Inv, RowsFollowRequests
  <2> QED
    BY <1>1, <2>1
<1>3. position' = position
  BY <1>1, <1>2 DEF Inv, TypeOK
<1>4. TypeOK'
  <2>1. MaxPosition(position) \in Nat
    BY PositionsBounded, MaxPositionType, ConstantsAssumption DEF Inv, TypeOK
  <2>2. prefix' \in Nat
    BY <1>3, <2>1 DEF AdmitFails, Inv, TypeOK
  <2> QED
    BY <1>1, <1>3, <2>2 DEF Inv, TypeOK
<1>5. Occupied' = Occupied /\ Free' = Free /\ Decoding' = Decoding /\ Active' = Active
  BY <1>1 DEF Occupied, Free, Decoding, Active, Pending
<1>6. SlotMapConsistent' /\ RowsFollowRequests' /\ RequestsFit'
  BY <1>1, <1>3, <1>5 DEF Inv, SlotMapConsistent, RowsFollowRequests, RequestsFit
<1>7. TokenToDecode'
  BY <1>1 DEF TokenToDecode
<1> QED
  BY <1>4, <1>6, <1>7 DEF Inv

\* What a decode, whole or cut short by a failed copy, does to the rows.
LEMMA AdvanceInv ==
  ASSUME Inv, phase = "decode", phase' = "idle",
         position' = Advanced, prefix' = GrownPrefix,
         NEW rows \in SUBSET Occupied, logits' \in NewLogits(rows),
         faults' \in 0..MaxFaults,
         UNCHANGED <<requestVars, slots, everUsed, storage, metrics>>
  PROVE  Inv'
<1>1. UNCHANGED <<state, reason, cfg, generated, slotOf, draws, slots, everUsed, storage, metrics>>
  BY DEF requestVars
<1>2. /\ logits' \in [Slots -> [seen : Nat, finite : BOOLEAN]]
      /\ \A s \in Occupied : logits'[s].seen <= logits[s].seen + 1
  <2>1. PICK nonfinite \in SUBSET rows :
          logits' = [s \in Slots |->
            IF s \in rows THEN [seen |-> logits[s].seen + 1, finite |-> s \notin nonfinite]
                          ELSE logits[s]]
    BY DEF NewLogits
  <2>2. logits \in [Slots -> [seen : Nat, finite : BOOLEAN]]
    BY DEF Inv, TypeOK
  <2>3. \A s \in Slots : logits[s].seen + 1 \in Nat /\ logits[s].seen <= logits[s].seen + 1
    BY <2>2
  <2>4. \A s \in Slots : logits'[s] \in [seen : Nat, finite : BOOLEAN]
    BY <2>1, <2>2, <2>3
  <2>5. \A s \in Occupied : s \in Slots
    BY DEF Occupied
  <2> QED
    BY <2>1, <2>2, <2>3, <2>4, <2>5
<1>3. TypeOK'
  <2>2. prefix' \in Nat
    BY GrownPrefixType
  <2>3. position' \in [Slots -> Nat]
    BY DEF Advanced, Inv, TypeOK
  <2> QED
    BY <1>1, <1>2, <2>2, <2>3 DEF Inv, TypeOK
<1>4. Occupied' = Occupied /\ Free' = Free /\ Decoding' = Decoding /\ Active' = Active
  BY <1>1 DEF Occupied, Free, Decoding, Active, Pending
<1>5. SlotMapConsistent' /\ RequestsFit'
  BY <1>1, <1>4 DEF Inv, SlotMapConsistent, RequestsFit
<1>6. RowsFollowRequests'
  <2>1. ASSUME NEW s \in Free PROVE position'[s] = 0
    BY DEF Inv, RowsFollowRequests, Free, Advanced
  <2>2. ASSUME NEW s \in Occupied
        PROVE  /\ cfg[slots[s]].prompt + logits'[s].seen <= position'[s]
               /\ position'[s] <= cfg[slots[s]].prompt + Len(generated[slots[s]])
    <3>1. s \in Slots /\ slots[s] \in Requests
      BY DEF Inv, TypeOK, Occupied
    <3>2. cfg[slots[s]].prompt \in Nat /\ Len(generated[slots[s]]) \in Nat
      BY <3>1, ConfigTypes DEF Inv
    <3>3. /\ cfg[slots[s]].prompt + logits[s].seen <= position[s]
          /\ position[s] < cfg[slots[s]].prompt + Len(generated[slots[s]])
      BY DEF Inv, RowsFollowRequests, TokenToDecode
    <3>4. position'[s] = position[s] + 1 /\ position[s] \in Nat
      BY <3>1 DEF Advanced, Inv, TypeOK
    <3>5. logits[s].seen \in Nat /\ logits'[s].seen \in Nat /\ logits'[s].seen <= logits[s].seen + 1
      BY <1>2, <3>1 DEF Inv, TypeOK
    <3> DEFINE before == logits[s].seen
               after == logits'[s].seen
               prompt == cfg[slots[s]].prompt
               tokens == Len(generated[slots[s]])
    <3>6. position[s] + 1 <= prompt + tokens /\ prompt + after <= position[s] + 1
      <4> HIDE DEF before, after, prompt, tokens
      <4>1. /\ before \in Nat /\ after \in Nat /\ prompt \in Nat /\ tokens \in Nat
            /\ position[s] \in Nat
        BY <3>2, <3>4, <3>5 DEF before, after, prompt, tokens
      <4>2. after <= before + 1 /\ prompt + before <= position[s] /\ position[s] < prompt + tokens
        BY <3>3, <3>5 DEF before, after, prompt, tokens
      <4> QED
        BY <4>1, <4>2
    <3> QED
      BY <3>4, <3>6
  <2> QED
    BY <1>1, <1>4, <2>1, <2>2 DEF RowsFollowRequests
<1>7. TokenToDecode'
  BY DEF TokenToDecode
<1> QED
  BY <1>3, <1>5, <1>6, <1>7 DEF Inv

LEMMA DecodeInv ==
  ASSUME Inv, DecodeRows \/ DecodeFails \/ \E s \in Slots : CopyFails(s)
  PROVE  Inv'
<1>1. CASE DecodeRows
  <2>1. faults' \in 0..MaxFaults
    BY <1>1 DEF DecodeRows, Inv, TypeOK
  <2> QED
    BY <1>1, <2>1, AdvanceInv DEF DecodeRows
<1>2. CASE DecodeFails
  <2>1. /\ phase' = "idle"
        /\ UNCHANGED <<state, reason, cfg, generated, slotOf, draws, slots, everUsed, position,
                       storage, logits, metrics>>
    BY <1>2 DEF DecodeFails, requestVars
  <2>2. prefix' \in Nat
    BY <1>2, GrownPrefixType DEF DecodeFails, Inv, TypeOK
  <2>3. faults' \in 0..MaxFaults
    BY <1>2, ConstantsAssumption DEF DecodeFails, Fail, Inv, TypeOK
  <2>4. TypeOK'
    BY <2>1, <2>2, <2>3 DEF Inv, TypeOK
  <2>5. Occupied' = Occupied /\ Free' = Free /\ Decoding' = Decoding /\ Active' = Active
    BY <2>1 DEF Occupied, Free, Decoding, Active, Pending
  <2>6. SlotMapConsistent' /\ RowsFollowRequests' /\ RequestsFit'
    BY <2>1, <2>5 DEF Inv, SlotMapConsistent, RowsFollowRequests, RequestsFit
  <2>7. TokenToDecode'
    BY <2>1 DEF TokenToDecode
  <2> QED
    BY <2>4, <2>6, <2>7 DEF Inv
<1>3. CASE \E s \in Slots : CopyFails(s)
  <2>1. PICK s \in Slots : CopyFails(s)
    BY <1>3
  <2>2. faults' \in 0..MaxFaults
    BY <2>1, ConstantsAssumption DEF CopyFails, Fail, Inv, TypeOK
  <2> DEFINE rows == {q \in Occupied : q < s}
  <2>3. rows \in SUBSET Occupied /\ logits' \in NewLogits(rows)
    BY <2>1 DEF CopyFails
  <2> QED
    BY <2>1, <2>2, <2>3, AdvanceInv DEF CopyFails
<1> QED
  BY <1>1, <1>2, <1>3

\* Selection appends one token to the requests it reaches and releases the rows of
\* those that are done, whether or not it throws at a later row.
LEMMA SelectTokensInv ==
  ASSUME Inv, NEW stopping \in SUBSET Decoding, SelectTokens(stopping)
  PROVE  Inv'
<1> DEFINE chosen == Holders(Selected)
           done == stopping \cup Full
<1>1. /\ stopping \subseteq chosen
      /\ generated' = [r \in Requests |->
           IF r \in chosen THEN Append(generated[r], SelectedToken(r)) ELSE generated[r]]
      /\ draws' = [r \in Requests |->
           IF r \in Holders(Drawn) /\ draws[r] < DrawCap THEN draws[r] + 1 ELSE draws[r]]
      /\ state' = [r \in Requests |-> IF r \in done THEN "Completed" ELSE state[r]]
      /\ reason' = [r \in Requests |-> IF r \in stopping THEN "StopToken"
                                       ELSE IF r \in Full THEN "Length" ELSE reason[r]]
      /\ metrics' = [metrics EXCEPT !.completed = @ + Cardinality(done)]
      /\ ReleaseSlots(done)
      /\ phase' = IF Bad # {} \/ done = Holders(Occupied) THEN "idle" ELSE "decode"
      /\ UNCHANGED <<cfg, everUsed, logits, faults>>
  BY DEF SelectTokens, Ends
<1>2. /\ Selected \subseteq Occupied
      /\ Bad = {} => Selected = Occupied
  BY DEF Selected, BeforeBad
<1>3. \A r \in chosen : r \in Decoding /\ r \in Requests
  BY <1>2 DEF Holders, Inv, SlotMapConsistent, Decoding
<1>4. done \in SUBSET Requests /\ done \subseteq chosen
  BY <1>1, <1>3 DEF Full
<1> HIDE DEF chosen
<1>5. /\ slots' = [s \in Slots |-> IF slots[s] \in done THEN NoRequest ELSE slots[s]]
      /\ slotOf' = [r \in Requests |-> IF r \in done THEN NoSlot ELSE slotOf[r]]
      /\ position' = [s \in Slots |-> IF slots[s] \in done THEN 0 ELSE position[s]]
      /\ prefix' \in Nat
      /\ storage' = storage
  BY <1>1, <1>4, ReleaseEmptiesRows
<1> HIDE DEF done
<1>6. \A r \in chosen : SelectedToken(r) \in [seen : Nat, draw : Nat]
  <2> SUFFICES ASSUME NEW r \in chosen PROVE SelectedToken(r) \in [seen : Nat, draw : Nat]
    OBVIOUS
  <2>1. \E s \in Occupied : slots[s] = r
    BY <1>2 DEF chosen, Holders
  <2>2. SlotHolding(r) \in Occupied
    BY <2>1 DEF SlotHolding
  <2>3. logits[SlotHolding(r)].seen \in Nat
    BY <2>2 DEF Inv, TypeOK, Occupied
  <2>4. draws[r] \in Nat
    BY <1>3, ConstantsAssumption DEF Inv, TypeOK, DrawCap
  <2> QED
    BY <2>3, <2>4 DEF SelectedToken
<1>7. \A r \in Requests :
        /\ generated'[r] \in Seq([seen : Nat, draw : Nat])
        /\ Len(generated'[r]) = IF r \in chosen THEN Len(generated[r]) + 1 ELSE Len(generated[r])
        /\ Len(generated[r]) \in Nat
  <2> SUFFICES ASSUME NEW r \in Requests
               PROVE  /\ generated'[r] \in Seq([seen : Nat, draw : Nat])
                      /\ Len(generated'[r]) = IF r \in chosen THEN Len(generated[r]) + 1
                                                               ELSE Len(generated[r])
                      /\ Len(generated[r]) \in Nat
    OBVIOUS
  <2>1. generated[r] \in Seq([seen : Nat, draw : Nat])
    BY DEF Inv, TypeOK
  <2>2. CASE r \in chosen
    <3>1. generated'[r] = Append(generated[r], SelectedToken(r))
      BY <1>1, <2>2
    <3> QED
      BY <1>6, <2>1, <2>2, <3>1, AppendProperties, LenProperties
  <2>3. CASE r \notin chosen
    BY <1>1, <2>1, <2>3, LenProperties
  <2> QED
    BY <2>2, <2>3
<1>8. Decoding' = Decoding \ done
  BY <1>1 DEF Decoding
<1>9. /\ Occupied' = {s \in Occupied : slots[s] \notin done}
      /\ \A s \in Occupied' : slots'[s] = slots[s] /\ position'[s] = position[s]
      /\ \A s \in Slots \ Occupied' : s \in Free \/ slots[s] \in done
  BY <1>5 DEF Occupied, Free
<1>10. TypeOK'
  <2>1. metrics' \in Counters
    <3>1. Cardinality(done) \in Nat
      BY <1>4, FiniteSets
    <3> QED
      BY <1>1, <3>1, CountersStep DEF Inv, TypeOK
  <2>2. generated' \in [Requests -> Seq([seen : Nat, draw : Nat])]
    BY <1>1, <1>7
  <2>3. draws' \in [Requests -> 0..DrawCap]
    <3>1. draws \in [Requests -> 0..DrawCap] /\ DrawCap \in Nat
      BY ConstantsAssumption DEF Inv, TypeOK, DrawCap
    <3> QED
      BY <1>1, <3>1
  <2>4. slots' \in [Slots -> Requests \cup {NoRequest}]
    BY <1>5 DEF Inv, TypeOK
  <2>5. slotOf' \in [Requests -> Slots \cup {NoSlot}]
    BY <1>5 DEF Inv, TypeOK
  <2>6. position' \in [Slots -> Nat]
    BY <1>5 DEF Inv, TypeOK
  <2>7. /\ state' \in [Requests -> {"Absent", "PendingPrefill", "Decoding", "Completed", "Cancelled"}]
        /\ reason' \in [Requests -> {"None", "Length", "StopToken", "Cancelled"}]
    BY <1>1 DEF Inv, TypeOK
  <2>8. phase' \in {"idle", "admit", "select", "decode"}
    BY <1>1
  <2> QED
    BY <1>1, <1>5, <2>1, <2>2, <2>3, <2>4, <2>5, <2>6, <2>7, <2>8 DEF Inv, TypeOK
<1>11. SlotMapConsistent'
  <2>1. ASSUME NEW s \in Occupied'
        PROVE  slots'[s] \in Decoding' /\ slotOf'[slots'[s]] = s
    <3>1. s \in Occupied /\ slots[s] \notin done /\ slots'[s] = slots[s]
      BY <1>9
    <3>2. slots[s] \in Decoding /\ slotOf[slots[s]] = s /\ slots[s] \in Requests
      BY <3>1 DEF Inv, SlotMapConsistent, Decoding
    <3> QED
      BY <1>5, <1>8, <3>1, <3>2
  <2>2. ASSUME NEW r \in Decoding'
        PROVE  slotOf'[r] \in Slots /\ slots'[slotOf'[r]] = r
    <3>1. r \in Decoding /\ r \in Requests /\ r \notin done
      BY <1>8 DEF Decoding
    <3>2. slotOf[r] \in Slots /\ slots[slotOf[r]] = r
      BY <3>1 DEF Inv, SlotMapConsistent
    <3> QED
      BY <1>5, <3>1, <3>2
  <2>3. ASSUME NEW r \in Requests \ Decoding' PROVE slotOf'[r] = NoSlot
    BY <1>5, <1>8 DEF Inv, SlotMapConsistent
  <2> QED
    BY <2>1, <2>2, <2>3 DEF SlotMapConsistent
<1>12. RowsFollowRequests'
  <2>1. ASSUME NEW s \in Free' PROVE position'[s] = 0
    <3>1. s \in Slots /\ (s \in Free \/ slots[s] \in done)
      BY <1>9 DEF Free
    <3> QED
      BY <1>5, <3>1 DEF Inv, RowsFollowRequests
  <2>2. ASSUME NEW s \in Occupied'
        PROVE  /\ cfg[slots[s]].prompt + logits[s].seen <= position[s]
               /\ position[s] <= cfg[slots[s]].prompt + Len(generated'[slots[s]])
    <3>1. s \in Occupied /\ s \in Slots /\ slots[s] \in Requests
      BY <1>9 DEF Occupied, Inv, TypeOK
    <3>2. /\ cfg[slots[s]].prompt + logits[s].seen <= position[s]
          /\ position[s] <= cfg[slots[s]].prompt + Len(generated[slots[s]])
      BY <3>1 DEF Inv, RowsFollowRequests
    <3>3. /\ Len(generated[slots[s]]) \in Nat
          /\ \/ Len(generated'[slots[s]]) = Len(generated[slots[s]]) + 1
             \/ Len(generated'[slots[s]]) = Len(generated[slots[s]])
      BY <1>7, <3>1
    <3>4. cfg[slots[s]].prompt \in Nat /\ position[s] \in Nat
      BY <3>1, ConfigTypes DEF Inv, TypeOK
    <3> QED
      BY <3>2, <3>3, <3>4
  <2> QED
    BY <1>1, <1>9, <2>1, <2>2 DEF RowsFollowRequests
<1>13. RequestsFit'
  <2> SUFFICES ASSUME NEW r \in Requests
               PROVE  /\ cfg[r].prompt + cfg[r].maxNew <= Capacity
                      /\ r \in Active' => Len(generated'[r]) < cfg[r].maxNew
                      /\ state'[r] \in {"Absent", "PendingPrefill"} => generated'[r] = <<>>
    BY <1>1 DEF RequestsFit
  <2>1. cfg[r].prompt + cfg[r].maxNew <= Capacity
    BY DEF Inv, RequestsFit
  <2>2. ASSUME r \in Active' PROVE Len(generated'[r]) < cfg[r].maxNew
    <3>1. r \in Active /\ r \notin done
      BY <1>1, <2>2 DEF Active, Pending, Decoding
    <3>2. Len(generated[r]) < cfg[r].maxNew
      BY <3>1 DEF Inv, RequestsFit
    <3>3. r \in chosen => Len(generated[r]) + 1 # cfg[r].maxNew
      BY <3>1 DEF done, Full, chosen
    <3>4. cfg[r].maxNew \in Nat
      BY ConfigTypes DEF Inv
    <3> QED
      BY <1>7, <3>2, <3>3, <3>4
  <2>3. ASSUME state'[r] \in {"Absent", "PendingPrefill"} PROVE generated'[r] = <<>>
    <3>1. state'[r] = state[r]
      BY <1>1, <2>3
    <3>2. r \notin chosen
      BY <1>3, <2>3, <3>1 DEF Decoding
    <3> QED
      BY <1>1, <2>3, <3>1, <3>2 DEF Inv, RequestsFit
  <2> QED
    BY <2>1, <2>2, <2>3
<1>14. TokenToDecode'
  <2> SUFFICES ASSUME phase' = "decode", NEW s \in Occupied'
               PROVE  position[s] < cfg[slots[s]].prompt + Len(generated'[slots[s]])
    BY <1>1, <1>9 DEF TokenToDecode
  <2>1. s \in Occupied /\ s \in Slots /\ slots[s] \in Requests
    BY <1>9 DEF Occupied, Inv, TypeOK
  <2>2. slots[s] \in chosen
    BY <1>1, <1>2, <2>1 DEF chosen, Holders
  <2>3. position[s] <= cfg[slots[s]].prompt + Len(generated[slots[s]])
    BY <2>1 DEF Inv, RowsFollowRequests
  <2>4. /\ Len(generated'[slots[s]]) = Len(generated[slots[s]]) + 1
        /\ Len(generated[slots[s]]) \in Nat
        /\ cfg[slots[s]].prompt \in Nat /\ position[s] \in Nat
    BY <1>7, <2>1, <2>2, ConfigTypes DEF Inv, TypeOK
  <2> QED
    BY <2>3, <2>4
<1> QED
  BY <1>10, <1>11, <1>12, <1>13, <1>14 DEF Inv

LEMMA StutterInv ==
  ASSUME Inv, UNCHANGED vars
  PROVE  Inv'
<1>1. /\ UNCHANGED <<phase, state, reason, cfg, generated, slotOf, draws, slots, everUsed>>
      /\ UNCHANGED <<position, storage, prefix, logits, metrics, faults>>
  BY DEF vars, requestVars, cacheVars
<1>2. TypeOK'
  BY <1>1 DEF Inv, TypeOK
<1>3. Occupied' = Occupied /\ Free' = Free /\ Decoding' = Decoding /\ Active' = Active
  BY <1>1 DEF Occupied, Free, Decoding, Active, Pending
<1> QED
  BY <1>1, <1>2, <1>3
  DEF Inv, SlotMapConsistent, RowsFollowRequests, RequestsFit, TokenToDecode

\* The inductive invariant holds of every behaviour: after any sequence of calls
\* and failures, between them and inside a step.
THEOREM Invariance == Spec => []Inv
<1>1. Inv /\ [Next]_vars => Inv'
  <2> SUFFICES ASSUME Inv, [Next]_vars PROVE Inv'
    OBVIOUS
  <2>1. CASE \E r \in Requests, c \in Workload : Submit(r, c)
    BY <2>1, SubmitInv
  <2>2. CASE \E r \in Requests : Cancel(r)
    BY <2>2, CancelInv
  <2>3. CASE StepBegin \/ AdmitDone
    BY <2>3, PhaseOnlyInv
  <2>4. CASE AdmitBatch
    BY <2>4, AdmitBatchInv
  <2>5. CASE AdmitFails
    BY <2>5, AdmitFailsInv
  <2>6. CASE \E stopping \in SUBSET Decoding : SelectTokens(stopping)
    BY <2>6, SelectTokensInv
  <2>7. CASE DecodeRows \/ DecodeFails \/ \E s \in Slots : CopyFails(s)
    BY <2>7, DecodeInv
  <2>8. CASE UNCHANGED vars
    BY <2>8, StutterInv
  <2> QED
    BY <2>1, <2>2, <2>3, <2>4, <2>5, <2>6, <2>7, <2>8 DEF Next, Step
<1> QED
  BY <1>1, InitInv, PTL DEF Spec

\* The Request records, the slot table, the cache positions and the counters keep
\* their types, whatever call of step() throws.
THEOREM TypeCorrect == Spec => []TypeOK
BY Invariance, PTL DEF Inv

\* Exactly the decoding requests hold a row, one each, after any submit(),
\* cancel() and step(), failed or not (admit_pending, complete, cancel).
THEOREM SlotsConsistent == Spec => []SlotMapConsistent
BY Invariance, PTL DEF Inv

\* A free row is at position zero, and an occupied one between the tokens its
\* logits stand for and the tokens its request has, whatever call threw.
THEOREM RowsFollow == Spec => []RowsFollowRequests
BY Invariance, PTL DEF Inv

\* Between a selection and its decode every row left has room for one more token.
LEMMA RoomForTheDecode ==
  ASSUME Inv
  PROVE  CapacityReserved
<1> SUFFICES ASSUME phase = "decode", NEW s \in Occupied PROVE position[s] < Capacity
  BY DEF CapacityReserved, RoomLeft
<1>1. s \in Slots /\ slots[s] \in Requests /\ slots[s] \in Active
  BY DEF Inv, SlotMapConsistent, Occupied, Decoding, Active
<1>2. position[s] < cfg[slots[s]].prompt + Len(generated[slots[s]])
  BY DEF Inv, TokenToDecode
<1>3. /\ Len(generated[slots[s]]) < cfg[slots[s]].maxNew
      /\ cfg[slots[s]].prompt + cfg[slots[s]].maxNew <= Capacity
  BY <1>1 DEF Inv, RequestsFit
<1>4. /\ cfg[slots[s]].prompt \in Nat /\ cfg[slots[s]].maxNew \in Nat
      /\ Len(generated[slots[s]]) \in Nat /\ position[s] \in Nat
  BY <1>1, ConfigTypes DEF Inv, TypeOK
<1> QED
  BY <1>2, <1>3, <1>4, ConstantsAssumption

\* The capacity check of submit() is enough: no decode of a batch ever finds a
\* row without room, so KVCache::advance never throws out of step().
THEOREM CapacitySuffices == Spec => []CapacityReserved
BY RoomForTheDecode, Invariance, PTL

-----------------------------------------------------------------------------
(***************************************************************************)
(* What the callers observe: ended requests stay as they are, admission is *)
(* in order, the counters add up, the decode never refuses a batch, and    *)
(* every answer is the request's own.                                      *)
(***************************************************************************)

(* Facts about the steps that the proofs below share.                      *)

\* The selection gives tokens to decoding requests only, and ends some of those.
LEMMA SelectionIsOfDecoding ==
  ASSUME Inv, NEW stopping \in SUBSET Decoding, SelectTokens(stopping)
  PROVE  /\ Selected \subseteq Occupied
         /\ Holders(Selected) \subseteq Decoding /\ Holders(Occupied) \subseteq Decoding
         /\ Holders(Drawn) \subseteq Holders(Occupied)
         /\ stopping \cup Full \subseteq Holders(Selected)
         /\ stopping \cup Full \in SUBSET Requests
         /\ stopping \cup Full \subseteq Decoding
         /\ ReleaseSlots(stopping \cup Full)
<1>1. Selected \subseteq Occupied /\ Drawn \subseteq Occupied
  BY DEF Selected, BeforeBad, Drawn
<1>2. Holders(Occupied) \subseteq Decoding /\ Decoding \subseteq Requests
  BY DEF Holders, Inv, SlotMapConsistent, Decoding
<1>3. Holders(Selected) \subseteq Holders(Occupied) /\ Holders(Drawn) \subseteq Holders(Occupied)
  BY <1>1 DEF Holders
<1>4. stopping \cup Full \subseteq Holders(Selected)
  BY DEF Full, SelectTokens
<1> QED
  BY <1>1, <1>2, <1>3, <1>4 DEF SelectTokens

\* The requests a batch admits were pending.
LEMMA AdmittedWerePending ==
  ASSUME Inv, Pending # {}
  PROVE  AdmittedRequests \subseteq Pending
BY AdmissionIsInjective DEF AdmittedRequests

\* The steps that leave the records, the slot table and the counters alone.
LEMMA SameRequestRecords ==
  ASSUME \/ StepBegin \/ AdmitFails \/ AdmitDone \/ DecodeRows \/ DecodeFails
         \/ \E s \in Slots : CopyFails(s)
         \/ UNCHANGED vars
  PROVE  UNCHANGED <<state, reason, cfg, generated, slotOf, draws, slots, everUsed, metrics>>
BY DEF StepBegin, AdmitFails, AdmitDone, DecodeRows, DecodeFails, CopyFails, vars, requestVars,
       cacheVars

-----------------------------------------------------------------------------
(* Ended requests.                                                         *)

LEMMA EndedStay ==
  ASSUME Inv, [Next]_vars
  PROVE  EndIsFinal
<1> SUFFICES ASSUME NEW r \in Requests, state[r] \in {"Completed", "Cancelled"}
             PROVE  /\ state'[r] = state[r] /\ reason'[r] = reason[r]
                    /\ generated'[r] = generated[r] /\ slotOf'[r] = NoSlot
  BY DEF EndIsFinal, Terminal
<1>1. r \notin Decoding /\ r \notin Pending /\ slotOf[r] = NoSlot
  BY DEF Inv, SlotMapConsistent, Decoding, Pending
<1>2. TypeOK
  BY DEF Inv
<1>3. ASSUME NEW q \in Requests, NEW c \in Workload, Submit(q, c)
      PROVE  q # r
  BY <1>3 DEF Submit
<1>4. CASE \E q \in Requests, c \in Workload : Submit(q, c)
  BY <1>1, <1>2, <1>3, <1>4 DEF Submit, TypeOK
<1>5. CASE \E q \in Requests : Cancel(q)
  BY <1>1, <1>2, <1>5 DEF Cancel, Active, ReleaseSlots, TypeOK
<1>6. CASE AdmitBatch
  <2>1. r \notin AdmittedRequests
    BY <1>1, <1>6, AdmittedWerePending DEF AdmitBatch
  <2> QED BY <1>1, <1>6, <2>1 DEF AdmitBatch
<1>7. CASE \E stopping \in SUBSET Decoding : SelectTokens(stopping)
  <2>1. PICK stopping \in SUBSET Decoding : SelectTokens(stopping)
    BY <1>7
  <2>2. r \notin Holders(Selected) /\ r \notin stopping \cup Full
    BY <1>1, <2>1, SelectionIsOfDecoding
  <2>3. slotOf'[r] = slotOf[r]
    <3> DEFINE done == stopping \cup Full
    <3>1. done \in SUBSET Requests /\ ReleaseSlots(done) /\ r \notin done
      BY <2>1, <2>2, SelectionIsOfDecoding
    <3> HIDE DEF done
    <3> QED BY <3>1 DEF ReleaseSlots
  <2> QED BY <1>1, <2>1, <2>2, <2>3 DEF SelectTokens
<1>8. CASE \/ StepBegin \/ AdmitFails \/ AdmitDone \/ DecodeRows \/ DecodeFails
           \/ \E s \in Slots : CopyFails(s)
           \/ UNCHANGED vars
  BY <1>1, <1>8, SameRequestRecords
<1> QED BY <1>4, <1>5, <1>6, <1>7, <1>8 DEF Next, Step

\* No later submit(), cancel() or step(), failed or not, changes the state, the
\* reason or the tokens of a request that has ended, or gives it a row again.
THEOREM EndedForGood == Spec => TerminalIsFinal
<1>1. Inv /\ [Next]_vars => [EndIsFinal]_vars
  BY EndedStay
<1> QED BY <1>1, Invariance, PTL DEF Spec, TerminalIsFinal

-----------------------------------------------------------------------------
(* The order of admission.                                                 *)

\* The elements of a finite set of integers have the ranks 0, 1, 2, ... up to its
\* size: ranks number the elements without a gap.
LEMMA EveryRankTaken ==
  ASSUME NEW S, IsFiniteSet(S), S \subseteq Int
  PROVE  /\ Cardinality(S) \in Nat
         /\ \A x \in S : Rank(x, S) \in Nat /\ Rank(x, S) < Cardinality(S)
         /\ \A k \in 0..(Cardinality(S) - 1) : \E x \in S : Rank(x, S) = k
<1> DEFINE n == Cardinality(S)
           T == 0..(n - 1)
           f == [x \in S |-> Rank(x, S)]
<1>1. n \in Nat
  BY FS_CardinalityType
<1>2. ASSUME NEW x \in S PROVE Rank(x, S) \in Nat /\ Rank(x, S) < n
  <2> DEFINE below == {y \in S : y < x}
  <2>1. below \in SUBSET S /\ x \notin below
    OBVIOUS
  <2>2. IsFiniteSet(below) /\ Cardinality(below) <= n /\ Cardinality(below) # n
    BY <2>1, FS_Subset
  <2>3. Cardinality(below) \in Nat
    BY <2>2, FS_CardinalityType
  <2>4. Rank(x, S) = Cardinality(below)
    BY DEF Rank
  <2> HIDE DEF below, n
  <2> QED BY <1>1, <2>2, <2>3, <2>4
<1> HIDE DEF n
<1>3. f \in [S -> T]
  BY <1>1, <1>2
<1>4. \A x, y \in S : f[x] = f[y] => x = y
  BY RankInjective
<1>5. f \in Injection(S, T)
  BY <1>3, <1>4 DEF Injection, IsInjective
<1>6. IsFiniteSet(T) /\ Cardinality(T) = n
  <2>1. n - 1 \in Int /\ (0 > n - 1 <=> n = 0) /\ n - 1 - 0 + 1 = n
    BY <1>1
  <2> QED BY <2>1, FS_Interval
<1>7. f \in Surjection(S, T)
  BY <1>5, <1>6, FS_Injection DEF n
<1>8. \A k \in T : \E x \in S : f[x] = k
  BY <1>7 DEF Surjection
<1> QED BY <1>1, <1>2, <1>8 DEF n

\* A request of the batch's length whose turn comes before the free rows, and the
\* batch, run out is admitted.
LEMMA TurnIsServed ==
  ASSUME Inv, Pending # {}, NEW q \in SameLength,
         Rank(q, SameLength) < AdmissionLimit, Rank(q, SameLength) < Cardinality(Free)
  PROVE  q \in AdmittedRequests
<1> DEFINE k == Rank(q, SameLength)
<1>1. /\ IsFiniteSet(SameLength) /\ SameLength \subseteq Int
      /\ IsFiniteSet(Free) /\ Free \subseteq Int
  BY FiniteSets DEF SameLength, Pending, Requests, Free, Slots
<1>2. k \in Nat /\ Cardinality(Free) \in Nat
  BY <1>1, EveryRankTaken
<1>3. k \in 0..(Cardinality(Free) - 1)
  <2> HIDE DEF k
  <2>1. k < Cardinality(Free)
    BY DEF k
  <2> QED BY <1>2, <2>1
<1>4. PICK s \in Free : Rank(s, Free) = k
  <2> HIDE DEF k
  <2> QED BY <1>1, <1>3, EveryRankTaken
<1>5. Assigned(q, s)
  BY <1>4 DEF Assigned
<1>6. s \in AdmittedRows
  BY <1>5 DEF AdmittedRows
<1>7. RequestFor(s) \in SameLength /\ Assigned(RequestFor(s), s)
  BY <1>5 DEF RequestFor
<1>8. RequestFor(s) = q
  <2>1. Rank(RequestFor(s), SameLength) = Rank(q, SameLength)
    BY <1>5, <1>7 DEF Assigned
  <2> QED BY <1>1, <1>7, <2>1, RankInjective
<1> QED BY <1>6, <1>8 DEF AdmittedRequests

\* The oldest pending request is in every batch.
LEMMA OldestIsServed ==
  ASSUME Inv, Pending # {}, Free # {}
  PROVE  Min(Pending) \in Pending /\ Min(Pending) \in AdmittedRequests
<1> DEFINE first == Min(Pending)
<1>1. first \in Pending /\ \A y \in Pending : first <= y
  <2>1. Pending \subseteq Nat
    BY DEF Pending, Requests
  <2> QED BY <2>1, MinOfNaturals
<1>2. first \in SameLength
  BY <1>1 DEF SameLength, PromptLength
<1>3. Rank(first, SameLength) = 0
  <2> HIDE DEF first
  <2>1. {y \in SameLength : y < first} = {}
    <3>1. \A y \in SameLength : y \in Pending /\ y \in Nat /\ first \in Nat
      BY <1>1 DEF SameLength, Pending, Requests
    <3> QED BY <1>1, <3>1
  <2> QED BY <2>1, FS_EmptySet DEF Rank
<1>4. Cardinality(Free) \in Nat /\ Cardinality(Free) # 0
  <2>1. IsFiniteSet(Free)
    BY FiniteSets DEF Free
  <2> QED BY <2>1, FS_EmptySet, FS_CardinalityType
<1>5. 0 < AdmissionLimit /\ 0 < Cardinality(Free)
  BY <1>4 DEF AdmissionLimit
<1> HIDE DEF first
<1>6. first \in AdmittedRequests
  BY <1>2, <1>3, <1>5, TurnIsServed
<1> QED BY <1>1, <1>6 DEF first

LEMMA AdmissionInOrder ==
  ASSUME Inv, [Next]_vars
  PROVE  OldestFirst
<1> DEFINE admitted == {r \in Pending : state'[r] = "Decoding"}
<1>0. TypeOK
  BY DEF Inv
<1>1. CASE AdmitBatch
  <2>1. Pending # {} /\ Free # {} /\ AdmittedRequests \subseteq Pending
    BY <1>1, AdmittedWerePending DEF AdmitBatch
  <2>2. admitted = AdmittedRequests
    BY <1>1, <2>1 DEF AdmitBatch, Pending
  <2>3. ASSUME NEW r \in AdmittedRequests, NEW q \in Pending, q \notin AdmittedRequests, q < r,
               cfg[q].prompt = cfg[r].prompt
        PROVE  FALSE
    <3>1. PICK s \in AdmittedRows : r = RequestFor(s)
      BY DEF AdmittedRequests
    <3>2. r \in SameLength /\ Assigned(r, s)
      BY <3>1 DEF AdmittedRows, RequestFor
    <3>3. q \in SameLength
      BY <2>3, <3>2 DEF SameLength
    <3>4. Rank(r, SameLength) = Rank(s, Free) /\ Rank(s, Free) < AdmissionLimit /\ s \in Free
      BY <3>2 DEF Assigned
    <3>5. /\ IsFiniteSet(SameLength) /\ SameLength \subseteq Int
          /\ IsFiniteSet(Free) /\ Free \subseteq Int
      BY FiniteSets DEF SameLength, Pending, Requests, Free, Slots
    <3>6. Rank(q, SameLength) <= Rank(r, SameLength)
      <4> DEFINE Q == {y \in SameLength : y < q}
                 R == {y \in SameLength : y < r}
      <4>1. IsFiniteSet(R)
        BY <3>5, FS_Subset
      <4>2. \A y \in SameLength : y < q => y < r
        BY <2>3, <3>2, <3>3, <3>5
      <4>3. Q \in SUBSET R
        BY <4>2
      <4> QED BY <4>1, <4>3, FS_Subset DEF Rank
    <3>7. /\ Rank(s, Free) \in Nat /\ Rank(s, Free) < Cardinality(Free)
          /\ Rank(q, SameLength) \in Nat /\ Cardinality(Free) \in Nat
      BY <3>3, <3>4, <3>5, EveryRankTaken
    <3>8. AdmissionLimit \in Nat
      BY <3>7 DEF AdmissionLimit
    <3>9. Rank(q, SameLength) < AdmissionLimit /\ Rank(q, SameLength) < Cardinality(Free)
      <4> DEFINE i == Rank(q, SameLength)
                 j == Rank(s, Free)
      <4>1. i <= j /\ j < AdmissionLimit /\ j < Cardinality(Free) /\ i \in Nat /\ j \in Nat
        BY <3>4, <3>6, <3>7
      <4> HIDE DEF i, j
      <4>2. i < AdmissionLimit /\ i < Cardinality(Free)
        BY <3>7, <3>8, <4>1
      <4> QED BY <4>2 DEF i
    <3> QED BY <2>1, <2>3, <3>3, <3>9, TurnIsServed
  <2>4. Min(Pending) \in AdmittedRequests
    BY <2>1, OldestIsServed
  <2>5. \A r \in admitted, q \in Pending \ admitted : q < r => cfg[q].prompt # cfg[r].prompt
    BY <2>2, <2>3
  <2> HIDE DEF admitted
  <2> QED BY <2>2, <2>4, <2>5 DEF OldestFirst, admitted
<1>2. CASE ~AdmitBatch
  <2> SUFFICES ASSUME NEW r \in Pending PROVE state'[r] # "Decoding"
    BY DEF OldestFirst
  <2>1. r \in Requests /\ state[r] = "PendingPrefill" /\ r \notin Decoding
    BY DEF Pending, Decoding
  <2>2. CASE \E q \in Requests, c \in Workload : Submit(q, c)
    BY <1>0, <2>1, <2>2 DEF Submit, TypeOK
  <2>3. CASE \E q \in Requests : Cancel(q)
    BY <1>0, <2>1, <2>3 DEF Cancel, TypeOK
  <2>4. CASE \E stopping \in SUBSET Decoding : SelectTokens(stopping)
    <3>1. state'[r] \in {"Completed", state[r]}
      BY <2>1, <2>4 DEF SelectTokens
    <3> QED BY <2>1, <3>1
  <2>5. CASE \/ StepBegin \/ AdmitFails \/ AdmitDone \/ DecodeRows \/ DecodeFails
             \/ \E s \in Slots : CopyFails(s)
             \/ UNCHANGED vars
    BY <2>1, <2>5, SameRequestRecords
  <2> QED BY <1>2, <2>2, <2>3, <2>4, <2>5 DEF Next, Step
<1> QED BY <1>1, <1>2

\* Admission is first come, first served up to prompt length: every batch has the
\* oldest pending request, and passes over an older one only when its prompt is of
\* another length (admit_pending).
THEOREM ServedInOrder == Spec => AdmissionOrder
<1>1. Inv /\ [Next]_vars => [OldestFirst]_vars
  BY AdmissionInOrder
<1> QED BY <1>1, Invariance, PTL DEF Spec, AdmissionOrder

-----------------------------------------------------------------------------
(* The counters.                                                           *)

Tally(v) == {r \in Requests : state[r] = v}

LEMMA CountersAreTallies ==
  CountersAgree <=> /\ metrics.completed = Cardinality(Tally("Completed"))
                    /\ metrics.cancelled = Cardinality(Tally("Cancelled"))
                    /\ metrics.admissions = metrics.refills + Cardinality(everUsed)
BY DEF CountersAgree, Tally

\* Adding new elements to a set of requests adds their number to its size.
LEMMA DisjointUnion ==
  ASSUME NEW S \in SUBSET Requests, NEW T \in SUBSET Requests, S \cap T = {}
  PROVE  /\ Cardinality(S \cup T) = Cardinality(S) + Cardinality(T)
         /\ Cardinality(S) \in Nat /\ Cardinality(T) \in Nat
<1>1. /\ IsFiniteSet(S) /\ IsFiniteSet(T) /\ IsFiniteSet(S \cap T)
      /\ Cardinality(S) \in Nat /\ Cardinality(T) \in Nat
  BY FiniteSets
<1>2. Cardinality(S \cap T) = 0
  BY FS_EmptySet
<1>3. Cardinality(S \cup T) = Cardinality(S) + Cardinality(T) - Cardinality(S \cap T)
  BY <1>1, FS_Union
<1> QED BY <1>1, <1>2, <1>3

LEMMA SubmitCounts ==
  ASSUME Inv, CountersAgree, NEW r \in Requests, NEW c \in Workload, Submit(r, c)
  PROVE  CountersAgree'
<1>0. TypeOK /\ metrics \in Counters /\ state[r] = "Absent"
  BY DEF Inv, TypeOK, Submit
<1>1. everUsed' = everUsed /\ Tally("Cancelled")' = Tally("Cancelled")
  BY <1>0 DEF Submit, TypeOK, Tally
<1>2. CASE c.maxNew = 0
  <2>1. Tally("Completed")' = Tally("Completed") \cup {r} /\ Tally("Completed") \cap {r} = {}
    BY <1>0, <1>2 DEF Submit, TypeOK, Tally
  <2>2. Cardinality(Tally("Completed")') = Cardinality(Tally("Completed")) + 1
    <3>1. Tally("Completed") \in SUBSET Requests /\ {r} \in SUBSET Requests
      BY DEF Tally
    <3>2. Cardinality({r}) = 1
      BY FS_Singleton
    <3> QED BY <2>1, <3>1, <3>2, DisjointUnion
  <2>3. /\ metrics'.completed = metrics.completed + 1 /\ metrics'.cancelled = metrics.cancelled
        /\ metrics'.admissions = metrics.admissions /\ metrics'.refills = metrics.refills
    BY <1>0, <1>2 DEF Submit, Counters
  <2> QED BY <1>1, <2>2, <2>3, CountersAreTallies DEF CountersAgree, Tally
<1>3. CASE c.maxNew # 0
  <2>1. Tally("Completed")' = Tally("Completed") /\ metrics' = metrics
    BY <1>0, <1>3 DEF Submit, TypeOK, Tally
  <2> QED BY <1>1, <2>1 DEF CountersAgree, Tally
<1> QED BY <1>2, <1>3

LEMMA CancelCounts ==
  ASSUME Inv, CountersAgree, NEW r \in Requests, Cancel(r)
  PROVE  CountersAgree'
<1>0. TypeOK /\ metrics \in Counters /\ state[r] \in {"PendingPrefill", "Decoding"}
  BY DEF Inv, TypeOK, Cancel, Active, Pending, Decoding
<1>1. /\ everUsed' = everUsed /\ Tally("Completed")' = Tally("Completed")
      /\ Tally("Cancelled")' = Tally("Cancelled") \cup {r} /\ Tally("Cancelled") \cap {r} = {}
  BY <1>0 DEF Cancel, TypeOK, Tally
<1>2. Cardinality(Tally("Cancelled")') = Cardinality(Tally("Cancelled")) + 1
  <2>1. Tally("Cancelled") \in SUBSET Requests /\ {r} \in SUBSET Requests
    BY DEF Tally
  <2>2. Cardinality({r}) = 1
    BY FS_Singleton
  <2> QED BY <1>1, <2>1, <2>2, DisjointUnion
<1>3. /\ metrics'.completed = metrics.completed /\ metrics'.cancelled = metrics.cancelled + 1
      /\ metrics'.admissions = metrics.admissions /\ metrics'.refills = metrics.refills
  BY <1>0 DEF Cancel, Counters
<1> QED BY <1>1, <1>2, <1>3 DEF CountersAgree, Tally

\* A row of the batch is a refill exactly when it was in use before.
LEMMA AdmitCounts ==
  ASSUME Inv, CountersAgree, AdmitBatch
  PROVE  CountersAgree'
<1>0. TypeOK /\ metrics \in Counters /\ everUsed \in SUBSET Slots
  BY DEF Inv, TypeOK
<1>1. AdmittedRequests \subseteq Pending
  BY AdmittedWerePending DEF AdmitBatch
<1>2. /\ Tally("Completed")' = Tally("Completed") /\ Tally("Cancelled")' = Tally("Cancelled")
  BY <1>1 DEF AdmitBatch, Tally, Pending
<1> DEFINE rows == AdmittedRows
           again == rows \cap everUsed
<1>3. rows \in SUBSET Slots
  BY DEF AdmittedRows, Free
<1>4. /\ everUsed' = everUsed \cup rows
      /\ metrics'.completed = metrics.completed /\ metrics'.cancelled = metrics.cancelled
      /\ metrics'.admissions = metrics.admissions + Cardinality(rows)
      /\ metrics'.refills = metrics.refills + Cardinality(again)
  BY <1>0 DEF AdmitBatch, Counters
<1>5. Cardinality(everUsed \cup rows)
        = Cardinality(everUsed) + Cardinality(rows) - Cardinality(again)
  <2>1. IsFiniteSet(everUsed) /\ IsFiniteSet(rows)
    BY <1>0, <1>3, FiniteSets
  <2>2. everUsed \cap rows = again
    OBVIOUS
  <2> HIDE DEF rows, again
  <2> QED BY <2>1, <2>2, FS_Union
<1>6. /\ Cardinality(everUsed) \in Nat /\ Cardinality(rows) \in Nat /\ Cardinality(again) \in Nat
      /\ metrics.refills \in Nat /\ metrics.admissions \in Nat
  BY <1>0, <1>3, FiniteSets DEF Counters
<1> HIDE DEF rows, again
<1>7. metrics'.admissions = metrics'.refills + Cardinality(everUsed')
  <2>1. metrics.admissions = metrics.refills + Cardinality(everUsed)
    BY DEF CountersAgree
  <2>2. Cardinality(everUsed') = Cardinality(everUsed) + Cardinality(rows) - Cardinality(again)
    BY <1>4, <1>5
  <2> DEFINE before == Cardinality(everUsed)
             new == Cardinality(rows)
             refilled == Cardinality(again)
             after == Cardinality(everUsed')
  <2>3. /\ before \in Nat /\ new \in Nat /\ refilled \in Nat /\ metrics.refills \in Nat
        /\ after = before + new - refilled
        /\ metrics'.admissions = metrics.refills + before + new
        /\ metrics'.refills = metrics.refills + refilled
    BY <1>4, <1>6, <2>1, <2>2
  <2> HIDE DEF before, new, refilled, after
  <2>4. metrics'.admissions = metrics'.refills + after
    BY <2>3
  <2> QED BY <2>4 DEF after
<1> QED BY <1>2, <1>4, <1>7 DEF CountersAgree, Tally

LEMMA SelectCounts ==
  ASSUME Inv, CountersAgree, NEW stopping \in SUBSET Decoding, SelectTokens(stopping)
  PROVE  CountersAgree'
<1> DEFINE done == stopping \cup Full
<1>0. /\ metrics \in Counters /\ done \in SUBSET Requests /\ done \subseteq Decoding
      /\ everUsed' = everUsed
  BY SelectionIsOfDecoding DEF Inv, TypeOK, SelectTokens
<1>1. state' = [r \in Requests |-> IF r \in done THEN "Completed" ELSE state[r]]
  BY DEF SelectTokens
<1>2. /\ metrics'.completed = metrics.completed + Cardinality(done)
      /\ metrics'.cancelled = metrics.cancelled
      /\ metrics'.admissions = metrics.admissions /\ metrics'.refills = metrics.refills
  BY <1>0 DEF SelectTokens, Counters, Ends
<1> HIDE DEF done
<1>3. /\ Tally("Completed")' = Tally("Completed") \cup done /\ Tally("Completed") \cap done = {}
      /\ Tally("Cancelled")' = Tally("Cancelled")
  BY <1>0, <1>1 DEF Tally, Decoding
<1>4. Cardinality(Tally("Completed")') = Cardinality(Tally("Completed")) + Cardinality(done)
  <2>1. Tally("Completed") \in SUBSET Requests
    BY DEF Tally
  <2> QED BY <1>0, <1>3, <2>1, DisjointUnion
<1> QED BY <1>0, <1>2, <1>3, <1>4 DEF CountersAgree, Tally

\* The counters of metrics() add up to the states of the requests, however each of
\* them ended and whatever failed: none is counted twice and none missed, and the
\* admissions into rows used before are the refills.
THEOREM CountersAddUp == Spec => []CountersAgree
<1>1. Init => CountersAgree
  <2> SUFFICES ASSUME Init PROVE CountersAgree
    OBVIOUS
  <2>1. Tally("Completed") = {} /\ Tally("Cancelled") = {}
    BY DEF Init, Tally
  <2>2. Cardinality(Tally("Completed")) = 0 /\ Cardinality(Tally("Cancelled")) = 0
    BY <2>1, FS_EmptySet
  <2>3. Cardinality(everUsed) = 0
    BY FS_EmptySet DEF Init
  <2>4. /\ metrics.completed = 0 /\ metrics.cancelled = 0
        /\ metrics.admissions = 0 /\ metrics.refills = 0
    BY DEF Init
  <2> QED BY <2>2, <2>3, <2>4, CountersAreTallies
<1>2. Inv /\ CountersAgree /\ [Next]_vars => CountersAgree'
  <2> SUFFICES ASSUME Inv, CountersAgree, [Next]_vars PROVE CountersAgree'
    OBVIOUS
  <2>1. CASE \E r \in Requests, c \in Workload : Submit(r, c)
    BY <2>1, SubmitCounts
  <2>2. CASE \E r \in Requests : Cancel(r)
    BY <2>2, CancelCounts
  <2>3. CASE AdmitBatch
    BY <2>3, AdmitCounts
  <2>4. CASE \E stopping \in SUBSET Decoding : SelectTokens(stopping)
    BY <2>4, SelectCounts
  <2>5. CASE \/ StepBegin \/ AdmitFails \/ AdmitDone \/ DecodeRows \/ DecodeFails
             \/ \E s \in Slots : CopyFails(s)
             \/ UNCHANGED vars
    BY <2>5, SameRequestRecords DEF CountersAgree
  <2> QED BY <2>1, <2>2, <2>3, <2>4, <2>5 DEF Next, Step
<1> QED BY <1>1, <1>2, Invariance, PTL DEF Spec

-----------------------------------------------------------------------------
(* The views of the cache and the decode.                                  *)

\* A batch that decodes has rows, and rows are occupied only once the storage
\* exists.
BatchKept ==
  /\ phase \in {"select", "decode"} => Occupied # {}
  /\ storage = "none" => Occupied = {}

LEMMA BatchKeptStep ==
  ASSUME Inv, BatchKept, [Next]_vars
  PROVE  BatchKept'
<1>1. CASE \E r \in Requests, c \in Workload : Submit(r, c)
  BY <1>1 DEF Submit, BatchKept, Occupied, cacheVars
<1>2. CASE \E r \in Requests : Cancel(r)
  <2>1. PICK r \in Requests : Cancel(r)
    BY <1>2
  <2>2. {r} \in SUBSET Requests /\ ReleaseSlots({r}) /\ phase = "idle" /\ phase' = "idle"
    BY <2>1 DEF Cancel
  <2>3. /\ storage' = storage
        /\ slots' = [s \in Slots |-> IF slots[s] \in {r} THEN NoRequest ELSE slots[s]]
    BY <2>2, ReleaseEmptiesRows
  <2> QED BY <2>2, <2>3 DEF BatchKept, Occupied
<1>3. CASE StepBegin
  BY <1>3 DEF StepBegin, BatchKept, Occupied, cacheVars
<1>4. CASE AdmitBatch
  BY <1>4 DEF AdmitBatch, BatchKept
<1>5. CASE AdmitFails
  BY <1>5 DEF AdmitFails, BatchKept, Occupied
<1>6. CASE AdmitDone
  BY <1>6 DEF AdmitDone, BatchKept, Occupied, cacheVars
<1>7. CASE \E stopping \in SUBSET Decoding : SelectTokens(stopping)
  <2>1. PICK stopping \in SUBSET Decoding : SelectTokens(stopping)
    BY <1>7
  <2> DEFINE done == stopping \cup Full
  <2>2. done \in SUBSET Requests /\ ReleaseSlots(done) /\ done \subseteq Holders(Occupied)
    BY <2>1, SelectionIsOfDecoding DEF Holders
  <2>3. phase' = "decode" => done # Holders(Occupied)
    BY <2>1 DEF SelectTokens
  <2>4. phase' \in {"idle", "decode"}
    BY <2>1 DEF SelectTokens
  <2> HIDE DEF done
  <2>5. /\ storage' = storage
        /\ slots' = [s \in Slots |-> IF slots[s] \in done THEN NoRequest ELSE slots[s]]
    BY <2>2, ReleaseEmptiesRows
  <2>6. phase' = "decode" => Occupied' # {}
    <3> SUFFICES ASSUME done # Holders(Occupied) PROVE Occupied' # {}
      BY <2>3
    <3>1. PICK s \in Occupied : slots[s] \notin done
      BY <2>2 DEF Holders
    <3> QED BY <2>5, <3>1 DEF Occupied
  <2>7. Occupied' \subseteq Occupied
    BY <2>5 DEF Occupied
  <2> QED BY <2>4, <2>5, <2>6, <2>7 DEF BatchKept
<1>8. CASE DecodeRows
  BY <1>8 DEF DecodeRows, BatchKept, Occupied
<1>9. CASE DecodeFails
  BY <1>9 DEF DecodeFails, BatchKept, Occupied
<1>10. CASE \E s \in Slots : CopyFails(s)
  BY <1>10 DEF CopyFails, BatchKept, Occupied
<1>11. CASE UNCHANGED vars
  BY <1>11 DEF vars, cacheVars, BatchKept, Occupied
<1> QED BY <1>1, <1>2, <1>3, <1>4, <1>5, <1>6, <1>7, <1>8, <1>9, <1>10, <1>11 DEF Next, Step

\* The greatest of the positions is a position, and none is greater.
LEMMA LongestRow ==
  ASSUME NEW p \in [Slots -> Nat], NEW b \in Nat, \A s \in Slots : p[s] <= b
  PROVE  /\ MaxPosition(p) \in Nat
         /\ \E s \in Slots : p[s] = MaxPosition(p)
         /\ \A s \in Slots : p[s] <= MaxPosition(p)
<1> DEFINE T == {p[s] : s \in Slots}
<1>1. T \subseteq Nat /\ \A y \in T : y <= b
  OBVIOUS
<1>2. T # {}
  <2>1. 0 \in Slots
    BY ConstantsAssumption DEF Slots
  <2> QED BY <2>1
<1>3. Max(T) \in T /\ \A y \in T : y <= Max(T)
  BY <1>1, <1>2, MaxOfBounded
<1> QED BY <1>1, <1>3 DEF MaxPosition

\* A position that no row exceeds is that of the longest row.
LEMMA LongestRowIs ==
  ASSUME NEW p \in [Slots -> Nat], NEW t \in Slots, \A s \in Slots : p[s] <= p[t]
  PROVE  MaxPosition(p) = p[t]
<1> DEFINE m == MaxPosition(p)
<1>1. /\ m \in Nat /\ p[t] <= m
      /\ \E s \in Slots : p[s] = m
  BY LongestRow
<1> HIDE DEF m
<1>2. PICK s \in Slots : p[s] = m
  BY <1>1
<1>3. m <= p[t] /\ p[t] \in Nat
  BY <1>2
<1>4. m = p[t]
  BY <1>1, <1>3
<1> QED BY <1>4 DEF m

LEMMA GreaterOfTwo ==
  ASSUME NEW x \in Nat, NEW y \in Nat
  PROVE  Max({x, y}) = IF x <= y THEN y ELSE x
<1> DEFINE T == {x, y}
<1>1. T \subseteq Nat /\ T # {} /\ x + y \in Nat /\ \A z \in T : z <= x + y
  OBVIOUS
<1>2. Max(T) \in T /\ \A z \in T : z <= Max(T)
  <2> HIDE DEF T
  <2> QED BY <1>1, MaxOfBounded
<1> QED BY <1>2

\* The rows are bounded, which is what the longest one needs to exist.
LEMMA PositionTypes ==
  ASSUME Inv
  PROVE  /\ position \in [Slots -> Nat] /\ Capacity \in Nat
         /\ \A s \in Slots : position[s] <= Capacity
BY PositionsBounded, ConstantsAssumption DEF Inv, TypeOK

\* reset_row() shrinks the views to the longest row left.
LEMMA ReleaseKeepsViews ==
  ASSUME Inv, ViewsEndAtLongestRow, NEW rs \in SUBSET Requests, ReleaseSlots(rs)
  PROVE  ViewsEndAtLongestRow'
<1> DEFINE rows == {slotOf[r] : r \in rs} \ {NoSlot}
<1>1. /\ position' = [s \in Slots |-> IF s \in rows THEN 0 ELSE position[s]]
      /\ prefix' = IF rows = {} \/ storage = "none" THEN prefix ELSE MaxPosition(position')
      /\ storage' = storage
  BY DEF ReleaseSlots, ResetRows
<1> HIDE DEF rows
<1>2. CASE rows = {}
  <2>1. position' = position
    BY <1>1, <1>2, PositionTypes
  <2> QED BY <1>1, <1>2, <2>1 DEF ViewsEndAtLongestRow
<1>3. CASE rows # {}
  BY <1>1, <1>3 DEF ViewsEndAtLongestRow
<1> QED BY <1>2, <1>3

\* A prefill writes rows that were empty, and lengthens the views when its prompts
\* are longer than every row.
LEMMA AdmitKeepsViews ==
  ASSUME Inv, AdmitBatch
  PROVE  ViewsEndAtLongestRow'
<1> DEFINE longest == MaxPosition(position)
           new == Max({longest, PromptLength})
<1>1. /\ PromptLength \in Nat /\ PromptLength <= Capacity
      /\ \A s \in AdmittedRows : s \in Free
  BY AdmissionIsInjective DEF AdmitBatch
<1>2. PICK first \in AdmittedRows : TRUE
  BY OldestIsServed DEF AdmitBatch, AdmittedRequests
<1>3. /\ position' = [s \in Slots |-> IF s \in AdmittedRows THEN PromptLength ELSE position[s]]
      /\ prefix' = new /\ storage' = "ready"
  BY DEF AdmitBatch
<1>4. /\ longest \in Nat
      /\ \E s \in Slots : position[s] = longest
      /\ \A s \in Slots : position[s] <= longest
  BY PositionTypes, LongestRow
<1>5. new = IF longest <= PromptLength THEN PromptLength ELSE longest
  BY <1>1, <1>4, GreaterOfTwo
<1>6. \A s \in AdmittedRows : s \in Slots /\ position[s] = 0
  BY <1>1 DEF Inv, RowsFollowRequests, Free
<1> HIDE DEF longest, new
<1>7. position' \in [Slots -> Nat]
  BY <1>1, <1>3, PositionTypes
<1>8. \E t \in Slots : position'[t] = new /\ \A s \in Slots : position'[s] <= position'[t]
  <2>1. CASE longest <= PromptLength
    <3>1. first \in Slots /\ position'[first] = new
      BY <1>2, <1>3, <1>5, <1>6, <2>1
    <3>2. \A s \in Slots : position'[s] <= PromptLength
      BY <1>1, <1>3, <1>4, <2>1, PositionTypes
    <3> QED BY <1>5, <2>1, <3>1, <3>2
  <2>2. CASE ~(longest <= PromptLength)
    <3>1. PICK t \in Slots : position[t] = longest
      BY <1>4
    <3>2. t \notin AdmittedRows
      BY <1>1, <1>6, <2>2, <3>1
    <3>3. position'[t] = new /\ new = longest
      BY <1>3, <1>5, <2>2, <3>1, <3>2
    <3>4. \A s \in Slots : position'[s] <= longest
      BY <1>1, <1>3, <1>4, <2>2, PositionTypes
    <3> QED BY <3>3, <3>4
  <2> QED BY <2>1, <2>2
<1>9. MaxPosition(position') = new
  BY <1>7, <1>8, LongestRowIs
<1> QED BY <1>3, <1>9 DEF ViewsEndAtLongestRow

\* A prefill that throws resets rows that were empty anyway.
LEMMA FailedAdmitKeepsViews ==
  ASSUME Inv, ViewsEndAtLongestRow, AdmitFails
  PROVE  ViewsEndAtLongestRow'
<1>1. /\ position' = [s \in Slots |-> IF s \in AdmittedRows THEN 0 ELSE position[s]]
      /\ prefix' = IF storage' = "none" THEN prefix ELSE MaxPosition(position')
      /\ storage' \in {storage, "ready", "partial"}
  BY DEF AdmitFails
<1>2. CASE storage' = "none"
  <2>1. storage = "none"
    BY <1>1, <1>2
  <2> QED BY <1>1, <1>2, <2>1 DEF ViewsEndAtLongestRow
<1>3. CASE storage' # "none"
  BY <1>1, <1>3 DEF ViewsEndAtLongestRow
<1> QED BY <1>2, <1>3

\* A decode makes the longest row, and with it the views, one token longer.
LEMMA DecodeKeepsViews ==
  ASSUME Inv, BatchKept, ViewsEndAtLongestRow, phase = "decode",
         position' = Advanced, prefix' = GrownPrefix, storage' = storage
  PROVE  ViewsEndAtLongestRow'
<1> DEFINE longest == MaxPosition(position)
<1>1. storage # "none" /\ prefix = longest
  BY DEF BatchKept, ViewsEndAtLongestRow
<1>2. /\ longest \in Nat
      /\ \E s \in Slots : position[s] = longest
      /\ \A s \in Slots : position[s] <= longest
  BY PositionTypes, LongestRow
<1>3. prefix' = longest + 1
  <2>1. prefix' = Max({longest, longest + 1})
    BY <1>1 DEF GrownPrefix
  <2> HIDE DEF longest
  <2>2. longest + 1 \in Nat /\ longest <= longest + 1
    BY <1>2
  <2> QED BY <1>2, <2>1, <2>2, GreaterOfTwo
<1> HIDE DEF longest
<1>4. PICK t \in Occupied : position[t] = longest
  <2>1. PICK s \in Slots : position[s] = longest
    BY <1>2
  <2>2. PICK u \in Occupied : TRUE
    BY DEF BatchKept
  <2>3. CASE s \in Occupied
    BY <2>1, <2>3
  <2>4. CASE s \notin Occupied
    <3>1. longest = 0
      BY <2>1, <2>4 DEF Inv, RowsFollowRequests, Free
    <3>2. u \in Slots /\ position[u] \in Nat
      BY <2>2, PositionTypes DEF Occupied
    <3>3. position[u] = longest
      BY <1>2, <3>1, <3>2
    <3> QED BY <2>2, <3>3
  <2> QED BY <2>3, <2>4
<1>5. t \in Slots /\ position'[t] = longest + 1
  BY <1>4 DEF Advanced, Occupied
<1>6. position' \in [Slots -> Nat] /\ \A s \in Slots : position'[s] <= longest + 1
  BY <1>2, PositionTypes DEF Advanced
<1>7. MaxPosition(position') = longest + 1
  BY <1>5, <1>6, LongestRowIs
<1> QED BY <1>1, <1>3, <1>7 DEF ViewsEndAtLongestRow

\* What the layers of the uniform decode insist on.
LEMMA ViewsMatchTheDecode ==
  ASSUME Inv, BatchKept, ViewsEndAtLongestRow, phase = "decode"
  PROVE  ViewMatches /\ RoomLeft
BY RoomForTheDecode DEF CapacityReserved, BatchKept, ViewsEndAtLongestRow, ViewMatches

LEMMA ViewsStep ==
  ASSUME "decode" \notin Faults, Inv, BatchKept, ViewsEndAtLongestRow, [Next]_vars
  PROVE  ViewsEndAtLongestRow'
<1>1. CASE \E r \in Requests, c \in Workload : Submit(r, c)
  BY <1>1 DEF Submit, cacheVars, ViewsEndAtLongestRow
<1>2. CASE \E r \in Requests : Cancel(r)
  BY <1>2, ReleaseKeepsViews DEF Cancel
<1>3. CASE StepBegin \/ AdmitDone
  BY <1>3 DEF StepBegin, AdmitDone, cacheVars, ViewsEndAtLongestRow
<1>4. CASE AdmitBatch
  BY <1>4, AdmitKeepsViews
<1>5. CASE AdmitFails
  BY <1>5, FailedAdmitKeepsViews
<1>6. CASE \E stopping \in SUBSET Decoding : SelectTokens(stopping)
  <2>1. PICK stopping \in SUBSET Decoding : SelectTokens(stopping)
    BY <1>6
  <2> DEFINE done == stopping \cup Full
  <2>2. done \in SUBSET Requests /\ ReleaseSlots(done)
    BY <2>1, SelectionIsOfDecoding
  <2> HIDE DEF done
  <2> QED BY <2>2, ReleaseKeepsViews
<1>7. CASE DecodeRows \/ \E s \in Slots : CopyFails(s)
  <2>1. phase = "decode" /\ position' = Advanced /\ prefix' = GrownPrefix /\ storage' = storage
    BY <1>7 DEF DecodeRows, CopyFails
  <2> QED BY <2>1, DecodeKeepsViews
<1>8. CASE DecodeFails
  <2>1. phase = "decode"
    BY <1>8 DEF DecodeFails
  <2>2. ViewMatches /\ RoomLeft
    BY <2>1, ViewsMatchTheDecode
  <2> QED BY <1>8, <2>2 DEF DecodeFails, Fail
<1>9. CASE UNCHANGED vars
  BY <1>9 DEF vars, cacheVars, ViewsEndAtLongestRow
<1> QED BY <1>1, <1>2, <1>3, <1>4, <1>5, <1>6, <1>7, <1>8, <1>9 DEF Next, Step

LEMMA ViewsInvariance ==
  ASSUME "decode" \notin Faults
  PROVE  Spec => [](Inv /\ BatchKept /\ ViewsEndAtLongestRow)
<1>1. Init => BatchKept /\ ViewsEndAtLongestRow
  BY DEF Init, BatchKept, ViewsEndAtLongestRow, Occupied
<1>2. Inv /\ BatchKept /\ ViewsEndAtLongestRow /\ [Next]_vars
      => BatchKept' /\ ViewsEndAtLongestRow'
  BY BatchKeptStep, ViewsStep
<1> QED BY <1>1, <1>2, Invariance, PTL DEF Spec

\* When no decode throws half way, whatever prefills, allocations or copies of
\* logits fail, the K/V views end at the longest row of the cache.
THEOREM ViewsAreExact ==
  ASSUME "decode" \notin Faults
  PROVE  Spec => []ViewsEndAtLongestRow
BY ViewsInvariance, PTL

\* So both checks of the decode hold of every batch that reaches it: the uniform
\* path finds its views where the positions say, and every row has room.
THEOREM NoBatchRefused ==
  ASSUME "decode" \notin Faults
  PROVE  Spec => [](phase = "decode" => ViewMatches /\ RoomLeft)
<1>1. Inv /\ BatchKept /\ ViewsEndAtLongestRow => (phase = "decode" => ViewMatches /\ RoomLeft)
  BY ViewsMatchTheDecode
<1> QED BY <1>1, ViewsInvariance, PTL

-----------------------------------------------------------------------------
(* The answers, when nothing but prefills and allocations fail.            *)

\* The tokens of a row's request that its logits do not know yet.
Undecoded == IF phase = "decode" THEN 1 ELSE 0

\* The logits of a row are finite and know every token its request has, but for
\* the one about to be decoded.
LogitsFollow ==
  \A s \in Occupied : logits[s].finite /\ Len(generated[slots[s]]) = logits[s].seen + Undecoded

\* A sampling request has drawn one number for each token.
DrawsFollow == \A r \in Requests : draws[r] = IF cfg[r].sampled THEN Len(generated[r]) ELSE 0

Answers == LogitsFollow /\ DrawsFollow /\ OutputMatchesReference

\* The instances in which every decode succeeds and all logits are finite.
OnlyAdmissionFails == Faults \subseteq {"prefill", "allocate"}

\* Each row of the batch gets the next token of its request.
LEMMA SelectionIsNext ==
  ASSUME Inv, Answers, NEW stopping \in SUBSET Decoding, SelectTokens(stopping)
  PROVE  /\ Bad = {} /\ Selected = Occupied
         /\ Holders(Drawn) = {r \in Holders(Occupied) : cfg[r].sampled}
         /\ \A r \in Holders(Occupied) :
              SelectedToken(r) = [seen |-> Len(generated[r]),
                                  draw |-> IF cfg[r].sampled THEN Len(generated[r]) ELSE 0]
         /\ \A r \in Holders(Occupied) : draws[r] \in Nat /\ draws[r] < DrawCap
<1>1. Bad = {}
  BY DEF Answers, LogitsFollow, Bad
<1>2. BeforeBad = Occupied /\ Selected = Occupied
  BY <1>1 DEF BeforeBad, Selected
<1>3. Holders(Drawn) = {r \in Holders(Occupied) : cfg[r].sampled}
  BY <1>2 DEF Drawn, Holders
<1>4. Undecoded = 0
  BY DEF SelectTokens, Undecoded
<1>5. ASSUME NEW r \in Holders(Occupied)
      PROVE  /\ SelectedToken(r) = [seen |-> Len(generated[r]),
                                    draw |-> IF cfg[r].sampled THEN Len(generated[r]) ELSE 0]
             /\ draws[r] \in Nat /\ draws[r] < DrawCap
  <2>1. \E s \in Occupied : slots[s] = r
    BY DEF Holders
  <2>2. SlotHolding(r) \in Occupied /\ slots[SlotHolding(r)] = r
    BY <2>1 DEF SlotHolding
  <2>3. r \in Requests /\ r \in Active
    BY <2>1 DEF Inv, SlotMapConsistent, Decoding, Active
  <2>4. Len(generated[r]) = logits[SlotHolding(r)].seen + 0
    BY <1>4, <2>2 DEF Answers, LogitsFollow
  <2>5. logits[SlotHolding(r)].seen \in Nat
    BY <2>2 DEF Inv, TypeOK, Occupied
  <2>6. logits[SlotHolding(r)].seen = Len(generated[r])
    BY <2>4, <2>5
  <2>7. draws[r] = IF cfg[r].sampled THEN Len(generated[r]) ELSE 0
    BY <2>3 DEF Answers, DrawsFollow
  <2>8. /\ Len(generated[r]) < cfg[r].maxNew /\ cfg[r].prompt + cfg[r].maxNew <= Capacity
        /\ Len(generated[r]) \in Nat /\ cfg[r].prompt \in Nat /\ cfg[r].maxNew \in Nat
    BY <2>3, ConfigTypes DEF Inv, RequestsFit
  <2>9. draws[r] \in Nat /\ draws[r] < Capacity
    BY <2>7, <2>8, ConstantsAssumption
  <2> QED BY <2>6, <2>7, <2>9 DEF SelectedToken, DrawCap
<1> QED BY <1>1, <1>2, <1>3, <1>5

LEMMA SelectAnswers ==
  ASSUME Inv, Answers, NEW stopping \in SUBSET Decoding, SelectTokens(stopping)
  PROVE  Answers'
<1> DEFINE batch == Holders(Occupied)
           done == stopping \cup Full
           token(r) == [seen |-> Len(generated[r]),
                        draw |-> IF cfg[r].sampled THEN Len(generated[r]) ELSE 0]
<1>0. /\ Bad = {} /\ Selected = Occupied
      /\ Holders(Drawn) = {r \in batch : cfg[r].sampled}
      /\ \A r \in batch : SelectedToken(r) = token(r) /\ draws[r] \in Nat /\ draws[r] < DrawCap
  BY SelectionIsNext
<1>1. /\ batch \subseteq Requests /\ done \in SUBSET Requests
      /\ ReleaseSlots(done) /\ done \subseteq batch
  BY <1>0, SelectionIsOfDecoding DEF Decoding
<1>2. /\ generated' = [r \in Requests |-> IF r \in batch THEN Append(generated[r], token(r))
                                                         ELSE generated[r]]
      /\ draws' = [r \in Requests |->
           IF r \in batch /\ cfg[r].sampled THEN draws[r] + 1 ELSE draws[r]]
      /\ phase = "select" /\ phase' = IF done = batch THEN "idle" ELSE "decode"
      /\ cfg' = cfg /\ logits' = logits
  BY <1>0, <1>1 DEF SelectTokens
<1> HIDE DEF token
<1>3. slots' = [s \in Slots |-> IF slots[s] \in done THEN NoRequest ELSE slots[s]]
  BY <1>1, ReleaseEmptiesRows
<1> HIDE DEF done
<1>4. /\ Occupied' = {s \in Occupied : slots[s] \notin done}
      /\ \A s \in Occupied' : slots'[s] = slots[s]
  BY <1>3 DEF Occupied
<1>5. \A r \in Requests :
        generated[r] \in Seq([seen : Nat, draw : Nat]) /\ Len(generated[r]) \in Nat
  BY ConfigTypes DEF Inv, TypeOK
<1>6. \A r \in Requests : Len(generated'[r]) = IF r \in batch THEN Len(generated[r]) + 1
                                                               ELSE Len(generated[r])
  BY <1>1, <1>2, <1>5
<1>7. LogitsFollow'
  <2> SUFFICES ASSUME NEW s \in Occupied'
               PROVE  /\ logits[s].finite
                      /\ Len(generated'[slots[s]]) = logits[s].seen + Undecoded'
    BY <1>2, <1>4 DEF LogitsFollow
  <2>1. s \in Occupied /\ s \in Slots /\ slots[s] \in batch /\ slots[s] \notin done
    BY <1>4 DEF Occupied, Holders
  <2>2. Undecoded = 0 /\ Undecoded' = 1
    BY <1>2, <2>1 DEF Undecoded
  <2>3. logits[s].finite /\ Len(generated[slots[s]]) = logits[s].seen + 0 /\ logits[s].seen \in Nat
    BY <2>1, <2>2 DEF Answers, LogitsFollow, Inv, TypeOK
  <2>4. Len(generated'[slots[s]]) = Len(generated[slots[s]]) + 1
    BY <1>1, <1>6, <2>1
  <2> QED BY <2>2, <2>3, <2>4
<1>8. DrawsFollow'
  <2> SUFFICES ASSUME NEW r \in Requests
               PROVE  draws'[r] = IF cfg[r].sampled THEN Len(generated'[r]) ELSE 0
    BY <1>2 DEF DrawsFollow
  <2>1. draws[r] = IF cfg[r].sampled THEN Len(generated[r]) ELSE 0
    BY DEF Answers, DrawsFollow
  <2> QED BY <1>2, <1>6, <2>1
<1>9. OutputMatchesReference'
  <2> SUFFICES ASSUME NEW r \in Requests, NEW k \in 1..Len(generated'[r])
               PROVE  generated'[r][k] =
                        [seen |-> k - 1, draw |-> IF cfg[r].sampled THEN k - 1 ELSE 0]
    BY <1>2 DEF OutputMatchesReference
  <2>1. CASE r \notin batch
    BY <1>2, <2>1 DEF Answers, OutputMatchesReference
  <2>2. CASE r \in batch
    <3> DEFINE n == Len(generated[r])
    <3>1. generated'[r] = Append(generated[r], token(r)) /\ n \in Nat /\ k \in 1..(n + 1)
      BY <1>2, <1>5, <1>6, <2>2
    <3>2. CASE k = n + 1
      <4>1. generated'[r][k] = token(r)
        BY <1>5, <3>1, <3>2
      <4>2. k - 1 = n
        BY <3>1, <3>2
      <4> QED BY <4>1, <4>2 DEF token
    <3>3. CASE k # n + 1
      <4>1. k \in 1..n
        BY <3>1, <3>3
      <4>2. generated'[r][k] = generated[r][k]
        BY <1>5, <3>1, <4>1
      <4> QED BY <4>1, <4>2 DEF Answers, OutputMatchesReference
    <3> QED BY <3>2, <3>3
  <2> QED BY <2>1, <2>2
<1> QED BY <1>7, <1>8, <1>9 DEF Answers

LEMMA SameOutput ==
  ASSUME Answers, UNCHANGED <<cfg, generated, draws>>
  PROVE  OutputMatchesReference' /\ DrawsFollow'
BY DEF Answers, OutputMatchesReference, DrawsFollow

LEMMA SubmitAnswers ==
  ASSUME Inv, Answers, NEW r \in Requests, NEW c \in Workload, Submit(r, c)
  PROVE  Answers'
<1>1. /\ generated[r] = <<>> /\ state[r] = "Absent"
      /\ \A q \in Requests \ {r} : cfg'[q] = cfg[q]
      /\ UNCHANGED <<generated, draws, slots, logits, phase>>
  BY DEF Inv, TypeOK, RequestsFit, Submit
<1>2. LogitsFollow'
  BY <1>1 DEF Answers, LogitsFollow, Occupied, Undecoded
<1>3. DrawsFollow' /\ OutputMatchesReference'
  <2>1. Len(generated[r]) = 0
    BY <1>1
  <2> QED BY <1>1, <2>1 DEF Answers, DrawsFollow, OutputMatchesReference
<1> QED BY <1>2, <1>3 DEF Answers

LEMMA CancelAnswers ==
  ASSUME Inv, Answers, NEW r \in Requests, Cancel(r)
  PROVE  Answers'
<1>1. slots' = [s \in Slots |-> IF slots[s] \in {r} THEN NoRequest ELSE slots[s]]
  <2>1. {r} \in SUBSET Requests /\ ReleaseSlots({r})
    BY DEF Cancel
  <2> QED BY <2>1, ReleaseEmptiesRows
<1>2. UNCHANGED <<cfg, generated, draws, logits, phase>>
  BY DEF Cancel
<1>3. LogitsFollow'
  <2>1. \A s \in Occupied' : s \in Occupied /\ slots'[s] = slots[s]
    BY <1>1 DEF Occupied
  <2> QED BY <1>2, <2>1 DEF Answers, LogitsFollow, Undecoded
<1> QED BY <1>2, <1>3, SameOutput DEF Answers

LEMMA AdmitAnswers ==
  ASSUME OnlyAdmissionFails, Inv, Answers, AdmitBatch
  PROVE  Answers'
<1>1. /\ logits' = [s \in Slots |-> IF s \in AdmittedRows THEN [seen |-> 0, finite |-> TRUE]
                                                           ELSE logits[s]]
  <2>1. "nonfinite" \notin Faults
    BY DEF OnlyAdmissionFails
  <2> QED BY <2>1 DEF AdmitBatch
<1>2. /\ slots' = [s \in Slots |-> IF s \in AdmittedRows THEN RequestFor(s) ELSE slots[s]]
      /\ phase = "admit" /\ phase' = "admit"
      /\ UNCHANGED <<cfg, generated, draws>>
  BY DEF AdmitBatch
<1>3. \A s \in AdmittedRows : generated[RequestFor(s)] = <<>>
  <2>1. \A s \in AdmittedRows : RequestFor(s) \in Pending
    BY AdmissionIsInjective DEF AdmitBatch
  <2> QED BY <2>1 DEF Pending, Inv, RequestsFit
<1>4. LogitsFollow'
  <2> SUFFICES ASSUME NEW s \in Occupied'
               PROVE  logits'[s].finite /\ Len(generated[slots'[s]]) = logits'[s].seen + 0
    BY <1>2 DEF LogitsFollow, Undecoded
  <2>1. s \in Slots
    BY DEF Occupied
  <2>2. CASE s \in AdmittedRows
    BY <1>1, <1>2, <1>3, <2>1, <2>2
  <2>3. CASE s \notin AdmittedRows
    <3>1. s \in Occupied
      BY <1>2, <2>1, <2>3 DEF Occupied
    <3>2. logits[s].finite /\ Len(generated[slots[s]]) = logits[s].seen + 0
      BY <1>2, <3>1 DEF Answers, LogitsFollow, Undecoded
    <3> QED BY <1>1, <1>2, <2>1, <2>3, <3>2
  <2> QED BY <2>2, <2>3
<1> QED BY <1>2, <1>4, SameOutput DEF Answers

LEMMA DecodeAnswers ==
  ASSUME OnlyAdmissionFails, Inv, Answers, DecodeRows
  PROVE  Answers'
<1>1. logits' = [s \in Slots |->
        IF s \in Occupied THEN [seen |-> logits[s].seen + 1, finite |-> TRUE] ELSE logits[s]]
  <2>1. "nonfinite" \notin Faults
    BY DEF OnlyAdmissionFails
  <2> QED BY <2>1 DEF DecodeRows, NewLogits
<1>2. Undecoded = 1 /\ Undecoded' = 0 /\ UNCHANGED <<cfg, generated, draws, slots>>
  BY DEF DecodeRows, Undecoded, requestVars
<1>3. LogitsFollow'
  <2> SUFFICES ASSUME NEW s \in Occupied
               PROVE  logits'[s].finite /\ Len(generated[slots[s]]) = logits'[s].seen + 0
    BY <1>2 DEF LogitsFollow, Occupied
  <2>1. s \in Slots /\ Len(generated[slots[s]]) = logits[s].seen + 1 /\ logits[s].seen \in Nat
    BY <1>2 DEF Answers, LogitsFollow, Occupied, Inv, TypeOK
  <2> QED BY <1>1, <2>1
<1> QED BY <1>2, <1>3, SameOutput DEF Answers

\* Under this assumption no decode throws, so the other steps leave alone what the
\* answers depend on.
LEMMA AnswersStep ==
  ASSUME OnlyAdmissionFails, Inv, BatchKept, ViewsEndAtLongestRow, Answers, [Next]_vars
  PROVE  Answers'
<1>1. CASE \E r \in Requests, c \in Workload : Submit(r, c)
  BY <1>1, SubmitAnswers
<1>2. CASE \E r \in Requests : Cancel(r)
  BY <1>2, CancelAnswers
<1>3. CASE StepBegin \/ AdmitFails \/ AdmitDone
  <2>1. UNCHANGED <<cfg, generated, draws, slots, logits>>
    BY <1>3 DEF StepBegin, AdmitFails, AdmitDone, requestVars
  <2>2. Undecoded = 0 /\ Undecoded' = 0
    BY <1>3 DEF StepBegin, AdmitFails, AdmitDone, Undecoded
  <2>3. LogitsFollow'
    BY <2>1, <2>2 DEF Answers, LogitsFollow, Occupied
  <2> QED BY <2>1, <2>3, SameOutput DEF Answers
<1>4. CASE AdmitBatch
  BY <1>4, AdmitAnswers
<1>5. CASE \E stopping \in SUBSET Decoding : SelectTokens(stopping)
  BY <1>5, SelectAnswers
<1>6. CASE DecodeRows
  BY <1>6, DecodeAnswers
<1>7. ASSUME DecodeFails PROVE FALSE
  <2>1. phase = "decode" /\ "decode" \notin Faults
    BY <1>7 DEF DecodeFails, OnlyAdmissionFails
  <2>2. ViewMatches /\ RoomLeft
    BY <2>1, ViewsMatchTheDecode
  <2> QED BY <1>7, <2>1, <2>2 DEF DecodeFails, Fail
<1>8. ASSUME \E s \in Slots : CopyFails(s) PROVE FALSE
  BY <1>8 DEF CopyFails, Fail, OnlyAdmissionFails
<1>9. CASE UNCHANGED vars
  <2>1. UNCHANGED <<cfg, generated, draws, slots, logits, phase>>
    BY <1>9 DEF vars, requestVars
  <2>2. LogitsFollow'
    BY <2>1 DEF Answers, LogitsFollow, Occupied, Undecoded
  <2> QED BY <2>1, <2>2, SameOutput DEF Answers
<1> QED BY <1>1, <1>2, <1>3, <1>4, <1>5, <1>6, <1>7, <1>8, <1>9 DEF Next, Step

LEMMA AnswersInvariance ==
  ASSUME OnlyAdmissionFails
  PROVE  Spec => [](Inv /\ BatchKept /\ ViewsEndAtLongestRow /\ Answers)
<1>1. "decode" \notin Faults
  BY DEF OnlyAdmissionFails
<1>2. Init => Answers
  <2> SUFFICES ASSUME Init PROVE Answers
    OBVIOUS
  <2>1. LogitsFollow
    BY DEF Init, LogitsFollow, Occupied
  <2>2. \A r \in Requests : generated[r] = <<>> /\ Len(generated[r]) = 0 /\ draws[r] = 0
    BY DEF Init
  <2>3. DrawsFollow /\ OutputMatchesReference
    BY <2>2 DEF DrawsFollow, OutputMatchesReference
  <2> QED BY <2>1, <2>3 DEF Answers
<1>3. Inv /\ BatchKept /\ ViewsEndAtLongestRow /\ Answers /\ [Next]_vars => Answers'
  BY AnswersStep
<1> QED BY <1>1, <1>2, <1>3, ViewsInvariance, PTL DEF Spec

\* "The scheduled answer is the same as calling generate() for each": while no
\* decode throws and all logits are finite, every token a request has was selected
\* after exactly its own earlier tokens, with as many draws of its own generator,
\* however batches mix, rows are refilled and prefills or allocations fail.
THEOREM AnswersAreTheirOwn ==
  ASSUME OnlyAdmissionFails
  PROVE  Spec => []OutputMatchesReference
BY AnswersInvariance, PTL DEF Answers

-----------------------------------------------------------------------------
(* The refinement: what each step is in RequestLifecycle.                  *)

LEMMA SameRequests == Requests = Lifecycle!Requests
BY DEF Requests, Lifecycle!Requests

LEMMA SubmitImplements ==
  ASSUME NEW r \in Requests, NEW c \in Workload, Submit(r, c)
  PROVE  Lifecycle!Submit(r, c)
BY DEF Submit, Lifecycle!Submit

LEMMA CancelImplements ==
  ASSUME NEW r \in Requests, Cancel(r)
  PROVE  Lifecycle!Cancel(r)
BY SameRequests DEF Cancel, Active, Pending, Decoding, Lifecycle!Cancel, Lifecycle!Active

\* A batch that is admitted is a prefill of its requests; it is never empty.
LEMMA AdmitImplements ==
  ASSUME Inv, AdmitBatch
  PROVE  \E batch \in SUBSET Lifecycle!Requests : Lifecycle!Prefill(batch)
<1>1. Pending # {} /\ Free # {} /\ AdmittedRequests \subseteq Pending
  BY AdmittedWerePending DEF AdmitBatch
<1>2. AdmittedRequests # {}
  BY <1>1, OldestIsServed
<1>3. Lifecycle!Prefill(AdmittedRequests)
  BY <1>1, <1>2, SameRequests DEF AdmitBatch, Pending, Lifecycle!Prefill
<1>4. AdmittedRequests \in SUBSET Lifecycle!Requests
  BY <1>1, SameRequests DEF Pending
<1> QED BY <1>3, <1>4

\* A selection emits the next token of every request that holds a row.
LEMMA SelectImplements ==
  ASSUME Inv, BatchKept, Answers, NEW stopping \in SUBSET Decoding, SelectTokens(stopping)
  PROVE  \E batch \in SUBSET Lifecycle!Requests :
           \E ending \in SUBSET batch : Lifecycle!Emit(batch, ending)
<1> DEFINE batch == Holders(Occupied)
           full == {r \in batch : Len(generated[r]) + 1 = cfg[r].maxNew}
<1>1. /\ Selected = Occupied
      /\ \A r \in batch :
           SelectedToken(r) = [seen |-> Len(generated[r]),
                               draw |-> IF cfg[r].sampled THEN Len(generated[r]) ELSE 0]
  BY SelectionIsNext
<1>2. batch \subseteq Decoding /\ batch \subseteq Requests /\ stopping \in SUBSET batch
  BY <1>1, SelectionIsOfDecoding DEF Decoding
<1>3. batch # {}
  BY DEF BatchKept, SelectTokens, Holders
<1>4. full = Full
  BY <1>1 DEF Full
<1>5. generated' = [r \in Requests |->
        IF r \in batch THEN Append(generated[r], Lifecycle!TokenAfter(r, Len(generated[r])))
                       ELSE generated[r]]
  <2>1. generated' = [r \in Requests |->
          IF r \in batch THEN Append(generated[r], SelectedToken(r)) ELSE generated[r]]
    BY <1>1 DEF SelectTokens
  <2>2. \A r \in batch : SelectedToken(r) = Lifecycle!TokenAfter(r, Len(generated[r]))
    BY <1>1 DEF Lifecycle!TokenAfter
  <2> HIDE DEF batch
  <2> QED BY <2>1, <2>2
<1>6. /\ state' = [r \in Requests |-> IF r \in stopping \cup full THEN "Completed" ELSE state[r]]
      /\ reason' = [r \in Requests |-> IF r \in stopping THEN "StopToken"
                                       ELSE IF r \in full THEN "Length" ELSE reason[r]]
      /\ cfg' = cfg
  BY <1>4 DEF SelectTokens
<1>7. \A r \in batch : state[r] = "Decoding"
  BY <1>2 DEF Decoding
<1>8. Lifecycle!Emit(batch, stopping)
  <2> HIDE DEF batch
  <2> QED BY <1>3, <1>5, <1>6, <1>7, SameRequests DEF Lifecycle!Emit
<1> QED BY <1>2, <1>8, SameRequests

\* While no decode throws and all logits are finite, the batched scheduler is an
\* implementation of the lifecycle the reference scheduler defines: every step of
\* it prefills a batch, emits one token for every request of one, or is none that
\* a caller sees.
THEOREM ImplementsLifecycle ==
  ASSUME OnlyAdmissionFails
  PROVE  Spec => RefinesLifecycle
<1>1. Init => Lifecycle!Init
  BY DEF Init, Lifecycle!Init, NoConfig, Lifecycle!NoConfig, Requests, Lifecycle!Requests
<1>2. Inv /\ BatchKept /\ ViewsEndAtLongestRow /\ Answers /\ [Next]_vars
      => [Lifecycle!Next]_(Lifecycle!lifecycleVars)
  <2> SUFFICES ASSUME Inv, BatchKept, ViewsEndAtLongestRow, Answers, [Next]_vars
               PROVE  Lifecycle!Next \/ UNCHANGED Lifecycle!lifecycleVars
    OBVIOUS
  <2>1. CASE \E r \in Requests, c \in Workload : Submit(r, c)
    BY <2>1, SubmitImplements, SameRequests DEF Lifecycle!Next
  <2>2. CASE \E r \in Requests : Cancel(r)
    BY <2>2, CancelImplements, SameRequests DEF Lifecycle!Next
  <2>3. CASE AdmitBatch
    BY <2>3, AdmitImplements DEF Lifecycle!Next
  <2>4. CASE \E stopping \in SUBSET Decoding : SelectTokens(stopping)
    BY <2>4, SelectImplements DEF Lifecycle!Next
  <2>5. CASE \/ StepBegin \/ AdmitFails \/ AdmitDone \/ DecodeRows \/ DecodeFails
             \/ \E s \in Slots : CopyFails(s)
             \/ UNCHANGED vars
    BY <2>5, SameRequestRecords DEF Lifecycle!lifecycleVars
  <2> QED BY <2>1, <2>2, <2>3, <2>4, <2>5 DEF Next, Step
<1> QED
  BY <1>1, <1>2, AnswersInvariance, PTL DEF Spec, RefinesLifecycle, Lifecycle!LifecycleSpec

-----------------------------------------------------------------------------
(* The scheduler gets on.  That every request ends (EveryRequestEnds) is a *)
(* matter of fairness and stays with TLC; these are the two facts the      *)
(* argument rests on: while a request is active a step can go on that does *)
(* not throw, and every step but a submission comes closer to being idle.  *)

\* The instances in which only prefills and copies of logits throw.
DecodesSucceed == Faults \subseteq {"prefill", "copy"}

\* When the guard of a step holds that does not throw.
CanProceed ==
  \/ phase = "idle" /\ Active # {}
  \/ phase = "admit" /\ (Pending = {} \/ Free = {} \/ storage # "partial")
  \/ phase = "select" /\ Bad = {}
  \/ phase = "decode" /\ ViewMatches /\ RoomLeft
StepMoves == Active # {} => CanProceed

\* The layers are complete or not allocated, the logits are finite, and step() admits
\* because of an active request.
StepFollows ==
  /\ storage # "partial"
  /\ \A s \in Slots : logits[s].finite
  /\ phase = "admit" => Active # {}

\* How far the scheduler is from being idle: the failures to come, the tokens to come (the
\* admission of a pending request counted as its token zero), and the phases of the step.
Due(r, k) ==
  /\ k <= cfg[r].maxNew
  /\ r \in Pending \/ (r \in Decoding /\ Len(generated[r]) < k)
TokensDue == {e \in Requests \X (0 .. Capacity) : Due(e[1], e[2])}
PhasesLeft == [decode |-> 3, idle |-> 2, admit |-> 1, select |-> 0]
FaultsLeft == MaxFaults - faults
Distance == <<<<FaultsLeft, Cardinality(TokensDue)>>, PhasesLeft[phase]>>

Smaller == OpToRel(<, Nat)
Shorter == LexPairOrdering(LexPairOrdering(Smaller, Smaller, Nat, Nat), Smaller, Nat \X Nat, Nat)
Nearer == <<Distance', Distance>> \in Shorter
OnlySubmissionsAdd == (\E r \in Requests, c \in Workload : Submit(r, c)) \/ Nearer

Measured ==
  /\ IsFiniteSet(TokensDue) /\ Cardinality(TokensDue) \in Nat
  /\ FaultsLeft \in Nat /\ PhasesLeft[phase] \in Nat
  /\ Distance \in (Nat \X Nat) \X Nat

LEMMA DistanceTypes == TypeOK => Measured
<1> SUFFICES ASSUME TypeOK PROVE Measured
  OBVIOUS
<1>1. IsFiniteSet(Requests) /\ IsFiniteSet(0 .. Capacity)
  BY FiniteSets, ConstantsAssumption, FS_Interval
<1>2. IsFiniteSet(Requests \X (0 .. Capacity))
  BY <1>1, FS_Product
<1>3. TokensDue \subseteq Requests \X (0 .. Capacity)
  BY DEF TokensDue
<1>4. IsFiniteSet(TokensDue)
  BY <1>2, <1>3, FS_Subset
<1>5. Cardinality(TokensDue) \in Nat
  BY <1>4, FS_CardinalityType
<1>6. FaultsLeft \in Nat
  <2>1. faults \in 0 .. MaxFaults /\ MaxFaults \in Nat
    BY ConstantsAssumption DEF TypeOK
  <2> QED BY <2>1 DEF FaultsLeft
<1>7. PhasesLeft[phase] \in Nat
  BY DEF TypeOK, PhasesLeft
<1> QED BY <1>4, <1>5, <1>6, <1>7 DEF Measured, Distance

LEMMA NearerIs ==
  ASSUME Measured, Measured',
         \/ FaultsLeft' < FaultsLeft
         \/ FaultsLeft' = FaultsLeft /\ Cardinality(TokensDue)' < Cardinality(TokensDue)
         \/ /\ FaultsLeft' = FaultsLeft /\ TokensDue' = TokensDue
            /\ PhasesLeft[phase'] < PhasesLeft[phase]
  PROVE  Nearer
<1> DEFINE f == FaultsLeft
           n == Cardinality(TokensDue)
           p == PhasesLeft[phase]
           g == FaultsLeft'
           m == Cardinality(TokensDue)'
           q == PhasesLeft[phase']
<1>1. {f, n, p, g, m, q} \subseteq Nat /\ Distance = <<<<f, n>>, p>> /\ Distance' = <<<<g, m>>, q>>
  BY DEF Measured, Distance
<1>2. g < f \/ (g = f /\ m < n) \/ (g = f /\ m = n /\ q < p)
  OBVIOUS
<1> HIDE DEF f, n, p, g, m, q
<1>3. \A x, y \in Nat : <<x, y>> \in Smaller <=> x < y
  BY DEF Smaller, OpToRel
<1>4. <<<<g, m>>, <<f, n>>>> \in LexPairOrdering(Smaller, Smaller, Nat, Nat)
        <=> g < f \/ (g = f /\ m < n)
  BY <1>1, <1>3 DEF LexPairOrdering
<1>5. <<<<<<g, m>>, q>>, <<<<f, n>>, p>>>> \in Shorter
        <=> \/ <<<<g, m>>, <<f, n>>>> \in LexPairOrdering(Smaller, Smaller, Nat, Nat)
            \/ <<g, m>> = <<f, n>> /\ <<q, p>> \in Smaller
  <2> HIDE DEF Smaller
  <2> QED BY <1>1 DEF Shorter, LexPairOrdering
<1> QED BY <1>1, <1>2, <1>3, <1>4, <1>5 DEF Nearer

\* No token is added and one is taken away.
LEMMA OneTokenLess ==
  ASSUME Measured, FaultsLeft' = FaultsLeft, Measured',
         \A r \in Requests : \A k \in 0 .. Capacity : Due(r, k)' => Due(r, k),
         NEW q \in Requests, NEW i \in 0 .. Capacity, Due(q, i), ~Due(q, i)'
  PROVE  Nearer
<1>1. TokensDue' \subseteq TokensDue
  BY DEF TokensDue
<1>2. <<q, i>> \in TokensDue /\ <<q, i>> \notin TokensDue'
  BY DEF TokensDue
<1>3. /\ Cardinality(TokensDue') <= Cardinality(TokensDue)
      /\ Cardinality(TokensDue') # Cardinality(TokensDue)
  BY <1>1, <1>2, FS_Subset DEF Measured
<1>4. Cardinality(TokensDue') \in Nat /\ Cardinality(TokensDue) \in Nat
  BY DEF Measured
<1>5. Cardinality(TokensDue') < Cardinality(TokensDue)
  BY <1>3, <1>4
<1> QED BY <1>5, NearerIs

LEMMA SameTokens ==
  ASSUME UNCHANGED <<state, cfg, generated>>
  PROVE  TokensDue' = TokensDue /\ Active' = Active
BY DEF TokensDue, Due, Active, Pending, Decoding

\* What a request that has tokens to come waits for.
LEMMA TokenInRange ==
  ASSUME Inv, NEW r \in Active
  PROVE  /\ r \in Requests /\ Len(generated[r]) \in Nat /\ cfg[r].maxNew \in Nat
         /\ Len(generated[r]) + 1 \in 0 .. Capacity /\ Len(generated[r]) + 1 <= cfg[r].maxNew
<1>1. r \in Requests /\ Len(generated[r]) < cfg[r].maxNew
  BY DEF Inv, RequestsFit, Active, Pending, Decoding
<1>2. Len(generated[r]) \in Nat /\ cfg[r].maxNew \in Nat /\ cfg[r].prompt \in Nat
  BY <1>1, ConfigTypes DEF Inv
<1>3. cfg[r].prompt + cfg[r].maxNew <= Capacity /\ Capacity \in Nat
  BY <1>1, ConstantsAssumption DEF Inv, RequestsFit
<1> QED BY <1>1, <1>2, <1>3

LEMMA CancelNearer ==
  ASSUME Inv, Measured, Measured', NEW q \in Requests, Cancel(q)
  PROVE  Nearer
<1>1. /\ q \in Active /\ state' = [state EXCEPT ![q] = "Cancelled"]
      /\ UNCHANGED <<cfg, generated, faults>>
  BY DEF Cancel
<1>2. state \in [Requests -> {"Absent", "PendingPrefill", "Decoding", "Completed", "Cancelled"}]
  BY DEF Inv, TypeOK
<1>3. /\ \A r \in Requests : \A k \in 0 .. Capacity : Due(r, k)' => Due(r, k)
      /\ \A k : ~Due(q, k)'
  BY <1>1, <1>2 DEF Due, Pending, Decoding
<1>4. PICK i \in 0 .. Capacity : i <= cfg[q].maxNew /\ Len(generated[q]) < i
  BY <1>1, TokenInRange
<1>5. Due(q, i)
  BY <1>1, <1>4 DEF Due, Active
<1> QED BY <1>1, <1>3, <1>4, <1>5, OneTokenLess DEF FaultsLeft

LEMMA AdmitNearer ==
  ASSUME Inv, Measured, Measured', AdmitBatch
  PROVE  Nearer
<1>1. /\ Pending # {} /\ Free # {} /\ UNCHANGED <<cfg, generated, faults>>
      /\ state' = [r \in Requests |-> IF r \in AdmittedRequests THEN "Decoding" ELSE state[r]]
  BY DEF AdmitBatch
<1>2. PICK q : q \in Pending /\ q \in AdmittedRequests
  BY <1>1, OldestIsServed
<1>3. AdmittedRequests \subseteq Pending
  BY <1>1, AdmittedWerePending
<1>4. ASSUME NEW r \in Requests, NEW k \in 0 .. Capacity, Due(r, k)' PROVE Due(r, k)
  BY <1>1, <1>3, <1>4 DEF Due, Pending, Decoding
<1>5. q \in Requests /\ Len(generated[q]) \in Nat /\ cfg[q].maxNew \in Nat
  BY <1>2, TokenInRange DEF Active
<1>6. 0 \in 0 .. Capacity /\ 0 <= cfg[q].maxNew
  BY <1>5, ConstantsAssumption
<1>7. Due(q, 0)
  BY <1>2, <1>6 DEF Due
<1>8. ~Due(q, 0)'
  <2>1. q \notin Pending' /\ generated' = generated
    BY <1>1, <1>2, <1>5 DEF Pending
  <2>2. ~ (Len(generated[q]) < 0)
    BY <1>5
  <2> QED BY <2>1, <2>2 DEF Due
<1> QED BY <1>1, <1>4, <1>5, <1>6, <1>7, <1>8, OneTokenLess DEF FaultsLeft

LEMMA SelectNearer ==
  ASSUME Inv, BatchKept, StepFollows, Measured, Measured',
         NEW stopping \in SUBSET Decoding, SelectTokens(stopping)
  PROVE  Nearer
<1> DEFINE done == stopping \cup Full
<1>1. /\ state' = [r \in Requests |-> IF r \in done THEN "Completed" ELSE state[r]]
      /\ generated' = [r \in Requests |-> IF r \in Holders(Selected)
                         THEN Append(generated[r], SelectedToken(r)) ELSE generated[r]]
      /\ UNCHANGED <<cfg, faults>> /\ phase = "select"
  BY DEF SelectTokens
<1>2. Bad = {} /\ Selected = Occupied
  BY DEF StepFollows, Bad, Selected, BeforeBad, Occupied
<1>3. PICK q : q \in Holders(Selected)
  BY <1>1, <1>2 DEF BatchKept, Holders
<1>4. q \in Decoding /\ q \in Requests /\ q \in Active
  BY <1>2, <1>3 DEF Holders, Inv, SlotMapConsistent, Decoding, Active
<1> HIDE DEF done
<1>5. \A r \in Requests : /\ Len(generated[r]) \in Nat
                           /\ generated[r] \in Seq([seen : Nat, draw : Nat])
  BY ConfigTypes DEF Inv, TypeOK
<1>6. \A r \in Holders(Selected) \cap Requests : Len(generated'[r]) = Len(generated[r]) + 1
  <2> SUFFICES ASSUME NEW r \in Requests, r \in Holders(Selected)
               PROVE  Len(generated'[r]) = Len(generated[r]) + 1
    OBVIOUS
  <2> DEFINE t == SelectedToken(r)
             S == [seen : Nat, draw : Nat] \cup {t}
             g == generated[r]
  <2>1. generated'[r] = Append(g, t)
    BY <1>1
  <2>2. g \in Seq(S) /\ t \in S
    <3>1. g \in Seq([seen : Nat, draw : Nat])
      BY <1>5
    <3> QED BY <3>1, SeqMonotonic
  <2> HIDE DEF t, S, g
  <2>3. Len(Append(g, t)) = Len(g) + 1
    BY <2>2, AppendProperties
  <2> QED BY <2>1, <2>3 DEF g
<1>7. \A r \in Requests : Len(generated'[r]) \in Nat /\ Len(generated[r]) <= Len(generated'[r])
  <2> TAKE r \in Requests
  <2>1. CASE r \in Holders(Selected)
    BY <1>5, <1>6, <2>1
  <2>2. CASE r \notin Holders(Selected)
    BY <1>1, <1>5, <2>2
  <2> QED BY <2>1, <2>2
<1>8. ASSUME NEW r \in Requests, NEW k \in 0 .. Capacity, Due(r, k)' PROVE Due(r, k)
  <2>1. /\ r \in Pending' => r \in Pending
        /\ r \in Decoding' => r \in Decoding
    BY <1>1 DEF Pending, Decoding
  <2>2. Len(generated'[r]) < k => Len(generated[r]) < k
    BY <1>5, <1>7
  <2> QED BY <1>1, <1>8, <2>1, <2>2 DEF Due
<1>9. PICK i \in 0 .. Capacity :
        i <= cfg[q].maxNew /\ Len(generated[q]) < i /\ i = Len(generated[q]) + 1
  BY <1>4, TokenInRange
<1>10. Due(q, i)
  BY <1>4, <1>9 DEF Due
<1>11. ~Due(q, i)'
  <2>1. Len(generated'[q]) = i /\ i \in Nat
    BY <1>3, <1>4, <1>6, <1>9
  <2>2. q \notin Pending'
    BY <1>1, <1>4 DEF Pending, Decoding
  <2>3. ~ (Len(generated'[q]) < i)
    BY <2>1
  <2> QED BY <2>2, <2>3 DEF Due
<1> QED BY <1>1, <1>4, <1>8, <1>9, <1>10, <1>11, OneTokenLess DEF FaultsLeft

\* The steps that take no token: the phases count, or a failure is used up.
LEMMA FaultNearer ==
  ASSUME Measured, Measured', TypeOK, TypeOK', faults' = faults + 1
  PROVE  Nearer
<1>1. faults \in Nat /\ MaxFaults \in Nat
  BY ConstantsAssumption DEF TypeOK
<1>2. FaultsLeft' < FaultsLeft
  BY <1>1 DEF FaultsLeft
<1> QED BY <1>2, NearerIs

LEMMA AdmissionGoesOn ==
  ASSUME Inv, StepFollows, AdmitDone
  PROVE  phase' = "select"
<1>1. phase = "admit" /\ (Pending = {} \/ Free = {}) /\ Active # {}
  BY DEF AdmitDone, StepFollows
<1>2. Occupied # {}
  <2> SUFFICES ASSUME Occupied = {} PROVE FALSE
    OBVIOUS
  <2>1. Free # {}
    <3>1. 0 \in Slots
      BY ConstantsAssumption DEF Slots
    <3> QED BY <3>1 DEF Free
  <2>2. PICK r \in Decoding : TRUE
    BY <1>1, <2>1 DEF Active
  <2>3. slotOf[r] \in Slots /\ slots[slotOf[r]] = r /\ r # NoRequest
    BY <2>2 DEF Inv, SlotMapConsistent, Decoding, Requests, NoRequest
  <2> QED BY <2>3 DEF Occupied
<1> QED BY <1>1, <1>2 DEF AdmitDone

LEMMA QuietNearer ==
  ASSUME DecodesSucceed, Inv, Inv', BatchKept, ViewsEndAtLongestRow, StepFollows,
         Measured, Measured',
         \/ StepBegin \/ AdmitFails \/ AdmitDone \/ DecodeRows \/ DecodeFails
         \/ \E s \in Slots : CopyFails(s)
  PROVE  Nearer
<1>1. TokensDue' = TokensDue
  BY SameRequestRecords, SameTokens
<1>2. CASE StepBegin
  <2>1. faults' = faults /\ PhasesLeft[phase'] < PhasesLeft[phase]
    BY <1>2 DEF StepBegin, PhasesLeft
  <2> QED BY <1>1, <2>1, NearerIs DEF FaultsLeft
<1>3. CASE AdmitDone
  <2>1. faults' = faults /\ PhasesLeft[phase'] < PhasesLeft[phase]
    BY <1>3, AdmissionGoesOn DEF AdmitDone, PhasesLeft
  <2> QED BY <1>1, <2>1, NearerIs DEF FaultsLeft
<1>4. CASE DecodeRows
  <2>1. faults' = faults /\ PhasesLeft[phase'] < PhasesLeft[phase]
    BY <1>4 DEF DecodeRows, PhasesLeft
  <2> QED BY <1>1, <2>1, NearerIs DEF FaultsLeft
<1>5. CASE AdmitFails
  <2>1. faults' = faults + 1
    BY <1>5 DEF AdmitFails, Fail, StepFollows
  <2> QED BY <2>1, FaultNearer DEF Inv
<1>6. CASE \E s \in Slots : CopyFails(s)
  <2>1. faults' = faults + 1
    BY <1>6 DEF CopyFails, Fail
  <2> QED BY <2>1, FaultNearer DEF Inv
<1>7. CASE DecodeFails
  <2>1. phase = "decode"
    BY <1>7 DEF DecodeFails
  <2>2. ViewMatches /\ RoomLeft
    BY <2>1, ViewsMatchTheDecode
  <2> QED BY <1>7, <2>2 DEF DecodeFails, Fail, DecodesSucceed
<1> QED BY <1>2, <1>3, <1>4, <1>5, <1>6, <1>7

LEMMA FollowsKept ==
  ASSUME DecodesSucceed, Inv, StepFollows, [Next]_vars
  PROVE  StepFollows'
<1>0. "allocate" \notin Faults /\ "nonfinite" \notin Faults
  BY DEF DecodesSucceed
<1>1. CASE \E r \in Requests, c \in Workload : Submit(r, c)
  BY <1>1 DEF Submit, cacheVars, StepFollows
<1>2. CASE \E r \in Requests : Cancel(r)
  BY <1>2 DEF Cancel, ReleaseSlots, ResetRows, StepFollows
<1>3. CASE StepBegin
  BY <1>3, SameRequestRecords, SameTokens DEF StepBegin, cacheVars, StepFollows
<1>4. CASE AdmitBatch
  <2>1. /\ storage' = "ready" /\ phase = "admit" /\ Pending # {}
        /\ logits' = [s \in Slots |-> IF s \in AdmittedRows THEN [seen |-> 0, finite |-> TRUE]
                                                             ELSE logits[s]]
        /\ state' = [r \in Requests |-> IF r \in AdmittedRequests THEN "Decoding" ELSE state[r]]
    BY <1>0, <1>4 DEF AdmitBatch
  <2>2. \A s \in Slots : logits'[s].finite
    BY <2>1 DEF StepFollows
  <2>3. Active' # {}
    BY <2>1 DEF StepFollows, Active, Pending, Decoding
  <2> QED BY <2>1, <2>2, <2>3 DEF StepFollows
<1>5. CASE AdmitFails
  BY <1>0, <1>5 DEF AdmitFails, Fail, StepFollows
<1>6. CASE AdmitDone
  BY <1>6 DEF AdmitDone, cacheVars, StepFollows
<1>7. CASE \E stopping \in SUBSET Decoding : SelectTokens(stopping)
  BY <1>7 DEF SelectTokens, ReleaseSlots, ResetRows, StepFollows
<1>8. ASSUME NEW rows, logits' \in NewLogits(rows) PROVE \A s \in Slots : logits'[s].finite
  <2>1. logits' = [s \in Slots |-> IF s \in rows
                     THEN [seen |-> logits[s].seen + 1, finite |-> TRUE] ELSE logits[s]]
    BY <1>0, <1>8 DEF NewLogits
  <2> QED BY <2>1 DEF StepFollows
<1>9. CASE DecodeRows
  <2>1. logits' \in NewLogits(Occupied) /\ storage' = storage /\ phase' = "idle"
    BY <1>9 DEF DecodeRows
  <2> QED BY <1>8, <2>1 DEF StepFollows
<1>10. CASE DecodeFails
  BY <1>10 DEF DecodeFails, StepFollows
<1>11. CASE \E s \in Slots : CopyFails(s)
  <2>1. PICK b \in Slots : CopyFails(b)
    BY <1>11
  <2>2. logits' \in NewLogits({s \in Occupied : s < b}) /\ storage' = storage /\ phase' = "idle"
    BY <2>1 DEF CopyFails
  <2> QED BY <1>8, <2>2 DEF StepFollows
<1>12. CASE UNCHANGED vars
  BY <1>12, SameTokens DEF vars, cacheVars, requestVars, StepFollows
<1> QED BY <1>1, <1>2, <1>3, <1>4, <1>5, <1>6, <1>7, <1>9, <1>10, <1>11, <1>12 DEF Next, Step

LEMMA StepsCount ==
  ASSUME DecodesSucceed, Inv, Inv', BatchKept, ViewsEndAtLongestRow, StepFollows,
         Measured, Measured', Next
  PROVE  OnlySubmissionsAdd
<1>1. ASSUME NEW r \in Requests, Cancel(r) PROVE Nearer
  BY <1>1, CancelNearer
<1>2. ASSUME AdmitBatch PROVE Nearer
  BY <1>2, AdmitNearer
<1>3. ASSUME NEW stopping \in SUBSET Decoding, SelectTokens(stopping) PROVE Nearer
  BY <1>3, SelectNearer
<1> QED BY <1>1, <1>2, <1>3, QuietNearer DEF OnlySubmissionsAdd, Next, Step

LEMMA StepGuards ==
  ASSUME Inv, BatchKept, ViewsEndAtLongestRow, StepFollows
  PROVE  StepMoves
<1>1. phase \in {"idle", "admit", "select", "decode"}
  BY DEF Inv, TypeOK
<1>2. Bad = {}
  BY DEF StepFollows, Bad, Occupied
<1> QED BY <1>1, <1>2, ViewsMatchTheDecode DEF StepFollows, StepMoves, CanProceed

LEMMA GoesOn ==
  ASSUME DecodesSucceed
  PROVE  Spec => [](Inv /\ BatchKept /\ ViewsEndAtLongestRow /\ StepFollows /\ Measured)
<1>1. "decode" \notin Faults
  BY DEF DecodesSucceed
<1>2. Init => StepFollows
  BY DEF Init, StepFollows, NoLogits
<1>3. Inv /\ StepFollows /\ [Next]_vars => StepFollows'
  BY FollowsKept
<1>4. Inv => Measured
  BY DistanceTypes DEF Inv
<1>5. Spec => [](Inv /\ BatchKept /\ ViewsEndAtLongestRow)
  BY <1>1, ViewsInvariance
<1> QED BY <1>2, <1>3, <1>4, <1>5, PTL DEF Spec

\* While a request is active, step() has a next phase that does not throw, and every
\* step but a submission, a failed one included, brings the scheduler nearer to being idle,
\* by an order in which nothing comes nearer for ever: as long as decodes succeed and
\* logits are finite, no request waits behind others for ever.
THEOREM EveryStepServes ==
  ASSUME DecodesSucceed
  PROVE  /\ IsWellFoundedOn(Shorter, (Nat \X Nat) \X Nat)
         /\ Spec => [](StepMoves /\ Distance \in (Nat \X Nat) \X Nat)
         /\ Spec => [][OnlySubmissionsAdd]_vars
<1>1. IsWellFoundedOn(Shorter, (Nat \X Nat) \X Nat)
  <2>1. IsWellFoundedOn(Smaller, Nat)
    BY NatLessThanWellFounded DEF Smaller
  <2>2. IsWellFoundedOn(LexPairOrdering(Smaller, Smaller, Nat, Nat), Nat \X Nat)
    BY <2>1, WFLexPairOrdering
  <2> QED BY <2>1, <2>2, WFLexPairOrdering DEF Shorter
<1>2. Inv /\ BatchKept /\ ViewsEndAtLongestRow /\ StepFollows /\ Measured
      => StepMoves /\ Distance \in (Nat \X Nat) \X Nat
  BY StepGuards DEF Measured
<1>3. Spec => [](StepMoves /\ Distance \in (Nat \X Nat) \X Nat)
  BY <1>2, GoesOn, PTL
<1>4. /\ Inv /\ BatchKept /\ ViewsEndAtLongestRow /\ StepFollows /\ Measured
      /\ Inv' /\ Measured' /\ [Next]_vars
      => [OnlySubmissionsAdd]_vars
  BY StepsCount
<1>5. Spec => [][OnlySubmissionsAdd]_vars
  BY <1>4, GoesOn, PTL DEF Spec
<1> QED BY <1>1, <1>3, <1>5
=============================================================================
