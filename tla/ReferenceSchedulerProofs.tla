---------------------- MODULE ReferenceSchedulerProofs ----------------------
(***************************************************************************)
(* Theorems about ReferenceScheduler, for every number of requests, every  *)
(* capacity, workload and set of faults: what a request's cache holds      *)
(* after any call, failed or not, that the scheduler implements            *)
(* RequestLifecycle as long as no decode fails, and that every step of it  *)
(* brings its requests nearer to their end.                                *)
(***************************************************************************)
EXTENDS ReferenceScheduler, FiniteSetTheorems, NaturalsInduction, WellFoundedInduction,
        SequenceTheorems, TLAPS


\* Every non-empty set of naturals has a least element, and CHOOSE finds it.
LEMMA LeastElement ==
  ASSUME NEW T, T \subseteq Nat, T # {}
  PROVE  /\ (CHOOSE x \in T : \A y \in T : x <= y) \in T
         /\ \A y \in T : (CHOOSE x \in T : \A z \in T : x <= z) <= y
<1>1. PICK x \in T : \A y \in T : ~ (<<y, x>> \in OpToRel(<, Nat))
  BY NatLessThanWellFounded, WFMin
<1>2. ASSUME NEW y \in T PROVE ~ (y < x)
  <2>1. y < x => <<y, x>> \in OpToRel(<, Nat)
    <3>1. ASSUME y < x PROVE <<y, x>> \in {ss \in Nat \X Nat : ss[1] < ss[2]}
      BY <3>1
    <3> QED BY <3>1, Zenon DEF OpToRel
  <2> QED BY <1>1, <2>1, Zenon
<1>3. \A y \in T : x <= y
  <2> TAKE y \in T
  <2>1. ~ (y < x)
    BY <1>2
  <2>2. x \in Nat /\ y \in Nat
    OBVIOUS
  <2> QED BY <2>1, <2>2
<1> DEFINE Least(z) == \A y \in T : z <= y
<1>4. \E z \in T : Least(z)
  BY <1>3
<1> HIDE DEF Least
<1>5. (CHOOSE z \in T : Least(z)) \in T /\ Least(CHOOSE z \in T : Least(z))
  BY <1>4
<1> QED BY <1>5 DEF Least

\* The request that the loop of step() goes on with, if there is one, is not
\* terminal and comes later.
LEMMA AdvanceGoesOn ==
  ASSUME NEW from \in Nat, NEW active \in SUBSET Requests, Advance(from, active)
  PROVE  cursor' = 0 \/ (cursor' \in active /\ cursor' > from)
<1> DEFINE rest == {r \in active : r > from}
<1>1. CASE rest = {}
  BY <1>1 DEF Advance
<1>2. CASE rest # {}
  <2>1. \A r \in Requests : r \in Nat
    BY DEF Requests
  <2>2. rest \subseteq Nat
    BY <2>1
  <2>3. cursor' = CHOOSE r \in rest : \A q \in rest : r <= q
    BY <1>2 DEF Advance
  <2> HIDE DEF rest
  <2>4. cursor' \in rest
    BY <1>2, <2>2, <2>3, LeastElement
  <2> QED BY <2>4 DEF rest
<1> QED BY <1>1, <1>2

-----------------------------------------------------------------------------
(* Types and caches.                                                       *)

\* The loop of step() is at a request that is not terminal, and it decodes only
\* a prefilled one.
CursorOnActive ==
  /\ cursor # 0 => cursor \in Active
  /\ decoding => cursor # 0 /\ state[cursor] = "Decoding"

Inv == TypeOK /\ CursorOnActive /\ CacheFollowsRequest

\* What the arithmetic of the proofs needs of the types.
LEMMA RequestTypes ==
  ASSUME TypeOK
  PROVE  \A r \in Requests :
           /\ cfg[r].prompt \in Nat /\ cfg[r].maxNew \in Nat /\ cfg[r].sampled \in BOOLEAN
           /\ logits[r].seen \in Nat /\ logits[r].finite \in BOOLEAN
           /\ logits[r] = [seen |-> logits[r].seen, finite |-> logits[r].finite]
           /\ draws[r] \in Nat /\ position[r] \in Nat /\ prefix[r] \in Nat
           /\ Len(generated[r]) \in Nat
<1> SUFFICES ASSUME NEW r \in Requests
             PROVE  /\ cfg[r].prompt \in Nat /\ cfg[r].maxNew \in Nat
                    /\ cfg[r].sampled \in BOOLEAN
                    /\ logits[r].seen \in Nat /\ logits[r].finite \in BOOLEAN
                    /\ logits[r] = [seen |-> logits[r].seen, finite |-> logits[r].finite]
                    /\ draws[r] \in Nat /\ position[r] \in Nat /\ prefix[r] \in Nat
                    /\ Len(generated[r]) \in Nat
  OBVIOUS
<1>1. cfg[r] \in Workload \cup {NoConfig}
  BY DEF TypeOK
<1>2. cfg[r] \in [prompt : Nat, maxNew : Nat, sampled : BOOLEAN]
  <2>1. CASE cfg[r] = NoConfig
    BY <2>1 DEF NoConfig
  <2>2. CASE cfg[r] \in Workload
    <3>1. cfg[r] \in [prompt : Nat \ {0}, maxNew : Nat, sampled : BOOLEAN]
      BY <2>2, ConstantsAssumption
    <3> QED BY <3>1
  <2> QED BY <1>1, <2>1, <2>2
<1>3. cfg[r].prompt \in Nat /\ cfg[r].maxNew \in Nat /\ cfg[r].sampled \in BOOLEAN
  BY <1>2
<1>4. logits[r] \in [seen : Nat, finite : BOOLEAN]
  BY DEF TypeOK
<1>5. draws[r] \in Nat /\ position[r] \in Nat /\ prefix[r] \in Nat
  BY DEF TypeOK
<1>6. generated[r] \in Seq([seen : Nat, draw : Nat])
  BY DEF TypeOK
<1>7. Len(generated[r]) \in Nat
  BY <1>6, LenProperties
<1> QED BY <1>3, <1>4, <1>5, <1>7

LEMMA InitInv == Init => Inv
<1> SUFFICES ASSUME Init PROVE Inv
  OBVIOUS
<1>1. <<>> \in Seq([seen : Nat, draw : Nat])
  OBVIOUS
<1>2. generated \in [Requests -> Seq([seen : Nat, draw : Nat])]
  BY <1>1 DEF Init
<1>3. logits \in [Requests -> [seen : Nat, finite : BOOLEAN]]
  BY DEF Init, NoLogits
<1>4. 0 \in 0..MaxRequests /\ 0 \in 0..MaxFaults
  BY ConstantsAssumption
<1>5. TypeOK
  BY <1>2, <1>3, <1>4 DEF Init, TypeOK
<1> QED BY <1>5 DEF Init, Inv, CursorOnActive, CacheFollowsRequest, Active

LEMMA SubmitInv ==
  ASSUME Inv, NEW r \in Requests, NEW c \in Workload, Submit(r, c)
  PROVE  Inv'
<1>1. TypeOK'
  BY DEF Inv, TypeOK, Submit
<1>2. CursorOnActive'
  BY DEF Inv, CursorOnActive, Submit
<1>3. CacheFollowsRequest'
  <2> SUFFICES ASSUME NEW q \in Requests
               PROVE  position'[q] = IF state'[q] = "Decoding"
                                     THEN cfg'[q].prompt + logits'[q].seen ELSE 0
    BY DEF CacheFollowsRequest
  <2>1. position[q] = IF state[q] = "Decoding" THEN cfg[q].prompt + logits[q].seen ELSE 0
    BY DEF Inv, CacheFollowsRequest
  <2>2. state \in [Requests -> {"Absent", "PendingPrefill", "Decoding", "Completed", "Cancelled"}]
    BY DEF Inv, TypeOK
  <2>3. q # r => state'[q] = state[q] /\ cfg'[q] = cfg[q]
    BY DEF Inv, TypeOK, Submit
  <2>4. q = r => state[q] = "Absent" /\ state'[q] # "Decoding"
    BY <2>2 DEF Submit
  <2> QED BY <2>1, <2>3, <2>4 DEF Submit
<1> QED BY <1>1, <1>2, <1>3 DEF Inv

\* Dropping a request's data leaves the others' alone.
LEMMA DropTypes ==
  ASSUME TypeOK, NEW r \in Requests, Drop(r)
  PROVE  /\ logits' \in [Requests -> [seen : Nat, finite : BOOLEAN]]
         /\ position' \in [Requests -> Nat] /\ prefix' \in [Requests -> Nat]
         /\ position'[r] = 0 /\ prefix'[r] = 0 /\ logits'[r] = NoLogits
         /\ \A q \in Requests \ {r} : /\ position'[q] = position[q] /\ prefix'[q] = prefix[q]
                                     /\ logits'[q] = logits[q]
<1>1. NoLogits \in [seen : Nat, finite : BOOLEAN]
  BY DEF NoLogits
<1> QED BY <1>1 DEF TypeOK, Drop

\* A request that stops decoding has its cache dropped with it; the others keep theirs.
LEMMA DropFollows ==
  ASSUME TypeOK, CacheFollowsRequest, NEW r \in Requests, NEW to, to # "Decoding",
         Drop(r), state' = [state EXCEPT ![r] = to], UNCHANGED cfg
  PROVE  CacheFollowsRequest'
<1> SUFFICES ASSUME NEW q \in Requests
             PROVE  position'[q] = IF state'[q] = "Decoding" THEN cfg'[q].prompt + logits'[q].seen ELSE 0
  BY DEF CacheFollowsRequest
<1>1. CASE q = r
  <2>1. state'[q] = to /\ position'[q] = 0
    BY <1>1, DropTypes DEF TypeOK
  <2> QED BY <2>1
<1>2. CASE q # r
  <2>1. state'[q] = state[q] /\ position'[q] = position[q] /\ logits'[q] = logits[q]
    BY <1>2, DropTypes DEF TypeOK
  <2>2. position[q] = IF state[q] = "Decoding" THEN cfg[q].prompt + logits[q].seen ELSE 0
    BY DEF CacheFollowsRequest
  <2> QED BY <2>1, <2>2
<1> QED BY <1>1, <1>2

LEMMA CancelInv ==
  ASSUME Inv, NEW r \in Requests, Cancel(r)
  PROVE  Inv'
<1>0. Drop(r) /\ TypeOK
  BY DEF Inv, Cancel
<1>1. TypeOK'
  BY <1>0, DropTypes DEF TypeOK, Cancel
<1>2. CursorOnActive'
  BY DEF Inv, CursorOnActive, Cancel
<1>3. CacheFollowsRequest'
  BY <1>0, DropFollows DEF Inv, Cancel
<1> QED BY <1>1, <1>2, <1>3 DEF Inv

LEMMA StepBeginInv ==
  ASSUME Inv, StepBegin
  PROVE  Inv'
<1>1. cursor' = 0 \/ cursor' \in Active
  BY AdvanceGoesOn DEF StepBegin, Active
<1>2. Requests \subseteq 0..MaxRequests /\ 0 \in 0..MaxRequests
  BY ConstantsAssumption DEF Requests
<1>3. cursor' \in 0..MaxRequests
  BY <1>1, <1>2 DEF Active
<1>4. ~decoding /\ UNCHANGED <<decoding, state>>
  BY DEF StepBegin, Inv, CursorOnActive
<1>5. TypeOK'
  BY <1>3 DEF Inv, TypeOK, StepBegin
<1>6. CursorOnActive'
  BY <1>1, <1>4 DEF CursorOnActive, Active
<1>7. CacheFollowsRequest'
  BY DEF Inv, CacheFollowsRequest, StepBegin
<1> QED BY <1>5, <1>6, <1>7 DEF Inv

LEMMA PrefillInv ==
  ASSUME Inv, Prefill
  PROVE  Inv'
<1> DEFINE r == cursor
<1>0. r \in Requests /\ state[r] = "PendingPrefill" /\ TypeOK
  BY DEF Prefill, Inv
<1>1. CASE ~ (cursor' = cursor)
  <2>1. cursor' = 0 /\ Fail("prefill") /\ UNCHANGED <<state, position, prefix, logits>>
    BY <1>1 DEF Prefill
  <2>2. faults' \in 0..MaxFaults
    BY <1>0, <2>1, ConstantsAssumption DEF Fail, TypeOK
  <2>3. cursor' \in 0..MaxRequests
    BY <2>1, ConstantsAssumption
  <2>4. TypeOK'
    BY <1>0, <2>1, <2>2, <2>3 DEF TypeOK, Prefill
  <2>5. ~decoding
    BY <1>0 DEF Inv, CursorOnActive
  <2>6. CursorOnActive'
    BY <2>1, <2>5 DEF CursorOnActive, Prefill
  <2>7. CacheFollowsRequest'
    BY <2>1 DEF Inv, CacheFollowsRequest, Prefill
  <2> QED BY <2>4, <2>6, <2>7 DEF Inv
<1>2. CASE cursor' = cursor
  <2>1. cursor # 0
    BY <1>0, ConstantsAssumption DEF Requests
  <2>2. PICK finite \in Finite :
          /\ state' = [state EXCEPT ![r] = "Decoding"]
          /\ position' = [position EXCEPT ![r] = cfg[r].prompt]
          /\ prefix' = [prefix EXCEPT ![r] = cfg[r].prompt]
          /\ logits' = [logits EXCEPT ![r] = [seen |-> 0, finite |-> finite]]
          /\ UNCHANGED <<cursor, faults>>
    BY <1>2, <2>1 DEF Prefill
  <2>3. finite \in BOOLEAN
    BY DEF Finite
  <2>4. [seen |-> 0, finite |-> finite] \in [seen : Nat, finite : BOOLEAN]
    BY <2>3
  <2>5. cfg[r].prompt \in Nat
    BY <1>0, RequestTypes
  <2>6. TypeOK'
    BY <1>0, <2>2, <2>4, <2>5 DEF TypeOK, Prefill
  <2>7. CursorOnActive'
    BY <1>0, <2>2 DEF Inv, CursorOnActive, Active, TypeOK, Prefill
  <2>8. logits'[r].seen = 0 /\ cfg'[r].prompt + 0 = cfg[r].prompt
    BY <1>0, <2>2, <2>5 DEF TypeOK, Prefill
  <2>9. CacheFollowsRequest'
    <3> SUFFICES ASSUME NEW q \in Requests
                 PROVE  position'[q] = IF state'[q] = "Decoding"
                                       THEN cfg'[q].prompt + logits'[q].seen ELSE 0
      BY DEF CacheFollowsRequest
    <3>1. CASE q = r
      BY <1>0, <2>2, <2>8, <3>1 DEF TypeOK, Prefill
    <3>2. CASE q # r
      <4>1. /\ position'[q] = position[q] /\ state'[q] = state[q]
            /\ logits'[q] = logits[q] /\ cfg'[q] = cfg[q]
        BY <1>0, <2>2, <3>2 DEF TypeOK, Prefill
      <4> QED BY <4>1 DEF Inv, CacheFollowsRequest
    <3> QED BY <3>1, <3>2
  <2> QED BY <2>6, <2>7, <2>9 DEF Inv
<1> QED BY <1>1, <1>2

LEMMA SelectThrowsInv ==
  ASSUME Inv, SelectThrows
  PROVE  Inv'
<1>1. cursor' \in 0..MaxRequests
  BY ConstantsAssumption DEF SelectThrows
<1>2. TypeOK'
  BY <1>1 DEF Inv, TypeOK, SelectThrows
<1>3. CursorOnActive'
  BY DEF CursorOnActive, SelectThrows
<1>4. CacheFollowsRequest'
  BY DEF Inv, CacheFollowsRequest, SelectThrows
<1> QED BY <1>2, <1>3, <1>4 DEF Inv

\* What select() does to the request it is at: one token more, and either the end
\* of the request or a decode.
LEMMA SelectEffect ==
  ASSUME Inv, NEW stopped \in BOOLEAN, Select(stopped)
  PROVE  LET r == cursor
             token == [seen |-> logits[r].seen, draw |-> IF cfg[r].sampled THEN draws[r] ELSE 0]
             ends == stopped \/ Len(generated[r]) + 1 = cfg[r].maxNew
         IN /\ r \in Requests /\ state[r] = "Decoding" /\ ~decoding
            /\ token \in [seen : Nat, draw : Nat]
            /\ generated' \in [Requests -> Seq([seen : Nat, draw : Nat])]
            /\ generated' = [generated EXCEPT ![r] = Append(generated[r], token)]
            /\ draws' = [draws EXCEPT ![r] = IF cfg[r].sampled THEN draws[r] + 1 ELSE draws[r]]
            /\ draws' \in [Requests -> Nat]
            /\ ends => /\ state' = [state EXCEPT ![r] = "Completed"]
                       /\ reason' = [reason EXCEPT ![r] = IF stopped THEN "StopToken" ELSE "Length"]
                       /\ Drop(r) /\ Advance(r, Active) /\ UNCHANGED decoding
            /\ ~ends => /\ decoding' = TRUE
                        /\ UNCHANGED <<cursor, state, reason, position, prefix, logits>>
            /\ UNCHANGED <<cfg, faults>>
<1> DEFINE r == cursor
           token == [seen |-> logits[r].seen, draw |-> IF cfg[r].sampled THEN draws[r] ELSE 0]
<1>1. r \in Requests /\ state[r] = "Decoding" /\ ~decoding /\ TypeOK
  BY DEF Select, Inv
<1>2. logits[r].seen \in Nat /\ draws[r] \in Nat /\ cfg[r].sampled \in BOOLEAN
  BY <1>1, RequestTypes
<1>3. token \in [seen : Nat, draw : Nat]
  BY <1>2
<1>4. generated' = [generated EXCEPT ![r] = Append(generated[r], token)]
  BY DEF Select
<1>5. generated' \in [Requests -> Seq([seen : Nat, draw : Nat])]
  <2> HIDE DEF token
  <2>1. generated[r] \in Seq([seen : Nat, draw : Nat])
    BY <1>1 DEF TypeOK
  <2>2. Append(generated[r], token) \in Seq([seen : Nat, draw : Nat])
    BY <1>3, <2>1, AppendProperties
  <2> QED BY <1>1, <1>4, <2>2 DEF TypeOK
<1>6. draws' = [draws EXCEPT ![r] = IF cfg[r].sampled THEN draws[r] + 1 ELSE draws[r]]
  BY DEF Select
<1>7. draws' \in [Requests -> Nat]
  BY <1>1, <1>2, <1>6 DEF TypeOK
<1> QED BY <1>1, <1>3, <1>4, <1>5, <1>6, <1>7 DEF Select

\* A cursor that went on, or back to 0, is in its range.
LEMMA CursorRange ==
  ASSUME TypeOK, cursor' = 0 \/ cursor' \in Active
  PROVE  cursor' \in 0..MaxRequests
<1>1. Requests \subseteq 0..MaxRequests /\ 0 \in 0..MaxRequests
  BY ConstantsAssumption DEF Requests
<1> QED BY <1>1 DEF Active

LEMMA SelectInv ==
  ASSUME Inv, NEW stopped \in BOOLEAN, Select(stopped)
  PROVE  Inv'
<1> DEFINE r == cursor
           ends == stopped \/ Len(generated[r]) + 1 = cfg[r].maxNew
<1>0. r \in Requests /\ state[r] = "Decoding" /\ ~decoding /\ TypeOK
  BY DEF Select, Inv
<1>1. /\ generated' \in [Requests -> Seq([seen : Nat, draw : Nat])]
      /\ draws' \in [Requests -> Nat]
      /\ UNCHANGED <<cfg, faults>>
  BY SelectEffect
<1>2. CASE ends
  <2>1. /\ state' = [state EXCEPT ![r] = "Completed"]
        /\ reason' = [reason EXCEPT ![r] = IF stopped THEN "StopToken" ELSE "Length"]
        /\ Drop(r) /\ Advance(r, Active) /\ UNCHANGED decoding
    BY <1>2, SelectEffect
  <2>2. r \in Nat /\ Active \in SUBSET Requests
    BY <1>0 DEF Requests, Active
  <2>3. cursor' = 0 \/ (cursor' \in Active /\ cursor' > r)
    BY <2>1, <2>2, AdvanceGoesOn
  <2>4. cursor' \in 0..MaxRequests
    BY <1>0, <2>3, CursorRange
  <2>5. TypeOK'
    BY <1>0, <1>1, <2>1, <2>4, DropTypes DEF TypeOK
  <2>6. cursor' # 0 => cursor' \in Requests /\ cursor' # r /\ state[cursor'] \in {"PendingPrefill", "Decoding"}
    BY <2>2, <2>3 DEF Active
  <2>7. CursorOnActive'
    <3>1. ~decoding'
      BY <1>0, <2>1
    <3>2. cursor' # 0 => state'[cursor'] = state[cursor']
      BY <1>0, <2>1, <2>6 DEF TypeOK
    <3>3. cursor' # 0 => cursor' \in Active'
      BY <2>6, <3>2 DEF Active
    <3> QED BY <3>1, <3>3, Zenon DEF CursorOnActive
  <2>8. CacheFollowsRequest'
    BY <1>0, <1>1, <2>1, DropFollows DEF Inv
  <2> QED BY <2>5, <2>7, <2>8 DEF Inv
<1>3. CASE ~ends
  <2>1. decoding' = TRUE /\ UNCHANGED <<cursor, state, reason, position, prefix, logits>>
    BY <1>3, SelectEffect
  <2>2. TypeOK'
    BY <1>0, <1>1, <2>1 DEF TypeOK
  <2>3. CursorOnActive'
    <3>1. cursor # 0 /\ cursor \in Active
      BY <1>0, ConstantsAssumption DEF Requests, Active
    <3>2. cursor' # 0 /\ cursor' \in Active' /\ state'[cursor'] = "Decoding"
      BY <1>0, <2>1, <3>1 DEF Active
    <3> QED BY <3>2 DEF CursorOnActive
  <2>4. CacheFollowsRequest'
    BY <1>1, <2>1 DEF Inv, CacheFollowsRequest
  <2> QED BY <2>2, <2>3, <2>4 DEF Inv
<1> QED BY <1>2, <1>3

LEMMA DecodeInv ==
  ASSUME Inv, Decode
  PROVE  Inv'
<1> DEFINE r == cursor
           room == prefix[r] = position[r] /\ position[r] < cfg[r].prompt + cfg[r].maxNew
<1>0. r \in Requests /\ state[r] = "Decoding" /\ decoding /\ TypeOK
  BY DEF Decode, Inv, CursorOnActive, Active
<1>1. /\ decoding' = FALSE /\ UNCHANGED <<state, reason, cfg, generated, draws>>
      /\ logits[r].seen \in Nat /\ position[r] \in Nat /\ prefix[r] \in Nat /\ cfg[r].prompt \in Nat
  BY <1>0, RequestTypes DEF Decode
<1>2. r \in Nat /\ Active \in SUBSET Requests
  BY <1>0 DEF Requests, Active
<1>3. CASE /\ room
           /\ position' = [position EXCEPT ![r] = @ + 1]
           /\ prefix' = [prefix EXCEPT ![r] = @ + 1]
           /\ \E finite \in Finite :
                logits' = [logits EXCEPT ![r] = NextLogits(r, finite)]
           /\ Advance(r, Active)
           /\ UNCHANGED faults
  <2>1. PICK finite \in Finite : logits' = [logits EXCEPT ![r] = NextLogits(r, finite)]
    BY <1>3
  <2>2. NextLogits(r, finite) \in [seen : Nat, finite : BOOLEAN]
    <3>1. finite \in BOOLEAN
      BY DEF Finite
    <3>2. logits[r].seen + 1 \in Nat
      BY <1>1
    <3> QED BY <3>1, <3>2 DEF NextLogits
  <2>3. cursor' = 0 \/ cursor' \in Active
    BY <1>2, <1>3, AdvanceGoesOn
  <2>4. cursor' \in 0..MaxRequests
    BY <1>0, <2>3, CursorRange
  <2>5. TypeOK'
    <3>1. position[r] + 1 \in Nat /\ prefix[r] + 1 \in Nat
      BY <1>1
    <3>2. position' = [position EXCEPT ![r] = position[r] + 1]
      BY <1>3
    <3>3. prefix' = [prefix EXCEPT ![r] = prefix[r] + 1]
      BY <1>3
    <3>4. position' \in [Requests -> Nat] /\ prefix' \in [Requests -> Nat]
      BY <1>0, <3>1, <3>2, <3>3 DEF TypeOK
    <3>5. logits' \in [Requests -> [seen : Nat, finite : BOOLEAN]]
      BY <1>0, <2>1, <2>2 DEF TypeOK
    <3> QED BY <1>0, <1>1, <1>3, <2>4, <3>4, <3>5 DEF TypeOK
  <2>6. CursorOnActive'
    BY <1>1, <2>3 DEF CursorOnActive, Active
  <2>7. position[r] = cfg[r].prompt + logits[r].seen
    BY <1>0 DEF Inv, CacheFollowsRequest
  <2>8. position'[r] = position[r] + 1 /\ logits'[r] = NextLogits(r, finite)
    BY <1>0, <1>3, <2>1 DEF TypeOK
  <2>9. logits'[r].seen = logits[r].seen + 1
    BY <2>8 DEF NextLogits
  <2>10. position'[r] = cfg[r].prompt + logits'[r].seen
    BY <1>1, <2>7, <2>8, <2>9
  <2>11. CacheFollowsRequest'
    <3> SUFFICES ASSUME NEW q \in Requests
                 PROVE  position'[q] = IF state'[q] = "Decoding"
                                       THEN cfg'[q].prompt + logits'[q].seen ELSE 0
      BY DEF CacheFollowsRequest
    <3>1. CASE q = r
      BY <1>0, <1>1, <2>10, <3>1
    <3>2. CASE q # r
      <4>1. position'[q] = position[q] /\ logits'[q] = logits[q]
        BY <1>0, <1>3, <2>1, <3>2 DEF TypeOK
      <4> QED BY <1>1, <4>1 DEF Inv, CacheFollowsRequest
    <3> QED BY <3>1, <3>2
  <2> QED BY <2>5, <2>6, <2>11 DEF Inv
<1>4. CASE \/ /\ room /\ Fail("decode")
              /\ prefix' = [prefix EXCEPT ![r] = @ + 1] \/ UNCHANGED prefix
              /\ cursor' = 0
              /\ UNCHANGED <<position, logits>>
           \/ /\ ~room
              /\ cursor' = 0
              /\ UNCHANGED <<position, prefix, logits, faults>>
  <2>1. cursor' = 0 /\ UNCHANGED <<position, logits>>
    BY <1>4
  <2>2. faults' \in 0..MaxFaults
    BY <1>0, <1>4, ConstantsAssumption DEF Fail, TypeOK
  <2>3. prefix' \in [Requests -> Nat]
    <3>1. prefix[r] + 1 \in Nat /\ prefix \in [Requests -> Nat]
      BY <1>0, <1>1 DEF TypeOK
    <3>2. prefix' = [prefix EXCEPT ![r] = prefix[r] + 1] \/ prefix' = prefix
      BY <1>4
    <3> QED BY <3>1, <3>2
  <2>4. cursor' \in 0..MaxRequests
    BY <1>0, <2>1, CursorRange
  <2>5. TypeOK'
    BY <1>0, <1>1, <2>1, <2>2, <2>3, <2>4 DEF TypeOK
  <2>6. CursorOnActive'
    BY <1>1, <2>1 DEF CursorOnActive
  <2>7. CacheFollowsRequest'
    BY <1>1, <2>1 DEF Inv, CacheFollowsRequest
  <2> QED BY <2>5, <2>6, <2>7 DEF Inv
<1> QED BY <1>3, <1>4 DEF Decode

LEMMA NextInv == Inv /\ [Next]_vars => Inv'
<1> SUFFICES ASSUME Inv, [Next]_vars PROVE Inv'
  OBVIOUS
<1>1. CASE \E r \in Requests, c \in Workload : Submit(r, c)
  BY <1>1, SubmitInv
<1>2. CASE \E r \in Requests : Cancel(r)
  BY <1>2, CancelInv
<1>3. CASE Step
  BY <1>3, StepBeginInv, PrefillInv, SelectThrowsInv, SelectInv, DecodeInv DEF Step
<1>4. CASE UNCHANGED vars
  BY <1>4 DEF vars, Inv, TypeOK, CursorOnActive, Active, CacheFollowsRequest
<1> QED BY <1>1, <1>2, <1>3, <1>4 DEF Next

LEMMA Invariance == Spec => []Inv
BY InitInv, NextInv, PTL DEF Spec

\* Every variable keeps the range that the fields of ScheduledRequest, KVCache
\* and the loop of step() have.
THEOREM TypeCorrect == Spec => []TypeOK
BY Invariance, PTL DEF Inv

\* After any sequence of calls, failed prefills and decodes and non-finite logits
\* included, a request's cache holds its prompt and exactly the tokens its logits
\* come from, and a request that is pending or has ended holds none.
THEOREM CacheFollows == Spec => []CacheFollowsRequest
BY Invariance, PTL DEF Inv

-----------------------------------------------------------------------------
(* Without failed decodes the scheduler implements RequestLifecycle.       *)

\* The token that step() has appended to request r but not decoded yet.
Undecoded(r) == IF decoding /\ cursor = r THEN 1 ELSE 0

\* A request's tokens are those its logits come from, one more before a decode;
\* its generator made one draw for each, if it draws; an active request still
\* wants one; its first layer's view ends at its position.
AnswerFollows(r) ==
  /\ state[r] \in {"Absent", "PendingPrefill"} => generated[r] = <<>>
  /\ state[r] = "Decoding" => /\ Len(generated[r]) = logits[r].seen + Undecoded(r)
                              /\ prefix[r] = position[r]
  /\ draws[r] = IF cfg[r].sampled THEN Len(generated[r]) ELSE 0
  /\ state[r] \in {"PendingPrefill", "Decoding"} => Len(generated[r]) < cfg[r].maxNew

AnswersFollow == \A r \in Requests : AnswerFollows(r)

Answers == AnswersFollow /\ OutputMatchesGenerate

\* The tokens a request has stay right if a step appends none and keeps its
\* configuration.
LEMMA SameOutput ==
  ASSUME OutputMatchesGenerate, UNCHANGED <<generated, cfg>>
  PROVE  OutputMatchesGenerate'
BY DEF OutputMatchesGenerate

LEMMA InitAnswers == Init => Answers
<1> SUFFICES ASSUME Init PROVE Answers
  OBVIOUS
<1>1. \A r \in Requests : /\ generated[r] = <<>> /\ draws[r] = 0 /\ state[r] = "Absent"
                          /\ cfg[r].sampled = FALSE
  BY DEF Init, NoConfig
<1>2. Len(<<>>) = 0
  OBVIOUS
<1> QED BY <1>1, <1>2 DEF Answers, AnswersFollow, AnswerFollows, OutputMatchesGenerate

LEMMA SubmitAnswers ==
  ASSUME Inv, Answers, NEW r \in Requests, NEW c \in Workload, Submit(r, c)
  PROVE  Answers'
<1>0. TypeOK /\ AnswerFollows(r) /\ state[r] = "Absent" /\ generated[r] = <<>>
  BY DEF Inv, Answers, AnswersFollow, AnswerFollows, Submit
<1>1. Len(generated[r]) = 0 /\ draws[r] = 0
  BY <1>0 DEF AnswerFollows
<1>2. c.maxNew \in Nat
  <2>1. c \in [prompt : Nat \ {0}, maxNew : Nat, sampled : BOOLEAN]
    BY ConstantsAssumption
  <2> QED BY <2>1
<1>3. /\ cfg'[r] = c /\ generated'[r] = <<>> /\ draws'[r] = 0
      /\ state'[r] = IF c.maxNew = 0 THEN "Completed" ELSE "PendingPrefill"
  BY <1>0, <1>1 DEF Submit, TypeOK
<1>4. AnswerFollows(r)'
  BY <1>1, <1>2, <1>3 DEF AnswerFollows, Submit
<1>5. \A q \in Requests \ {r} : AnswerFollows(q)'
  <2> SUFFICES ASSUME NEW q \in Requests \ {r} PROVE AnswerFollows(q)'
    OBVIOUS
  <2>1. /\ state'[q] = state[q] /\ cfg'[q] = cfg[q]
        /\ UNCHANGED <<cursor, decoding, generated, draws, position, prefix, logits>>
    BY <1>0 DEF Submit, TypeOK
  <2>2. AnswerFollows(q)
    BY DEF Answers, AnswersFollow
  <2> QED BY <2>1, <2>2 DEF AnswerFollows, Undecoded
<1>6. OutputMatchesGenerate'
  <2> SUFFICES ASSUME NEW q \in Requests, NEW k \in 1..Len(generated'[q])
               PROVE  generated'[q][k] = [seen |-> k - 1, draw |-> IF cfg'[q].sampled THEN k - 1 ELSE 0]
    BY DEF OutputMatchesGenerate
  <2>1. q # r
    BY <1>1, <1>3, <1>0
  <2>2. generated' = generated /\ cfg'[q] = cfg[q]
    BY <1>0, <2>1 DEF Submit, TypeOK
  <2> QED BY <2>2 DEF Answers, OutputMatchesGenerate
<1> QED BY <1>4, <1>5, <1>6 DEF Answers, AnswersFollow

LEMMA CancelAnswers ==
  ASSUME Inv, Answers, NEW r \in Requests, Cancel(r)
  PROVE  Answers'
<1>0. TypeOK /\ Drop(r) /\ UNCHANGED <<cursor, decoding, cfg, generated, draws>>
  BY DEF Inv, Cancel
<1>1. \A q \in Requests : AnswerFollows(q)'
  <2> SUFFICES ASSUME NEW q \in Requests PROVE AnswerFollows(q)'
    OBVIOUS
  <2>1. AnswerFollows(q)
    BY DEF Answers, AnswersFollow
  <2>2. CASE q = r
    <3>1. state'[q] = "Cancelled"
      BY <1>0, <2>2 DEF Cancel, TypeOK
    <3> QED BY <1>0, <2>1, <3>1 DEF AnswerFollows
  <2>3. CASE q # r
    <3>1. state'[q] = state[q]
      BY <1>0, <2>3 DEF Cancel, TypeOK
    <3>2. logits'[q] = logits[q] /\ position'[q] = position[q] /\ prefix'[q] = prefix[q]
      BY <1>0, <2>3, DropTypes
    <3> QED BY <1>0, <2>1, <3>1, <3>2 DEF AnswerFollows, Undecoded
  <2> QED BY <2>2, <2>3
<1> QED BY <1>0, <1>1, SameOutput DEF Answers, AnswersFollow

LEMMA PrefillAnswers ==
  ASSUME Inv, Answers, Prefill
  PROVE  Answers'
<1> SUFFICES ASSUME NEW r \in Requests, r = cursor PROVE Answers'
  BY DEF Prefill
<1>0. /\ TypeOK /\ state[r] = "PendingPrefill" /\ ~decoding
      /\ UNCHANGED <<decoding, cfg, generated, draws>>
  BY DEF Inv, CursorOnActive, Prefill
<1>1. \A q \in Requests : AnswerFollows(q) /\ Undecoded(q)' = 0
  BY <1>0 DEF Answers, AnswersFollow, Undecoded
<1>2. CASE UNCHANGED <<state, position, prefix, logits>>
  BY <1>0, <1>1, <1>2, SameOutput DEF Answers, AnswersFollow, AnswerFollows, Undecoded
<1>3. CASE \E finite \in Finite :
          /\ state' = [state EXCEPT ![r] = "Decoding"]
          /\ position' = [position EXCEPT ![r] = cfg[r].prompt]
          /\ prefix' = [prefix EXCEPT ![r] = cfg[r].prompt]
          /\ logits' = [logits EXCEPT ![r] = [seen |-> 0, finite |-> finite]]
  <2>1. PICK finite \in Finite :
          /\ state' = [state EXCEPT ![r] = "Decoding"]
          /\ position' = [position EXCEPT ![r] = cfg[r].prompt]
          /\ prefix' = [prefix EXCEPT ![r] = cfg[r].prompt]
          /\ logits' = [logits EXCEPT ![r] = [seen |-> 0, finite |-> finite]]
    BY <1>3
  <2>2. /\ state'[r] = "Decoding" /\ position'[r] = cfg[r].prompt /\ prefix'[r] = cfg[r].prompt
        /\ logits'[r].seen = 0
    BY <1>0, <2>1 DEF TypeOK
  <2>3. generated[r] = <<>> /\ Len(generated[r]) = 0
    BY <1>0, <1>1 DEF AnswerFollows
  <2>4. AnswerFollows(r)'
    <3>1. AnswerFollows(r) /\ Undecoded(r)' = 0 /\ r \in Requests
      BY <1>0, <1>1
    <3>2. /\ generated'[r] = <<>> /\ Len(generated'[r]) = 0
          /\ draws'[r] = draws[r] /\ cfg'[r] = cfg[r]
      BY <1>0, <2>3
    <3>3. Len(generated'[r]) = logits'[r].seen + Undecoded(r)'
      BY <2>2, <3>1, <3>2
    <3>4. draws'[r] = IF cfg'[r].sampled THEN Len(generated'[r]) ELSE 0
      BY <2>3, <3>1, <3>2 DEF AnswerFollows
    <3>5. Len(generated'[r]) < cfg'[r].maxNew
      BY <1>0, <2>3, <3>1, <3>2 DEF AnswerFollows
    <3> QED BY <2>2, <3>2, <3>3, <3>4, <3>5 DEF AnswerFollows
  <2>5. \A q \in Requests \ {r} : AnswerFollows(q)'
    <3> SUFFICES ASSUME NEW q \in Requests \ {r} PROVE AnswerFollows(q)'
      OBVIOUS
    <3>1. /\ state'[q] = state[q] /\ position'[q] = position[q] /\ prefix'[q] = prefix[q]
          /\ logits'[q] = logits[q]
      BY <1>0, <2>1 DEF TypeOK
    <3>2. AnswerFollows(q) /\ Undecoded(q) = 0 /\ Undecoded(q)' = 0
      BY <1>0, <1>1 DEF Undecoded
    <3> QED BY <1>0, <3>1, <3>2 DEF AnswerFollows
  <2> QED BY <1>0, <2>4, <2>5, SameOutput DEF Answers, AnswersFollow
<1> QED BY <1>2, <1>3 DEF Prefill

\* A step that only moves the loop keeps the answers.
LEMMA MoveAnswers ==
  ASSUME Answers, ~decoding,
         UNCHANGED <<decoding, state, cfg, generated, draws, position, prefix, logits>>
  PROVE  Answers'
<1>1. ASSUME NEW r \in Requests PROVE AnswerFollows(r)'
  <2>1. AnswerFollows(r) /\ Undecoded(r) = 0 /\ Undecoded(r)' = 0
    BY DEF Answers, AnswersFollow, Undecoded
  <2> QED BY <2>1 DEF AnswerFollows
<1> QED BY <1>1, SameOutput DEF Answers, AnswersFollow

\* The token select() appends is the one the request gets alone.
LEMMA SelectedToken ==
  ASSUME Inv, Answers, NEW stopped \in BOOLEAN, Select(stopped),
         NEW r \in Requests, r = cursor
  PROVE  LET token == [seen |-> Len(generated[r]),
                       draw |-> IF cfg[r].sampled THEN Len(generated[r]) ELSE 0]
         IN /\ generated' = [generated EXCEPT ![r] = Append(generated[r], token)]
            /\ generated'[r] = Append(generated[r], token)
            /\ \A q \in Requests \ {r} : generated'[q] = generated[q]
            /\ Len(generated'[r]) = Len(generated[r]) + 1
            /\ draws'[r] = IF cfg'[r].sampled THEN Len(generated'[r]) ELSE 0
            /\ \A q \in Requests \ {r} : draws'[q] = draws[q]
<1> DEFINE token == [seen |-> Len(generated[r]),
                     draw |-> IF cfg[r].sampled THEN Len(generated[r]) ELSE 0]
<1>0. /\ TypeOK /\ state[r] = "Decoding" /\ ~decoding /\ AnswerFollows(r)
      /\ generated[r] \in Seq([seen : Nat, draw : Nat]) /\ Len(generated[r]) \in Nat
      /\ UNCHANGED cfg
  BY RequestTypes DEF Inv, Answers, AnswersFollow, Select, TypeOK
<1>1. logits[r].seen \in Nat /\ Undecoded(r) = 0
  BY <1>0, RequestTypes DEF Undecoded
<1>2. Len(generated[r]) = logits[r].seen
  BY <1>0, <1>1 DEF AnswerFollows
<1>3. draws[r] = IF cfg[r].sampled THEN Len(generated[r]) ELSE 0
  BY <1>0 DEF AnswerFollows
<1>4. [seen |-> logits[r].seen, draw |-> IF cfg[r].sampled THEN draws[r] ELSE 0] = token
  BY <1>2, <1>3
<1>5. generated' = [generated EXCEPT ![r] = Append(generated[r], token)]
  BY <1>4, SelectEffect, Zenon
<1> HIDE DEF token
<1>6. generated'[r] = Append(generated[r], token) /\ \A q \in Requests \ {r} : generated'[q] = generated[q]
  BY <1>0, <1>5 DEF TypeOK
<1>7. Len(generated'[r]) = Len(generated[r]) + 1
  BY <1>0, <1>6
<1>8. draws' = [draws EXCEPT ![r] = IF cfg[r].sampled THEN draws[r] + 1 ELSE draws[r]]
  BY SelectEffect
<1>9. /\ draws'[r] = IF cfg[r].sampled THEN draws[r] + 1 ELSE draws[r]
      /\ \A q \in Requests \ {r} : draws'[q] = draws[q]
  BY <1>0, <1>8 DEF TypeOK
<1>10. draws'[r] = IF cfg'[r].sampled THEN Len(generated'[r]) ELSE 0
  BY <1>0, <1>3, <1>7, <1>9
<1> QED BY <1>5, <1>6, <1>7, <1>9, <1>10 DEF token

LEMMA SelectAnswers ==
  ASSUME Inv, Answers, NEW stopped \in BOOLEAN, Select(stopped)
  PROVE  Answers'
<1> SUFFICES ASSUME NEW r \in Requests, r = cursor PROVE Answers'
  BY DEF Select
<1> DEFINE ends == stopped \/ Len(generated[r]) + 1 = cfg[r].maxNew
<1>0. /\ TypeOK /\ state[r] = "Decoding" /\ ~decoding /\ AnswerFollows(r)
      /\ generated[r] \in Seq([seen : Nat, draw : Nat]) /\ Len(generated[r]) \in Nat
      /\ cfg[r].maxNew \in Nat /\ UNCHANGED cfg
  BY RequestTypes DEF Inv, Answers, AnswersFollow, Select, TypeOK
<1>1. /\ Len(generated'[r]) = Len(generated[r]) + 1
      /\ draws'[r] = IF cfg'[r].sampled THEN Len(generated'[r]) ELSE 0
      /\ \A q \in Requests \ {r} : generated'[q] = generated[q] /\ draws'[q] = draws[q]
  BY SelectedToken
<1>2. Len(generated[r]) = logits[r].seen /\ prefix[r] = position[r] /\ Len(generated[r]) < cfg[r].maxNew
  <2>1. Undecoded(r) = 0 /\ logits[r].seen \in Nat
    BY <1>0, RequestTypes DEF Undecoded
  <2> QED BY <1>0, <2>1 DEF AnswerFollows
<1>3. AnswerFollows(r)'
  <2>1. CASE ends
    <3>1. state'[r] = "Completed"
      BY <1>0, <2>1, SelectEffect DEF TypeOK
    <3> QED BY <1>1, <3>1 DEF AnswerFollows
  <2>2. CASE ~ends
    <3>1. decoding' = TRUE /\ UNCHANGED <<cursor, state, position, prefix, logits>>
      BY <2>2, SelectEffect
    <3>2. Undecoded(r)' = 1
      BY <3>1 DEF Undecoded
    <3>3. Len(generated'[r]) = logits'[r].seen + 1 /\ Len(generated'[r]) < cfg'[r].maxNew
      BY <1>0, <1>1, <1>2, <2>2, <3>1
    <3>4. state'[r] = "Decoding" /\ prefix'[r] = position'[r]
      BY <1>0, <1>2, <3>1
    <3> QED BY <1>1, <3>2, <3>3, <3>4 DEF AnswerFollows
  <2> QED BY <2>1, <2>2
<1>4. ASSUME NEW q \in Requests \ {r} PROVE AnswerFollows(q)'
  <2>1. AnswerFollows(q) /\ Undecoded(q) = 0
    BY <1>0 DEF Answers, AnswersFollow, Undecoded
  <2>2. /\ state'[q] = state[q] /\ logits'[q] = logits[q] /\ cfg'[q] = cfg[q]
        /\ position'[q] = position[q] /\ prefix'[q] = prefix[q]
    <3>1. CASE ends
      <4>1. state' = [state EXCEPT ![r] = "Completed"] /\ Drop(r)
        BY <3>1, SelectEffect
      <4> QED BY <1>0, <4>1, DropTypes DEF TypeOK
    <3>2. CASE ~ends
      BY <1>0, <3>2, SelectEffect
    <3> QED BY <3>1, <3>2
  <2>3. Undecoded(q)' = 0
    <3>1. CASE ends
      <4>1. ~decoding'
        BY <1>0, <3>1, SelectEffect
      <4> QED BY <4>1 DEF Undecoded
    <3>2. CASE ~ends
      <4>1. cursor' = r
        BY <3>2, SelectEffect
      <4> QED BY <4>1 DEF Undecoded
    <3> QED BY <3>1, <3>2
  <2>4. generated'[q] = generated[q] /\ draws'[q] = draws[q]
    BY <1>1
  <2> QED BY <2>1, <2>2, <2>3, <2>4 DEF AnswerFollows
<1>5. OutputMatchesGenerate'
  <2> SUFFICES ASSUME NEW q \in Requests, NEW k \in 1..Len(generated'[q])
               PROVE  generated'[q][k] = [seen |-> k - 1, draw |-> IF cfg'[q].sampled THEN k - 1 ELSE 0]
    BY DEF OutputMatchesGenerate
  <2>1. CASE q # r
    <3>1. generated'[q] = generated[q] /\ cfg'[q].sampled = cfg[q].sampled
      BY <1>0, <1>1, <2>1
    <3>2. generated[q][k] = [seen |-> k - 1, draw |-> IF cfg[q].sampled THEN k - 1 ELSE 0]
      BY <3>1 DEF Answers, OutputMatchesGenerate
    <3> QED BY <3>1, <3>2
  <2>2. CASE q = r
    <3> DEFINE n == Len(generated[r])
               token == [seen |-> n, draw |-> IF cfg[r].sampled THEN n ELSE 0]
    <3>1. generated'[r] = Append(generated[r], token)
      BY SelectedToken
    <3>2. CASE k = n + 1
      <4>1. generated'[r][k] = token
        BY <1>0, <3>1, <3>2
      <4>2. k - 1 = n
        BY <1>0, <3>2
      <4> QED BY <1>0, <2>2, <4>1, <4>2
    <3>3. CASE k # n + 1
      <4>1. k \in 1..n
        BY <1>0, <1>1, <2>2, <3>3
      <4> HIDE DEF token
      <4>2. generated'[r][k] = generated[r][k]
        BY <1>0, <3>1, <4>1
      <4> QED BY <1>0, <2>2, <4>1, <4>2 DEF Answers, OutputMatchesGenerate
    <3> QED BY <3>2, <3>3
  <2> QED BY <2>1, <2>2
<1> QED BY <1>3, <1>4, <1>5 DEF Answers, AnswersFollow

\* While no decode has failed, the one after a select always finds room: each
\* of the layers agrees with the position, and the request wants another token.
LEMMA RoomToDecode ==
  ASSUME Inv, Answers, Decode
  PROVE  prefix[cursor] = position[cursor] /\ position[cursor] < cfg[cursor].prompt + cfg[cursor].maxNew
<1> SUFFICES ASSUME NEW r \in Requests, r = cursor
             PROVE  prefix[r] = position[r] /\ position[r] < cfg[r].prompt + cfg[r].maxNew
  BY DEF Inv, CursorOnActive, Active, Decode
<1>1. TypeOK /\ decoding /\ state[r] = "Decoding" /\ AnswerFollows(r)
  BY DEF Inv, CursorOnActive, Decode, Answers, AnswersFollow
<1>2. Undecoded(r) = 1
  BY <1>1 DEF Undecoded
<1>3. Len(generated[r]) = logits[r].seen + 1 /\ Len(generated[r]) < cfg[r].maxNew /\ prefix[r] = position[r]
  BY <1>1, <1>2 DEF AnswerFollows
<1>4. position[r] = cfg[r].prompt + logits[r].seen
  BY <1>1 DEF Inv, CacheFollowsRequest
<1>5. cfg[r].prompt \in Nat /\ cfg[r].maxNew \in Nat /\ logits[r].seen \in Nat
  BY <1>1, RequestTypes
<1> QED BY <1>3, <1>4, <1>5

LEMMA DecodeAnswers ==
  ASSUME Inv, Answers, Decode, "decode" \notin Faults
  PROVE  Answers'
<1> SUFFICES ASSUME NEW r \in Requests, r = cursor PROVE Answers'
  BY DEF Decode, Inv, CursorOnActive, Active
<1>0. /\ TypeOK /\ state[r] = "Decoding" /\ decoding /\ AnswerFollows(r)
      /\ ~decoding' /\ UNCHANGED <<state, reason, cfg, generated, draws>>
      /\ logits[r].seen \in Nat /\ position[r] \in Nat /\ prefix[r] \in Nat
  BY RequestTypes DEF Inv, CursorOnActive, Answers, AnswersFollow, Decode
<1>1. /\ position' = [position EXCEPT ![r] = @ + 1] /\ prefix' = [prefix EXCEPT ![r] = @ + 1]
      /\ \E finite \in Finite : logits' = [logits EXCEPT ![r] = NextLogits(r, finite)]
  BY RoomToDecode DEF Decode, Fail
<1>2. /\ position'[r] = position[r] + 1 /\ prefix'[r] = prefix[r] + 1
      /\ logits'[r].seen = logits[r].seen + 1
  BY <1>0, <1>1 DEF TypeOK, NextLogits
<1>3. \A q \in Requests \ {r} :
        position'[q] = position[q] /\ prefix'[q] = prefix[q] /\ logits'[q] = logits[q]
  BY <1>0, <1>1 DEF TypeOK
<1>4. \A q \in Requests : Undecoded(q)' = 0
  BY <1>0 DEF Undecoded
<1>5. AnswerFollows(r)'
  <2>1. Undecoded(r) = 1 /\ Undecoded(r)' = 0
    BY <1>0, <1>4 DEF Undecoded
  <2>2. Len(generated'[r]) = logits'[r].seen + Undecoded(r)' /\ prefix'[r] = position'[r]
    BY <1>0, <1>2, <2>1 DEF AnswerFollows
  <2> QED BY <1>0, <2>2 DEF AnswerFollows
<1>6. ASSUME NEW q \in Requests \ {r} PROVE AnswerFollows(q)'
  <2>1. AnswerFollows(q) /\ Undecoded(q) = 0 /\ Undecoded(q)' = 0
    BY <1>4 DEF Answers, AnswersFollow, Undecoded
  <2>2. position'[q] = position[q] /\ prefix'[q] = prefix[q] /\ logits'[q] = logits[q]
    BY <1>3
  <2> QED BY <1>0, <2>1, <2>2 DEF AnswerFollows
<1> QED BY <1>0, <1>5, <1>6, SameOutput DEF Answers, AnswersFollow

LEMMA NextAnswers ==
  ASSUME "decode" \notin Faults
  PROVE  Inv /\ Answers /\ [Next]_vars => Answers'
<1> SUFFICES ASSUME Inv, Answers, [Next]_vars PROVE Answers'
  OBVIOUS
<1>1. CASE \E r \in Requests, c \in Workload : Submit(r, c)
  BY <1>1, SubmitAnswers
<1>2. CASE \E r \in Requests : Cancel(r)
  BY <1>2, CancelAnswers
<1>3. CASE StepBegin
  BY <1>3, MoveAnswers DEF StepBegin, Inv, CursorOnActive
<1>4. CASE Prefill
  BY <1>4, PrefillAnswers
<1>5. CASE SelectThrows
  BY <1>5, MoveAnswers DEF SelectThrows
<1>6. CASE \E stopped \in BOOLEAN : Select(stopped)
  BY <1>6, SelectAnswers
<1>7. CASE Decode
  BY <1>7, DecodeAnswers
<1>8. CASE UNCHANGED vars
  <2>1. ASSUME NEW r \in Requests PROVE AnswerFollows(r)'
    <3>1. AnswerFollows(r)
      BY DEF Answers, AnswersFollow
    <3> QED BY <1>8, <3>1 DEF vars, AnswerFollows, Undecoded
  <2> QED BY <1>8, <2>1, SameOutput DEF vars, Answers, AnswersFollow
<1> QED BY <1>1, <1>2, <1>3, <1>4, <1>5, <1>6, <1>7, <1>8 DEF Next, Step

LEMMA AnswerInvariance ==
  ASSUME "decode" \notin Faults
  PROVE  Spec => [](Inv /\ Answers)
BY InitInv, NextInv, InitAnswers, NextAnswers, PTL DEF Spec

\* Whatever prefills fail and whatever logits are non-finite, every token a
\* request has is the one generate() gives it alone: selected after exactly the
\* tokens before it, with as many draws of its own generator.
THEOREM OutputIsItsOwn ==
  ASSUME "decode" \notin Faults
  PROVE  Spec => []OutputMatchesGenerate
BY AnswerInvariance, PTL DEF Answers

-----------------------------------------------------------------------------
(* The refinement: what each step is in RequestLifecycle.                  *)

LEMMA SameRequests == Requests = Lifecycle!Requests
BY DEF Requests, Lifecycle!Requests

LEMMA SubmitImplements ==
  ASSUME NEW r \in Requests, NEW c \in Workload, Submit(r, c)
  PROVE  Lifecycle!Submit(r, c)
BY DEF Submit, Lifecycle!Submit

LEMMA CancelImplements ==
  ASSUME NEW r \in Requests, Cancel(r)
  PROVE  Lifecycle!Cancel(r)
BY SameRequests DEF Cancel, Active, Lifecycle!Cancel, Lifecycle!Active

\* A prefill is one of a batch of one request; one that throws changes nothing a
\* caller sees.
LEMMA PrefillImplements ==
  ASSUME Inv, Prefill
  PROVE  (\E batch \in SUBSET Lifecycle!Requests : Lifecycle!Prefill(batch))
         \/ UNCHANGED Lifecycle!lifecycleVars
<1> SUFFICES ASSUME NEW r \in Requests, r = cursor
             PROVE  (\E batch \in SUBSET Lifecycle!Requests : Lifecycle!Prefill(batch))
                    \/ UNCHANGED Lifecycle!lifecycleVars
  BY DEF Prefill
<1>1. CASE UNCHANGED state
  BY <1>1 DEF Prefill, Lifecycle!lifecycleVars
<1>2. CASE state' = [state EXCEPT ![r] = "Decoding"]
  <2>1. state' = [q \in Requests |-> IF q \in {r} THEN "Decoding" ELSE state[q]]
    BY <1>2 DEF Inv, TypeOK
  <2>2. {r} # {} /\ \A q \in {r} : state[q] = "PendingPrefill"
    BY DEF Prefill
  <2>3. Lifecycle!Prefill({r})
    BY <2>1, <2>2, SameRequests DEF Prefill, Lifecycle!Prefill
  <2>4. {r} \in SUBSET Lifecycle!Requests
    BY SameRequests
  <2> QED BY <2>3, <2>4
<1> QED BY <1>1, <1>2 DEF Prefill

\* select() emits one request's next token.
LEMMA SelectImplements ==
  ASSUME Inv, Answers, NEW stopped \in BOOLEAN, Select(stopped)
  PROVE  \E batch \in SUBSET Lifecycle!Requests :
           \E stopping \in SUBSET batch : Lifecycle!Emit(batch, stopping)
<1> SUFFICES ASSUME NEW r \in Requests, r = cursor
             PROVE  \E batch \in SUBSET Lifecycle!Requests :
                      \E stopping \in SUBSET batch : Lifecycle!Emit(batch, stopping)
  BY DEF Select
<1> DEFINE ends == stopped \/ Len(generated[r]) + 1 = cfg[r].maxNew
           stopping == IF stopped THEN {r} ELSE {}
           full == {q \in {r} : Len(generated[q]) + 1 = cfg[q].maxNew}
<1>0. TypeOK /\ state[r] = "Decoding" /\ UNCHANGED cfg
  BY DEF Inv, Select
<1>1. generated' = [q \in Requests |->
        IF q \in {r} THEN Append(generated[q], Lifecycle!TokenAfter(q, Len(generated[q])))
                     ELSE generated[q]]
  <2> DEFINE token == [seen |-> Len(generated[r]),
                       draw |-> IF cfg[r].sampled THEN Len(generated[r]) ELSE 0]
  <2>1. Lifecycle!TokenAfter(r, Len(generated[r])) = token
    BY DEF Lifecycle!TokenAfter
  <2>2. generated' = [generated EXCEPT ![r] = Append(generated[r], token)]
    BY SelectedToken
  <2>3. generated = [q \in Requests |-> generated[q]]
    BY <1>0 DEF TypeOK
  <2> HIDE DEF token
  <2> QED BY <2>1, <2>2, <2>3
<1>2. stopping \in SUBSET {r} /\ (ends <=> r \in stopping \cup full) /\ (stopped <=> r \in stopping)
  OBVIOUS
<1>3. state' = [q \in Requests |-> IF q \in stopping \cup full THEN "Completed" ELSE state[q]]
  <2>1. CASE ends
    <3>1. state' = [state EXCEPT ![r] = "Completed"]
      BY <2>1, SelectEffect
    <3>2. \A q \in Requests : q \in stopping \cup full <=> q = r
      BY <1>2, <2>1
    <3> HIDE DEF stopping, full
    <3> QED BY <1>0, <3>1, <3>2 DEF TypeOK
  <2>2. CASE ~ends
    <3>1. state' = state
      BY <2>2, SelectEffect
    <3>2. \A q \in Requests : q \notin stopping \cup full
      BY <1>2, <2>2
    <3> HIDE DEF stopping, full
    <3> QED BY <1>0, <3>1, <3>2 DEF TypeOK
  <2> QED BY <2>1, <2>2
<1>4. reason' = [q \in Requests |-> IF q \in stopping THEN "StopToken"
                                    ELSE IF q \in full THEN "Length" ELSE reason[q]]
  <2>1. CASE ends
    <3>1. reason' = [reason EXCEPT ![r] = IF stopped THEN "StopToken" ELSE "Length"]
      BY <2>1, SelectEffect
    <3>2. \A q \in Requests : /\ q \in stopping <=> q = r /\ stopped
                              /\ q \notin stopping => (q \in full <=> q = r)
      BY <1>2, <2>1
    <3> HIDE DEF stopping, full
    <3> QED BY <1>0, <3>1, <3>2 DEF TypeOK
  <2>2. CASE ~ends
    <3>1. reason' = reason
      BY <2>2, SelectEffect
    <3>2. \A q \in Requests : q \notin stopping /\ q \notin full
      BY <1>2, <2>2
    <3> HIDE DEF stopping, full
    <3> QED BY <1>0, <3>1, <3>2 DEF TypeOK
  <2> QED BY <2>1, <2>2
<1>5. Lifecycle!Emit({r}, stopping)
  <2> HIDE DEF stopping
  <2> QED BY <1>0, <1>1, <1>3, <1>4, SameRequests DEF Lifecycle!Emit
<1>6. {r} \in SUBSET Lifecycle!Requests
  BY SameRequests
<1> HIDE DEF stopping
<1> QED BY <1>2, <1>5, <1>6

\* Whatever prefills fail and whatever logits are non-finite, the scheduler is an
\* implementation of the lifecycle it defines: every step of it is one of a
\* request, or none that its caller sees.
THEOREM ImplementsLifecycle ==
  ASSUME "decode" \notin Faults
  PROVE  Spec => RefinesLifecycle
<1>1. Init => Lifecycle!Init
  BY DEF Init, Lifecycle!Init, NoConfig, Lifecycle!NoConfig, Requests, Lifecycle!Requests
<1>2. Inv /\ Answers /\ [Next]_vars => [Lifecycle!Next]_(Lifecycle!lifecycleVars)
  <2> SUFFICES ASSUME Inv, Answers, [Next]_vars
               PROVE  Lifecycle!Next \/ UNCHANGED Lifecycle!lifecycleVars
    OBVIOUS
  <2>1. CASE \E r \in Requests, c \in Workload : Submit(r, c)
    BY <2>1, SubmitImplements, SameRequests DEF Lifecycle!Next
  <2>2. CASE \E r \in Requests : Cancel(r)
    BY <2>2, CancelImplements, SameRequests DEF Lifecycle!Next
  <2>3. CASE StepBegin
    BY <2>3 DEF StepBegin, Lifecycle!lifecycleVars
  <2>4. CASE Prefill
    BY <2>4, PrefillImplements DEF Lifecycle!Next
  <2>5. CASE SelectThrows
    BY <2>5 DEF SelectThrows, Lifecycle!lifecycleVars
  <2>6. CASE \E stopped \in BOOLEAN : Select(stopped)
    BY <2>6, SelectImplements DEF Lifecycle!Next
  <2>7. CASE Decode
    BY <2>7 DEF Decode, Lifecycle!lifecycleVars
  <2>8. CASE UNCHANGED vars
    BY <2>8 DEF vars, Lifecycle!lifecycleVars
  <2> QED BY <2>1, <2>2, <2>3, <2>4, <2>5, <2>6, <2>7, <2>8 DEF Next, Step
<1> QED
  BY <1>1, <1>2, AnswerInvariance, PTL DEF Spec, RefinesLifecycle, Lifecycle!LifecycleSpec

-----------------------------------------------------------------------------
(* The scheduler gets on.  That every request ends (EveryRequestEnds) is a *)
(* matter of fairness and stays with TLC; these are the two facts the      *)
(* argument rests on: while a request is active step() can go on, and      *)
(* every step but a submission comes closer to being idle.                 *)

\* The instances in which no logits are non-finite; decodes may fail.
LogitsFinite == "nonfinite" \notin Faults

\* When the guard of a step holds that is not select() throwing.
CanProceed ==
  \/ cursor = 0 /\ Active # {}
  \/ cursor \in Requests /\ state[cursor] = "PendingPrefill"
  \/ cursor \in Requests /\ state[cursor] = "Decoding" /\ ~decoding /\ logits[cursor].finite
  \/ decoding
StepMoves == Active # {} => CanProceed

\* All logits are finite; an active request fits, still wants a token, and has none
\* before its prefill.
RequestFollows(r) ==
  /\ logits[r].finite
  /\ state[r] \in {"Absent", "PendingPrefill"} => generated[r] = <<>>
  /\ state[r] \in {"PendingPrefill", "Decoding"} =>
       Len(generated[r]) < cfg[r].maxNew /\ cfg[r].prompt + cfg[r].maxNew <= Capacity
RequestsFollow == \A r \in Requests : RequestFollows(r)

\* How far the scheduler is from being idle: the failures to come, the tokens to come (the
\* prefill of a pending request counted as its token zero), and the phases of the step.
Due(r, k) ==
  /\ k <= cfg[r].maxNew
  /\ state[r] = "PendingPrefill" \/ (state[r] = "Decoding" /\ Len(generated[r]) < k)
TokensDue == {e \in Requests \X (0 .. Capacity) : Due(e[1], e[2])}
PhasesLeft == IF decoding THEN 2 ELSE IF cursor = 0 THEN 1 ELSE 0
FaultsLeft == MaxFaults - faults
Distance == <<<<FaultsLeft, Cardinality(TokensDue)>>, PhasesLeft>>

Smaller == OpToRel(<, Nat)
Shorter == LexPairOrdering(LexPairOrdering(Smaller, Smaller, Nat, Nat), Smaller, Nat \X Nat, Nat)
Nearer == <<Distance', Distance>> \in Shorter
OnlySubmissionsAdd == (\E r \in Requests, c \in Workload : Submit(r, c)) \/ Nearer

Measured ==
  /\ IsFiniteSet(TokensDue) /\ Cardinality(TokensDue) \in Nat
  /\ FaultsLeft \in Nat /\ PhasesLeft \in Nat
  /\ Distance \in (Nat \X Nat) \X Nat

LEMMA DistanceTypes == TypeOK => Measured
<1> SUFFICES ASSUME TypeOK PROVE Measured
  OBVIOUS
<1>1. IsFiniteSet(Requests) /\ IsFiniteSet(0 .. Capacity)
  BY ConstantsAssumption, FS_Interval DEF Requests
<1>2. IsFiniteSet(Requests \X (0 .. Capacity))
  BY <1>1, FS_Product
<1>3. TokensDue \subseteq Requests \X (0 .. Capacity)
  BY DEF TokensDue
<1>4. IsFiniteSet(TokensDue)
  BY <1>2, <1>3, FS_Subset
<1>5. Cardinality(TokensDue) \in Nat
  BY <1>4, FS_CardinalityType
<1>6. FaultsLeft \in Nat
  <2>1. faults \in 0 .. MaxFaults /\ MaxFaults \in Nat
    BY ConstantsAssumption DEF TypeOK
  <2> QED BY <2>1 DEF FaultsLeft
<1>7. PhasesLeft \in Nat
  BY DEF PhasesLeft
<1> QED BY <1>4, <1>5, <1>6, <1>7 DEF Measured, Distance

LEMMA NearerIs ==
  ASSUME Measured, Measured',
         \/ FaultsLeft' < FaultsLeft
         \/ FaultsLeft' = FaultsLeft /\ Cardinality(TokensDue)' < Cardinality(TokensDue)
         \/ /\ FaultsLeft' = FaultsLeft /\ TokensDue' = TokensDue
            /\ PhasesLeft' < PhasesLeft
  PROVE  Nearer
<1> DEFINE f == FaultsLeft
           n == Cardinality(TokensDue)
           p == PhasesLeft
           g == FaultsLeft'
           m == Cardinality(TokensDue)'
           q == PhasesLeft'
<1>1. {f, n, p, g, m, q} \subseteq Nat /\ Distance = <<<<f, n>>, p>> /\ Distance' = <<<<g, m>>, q>>
  BY DEF Measured, Distance
<1>2. g < f \/ (g = f /\ m < n) \/ (g = f /\ m = n /\ q < p)
  OBVIOUS
<1> HIDE DEF f, n, p, g, m, q
<1>3. \A x, y \in Nat : <<x, y>> \in Smaller <=> x < y
  BY DEF Smaller, OpToRel
<1>4. <<<<g, m>>, <<f, n>>>> \in LexPairOrdering(Smaller, Smaller, Nat, Nat)
        <=> g < f \/ (g = f /\ m < n)
  BY <1>1, <1>3 DEF LexPairOrdering
<1>5. <<<<<<g, m>>, q>>, <<<<f, n>>, p>>>> \in Shorter
        <=> \/ <<<<g, m>>, <<f, n>>>> \in LexPairOrdering(Smaller, Smaller, Nat, Nat)
            \/ <<g, m>> = <<f, n>> /\ <<q, p>> \in Smaller
  <2> HIDE DEF Smaller
  <2> QED BY <1>1 DEF Shorter, LexPairOrdering
<1> QED BY <1>1, <1>2, <1>3, <1>4, <1>5 DEF Nearer

\* No token is added and one is taken away.
LEMMA OneTokenLess ==
  ASSUME Measured, FaultsLeft' = FaultsLeft, Measured',
         \A r \in Requests : \A k \in 0 .. Capacity : Due(r, k)' => Due(r, k),
         NEW q \in Requests, NEW i \in 0 .. Capacity, Due(q, i), ~Due(q, i)'
  PROVE  Nearer
<1>1. TokensDue' \subseteq TokensDue
  BY DEF TokensDue
<1>2. <<q, i>> \in TokensDue /\ <<q, i>> \notin TokensDue'
  BY DEF TokensDue
<1>3. /\ Cardinality(TokensDue') <= Cardinality(TokensDue)
      /\ Cardinality(TokensDue') # Cardinality(TokensDue)
  BY <1>1, <1>2, FS_Subset DEF Measured
<1>4. Cardinality(TokensDue') \in Nat /\ Cardinality(TokensDue) \in Nat
  BY DEF Measured
<1>5. Cardinality(TokensDue') < Cardinality(TokensDue)
  BY <1>3, <1>4
<1> QED BY <1>5, NearerIs

\* The next token of an active request is in the range.
LEMMA TokenInRange ==
  ASSUME Inv, RequestsFollow, NEW r \in Active
  PROVE  /\ r \in Requests /\ Len(generated[r]) \in Nat /\ cfg[r].maxNew \in Nat
         /\ Len(generated[r]) + 1 \in 0 .. Capacity /\ Len(generated[r]) + 1 <= cfg[r].maxNew
<1>1. r \in Requests /\ state[r] \in {"PendingPrefill", "Decoding"}
  BY DEF Active
<1>2. Len(generated[r]) < cfg[r].maxNew /\ cfg[r].prompt + cfg[r].maxNew <= Capacity
  BY <1>1 DEF RequestsFollow, RequestFollows
<1>3. Len(generated[r]) \in Nat /\ cfg[r].maxNew \in Nat /\ cfg[r].prompt \in Nat
  BY <1>1, RequestTypes DEF Inv
<1>4. Capacity \in Nat
  BY ConstantsAssumption
<1> QED BY <1>1, <1>2, <1>3, <1>4

LEMMA CancelNearer ==
  ASSUME Inv, RequestsFollow, Measured, Measured', NEW q \in Requests, Cancel(q)
  PROVE  Nearer
<1>1. /\ q \in Active /\ state' = [state EXCEPT ![q] = "Cancelled"]
      /\ UNCHANGED <<cfg, generated, faults>>
  BY DEF Cancel
<1>2. state \in [Requests -> {"Absent", "PendingPrefill", "Decoding", "Completed", "Cancelled"}]
  BY DEF Inv, TypeOK
<1>3. /\ \A r \in Requests : \A k \in 0 .. Capacity : Due(r, k)' => Due(r, k)
      /\ \A k : ~Due(q, k)'
  BY <1>1, <1>2 DEF Due
<1>4. PICK i \in 0 .. Capacity : i <= cfg[q].maxNew /\ Len(generated[q]) < i
  BY <1>1, TokenInRange
<1>5. Due(q, i)
  BY <1>1, <1>4 DEF Due, Active
<1> QED BY <1>1, <1>3, <1>4, <1>5, OneTokenLess DEF FaultsLeft

\* The steps that take no token: the phases count, or a failure is used up.
LEMMA FaultNearer ==
  ASSUME Measured, Measured', TypeOK, faults' = faults + 1
  PROVE  Nearer
<1>1. faults \in Nat /\ MaxFaults \in Nat
  BY ConstantsAssumption DEF TypeOK
<1>2. FaultsLeft' < FaultsLeft
  BY <1>1 DEF FaultsLeft
<1> QED BY <1>2, NearerIs

LEMMA BeginNearer ==
  ASSUME Inv, Measured, Measured', StepBegin
  PROVE  Nearer
<1>1. /\ cursor = 0 /\ Active # {} /\ Advance(0, Active)
      /\ UNCHANGED <<decoding, state, cfg, generated, faults>>
  BY DEF StepBegin
<1>2. ~decoding
  BY <1>1 DEF Inv, CursorOnActive
<1>3. {r \in Active : r > 0} = Active /\ Active \subseteq Nat /\ 0 \notin Active
  BY DEF Active, Requests
<1>4. cursor' = CHOOSE r \in Active : \A q \in Active : r <= q
  BY <1>1, <1>3 DEF Advance
<1>5. cursor' \in Active
  <2> DEFINE A == Active
  <2>1. A \subseteq Nat /\ A # {} /\ cursor' = CHOOSE r \in A : \A q \in A : r <= q
    BY <1>1, <1>3, <1>4
  <2> HIDE DEF A
  <2>2. cursor' \in A
    BY <2>1, LeastElement
  <2> QED BY <2>2 DEF A
<1>6. PhasesLeft' < PhasesLeft
  <2>1. ~decoding'
    BY <1>1, <1>2, Zenon
  <2>2. cursor' # 0 /\ PhasesLeft = 1
    BY <1>1, <1>2, <1>3, <1>5 DEF PhasesLeft
  <2>3. PhasesLeft' = 0
    BY <2>1, <2>2 DEF PhasesLeft
  <2> QED BY <2>2, <2>3
<1>7. TokensDue' = TokensDue
  BY <1>1 DEF TokensDue, Due
<1> QED BY <1>1, <1>6, <1>7, NearerIs DEF FaultsLeft

LEMMA PrefillNearer ==
  ASSUME Inv, RequestsFollow, Measured, Measured', Prefill
  PROVE  Nearer
<1>1. PICK q \in Requests : q = cursor /\ state[q] = "PendingPrefill"
  BY DEF Prefill
<1>2. CASE faults' = faults + 1
  BY <1>2, FaultNearer DEF Inv
<1>3. CASE state' = [state EXCEPT ![q] = "Decoding"] /\ faults' = faults
  <2>1. UNCHANGED <<cfg, generated>>
    BY DEF Prefill
  <2>2. Len(generated[q]) = 0 /\ cfg[q].maxNew \in Nat /\ Capacity \in Nat
    <3>1. RequestFollows(q)
      BY <1>1, Zenon DEF RequestsFollow
    <3>2. generated[q] = <<>>
      BY <1>1, <3>1, Zenon DEF RequestFollows
    <3>3. Len(generated[q]) = 0
      BY <3>2
    <3>4. TypeOK
      BY DEF Inv
    <3>5. cfg[q].maxNew \in Nat
      BY <1>1, <3>4, RequestTypes
    <3>6. Capacity \in Nat
      BY ConstantsAssumption
    <3> QED BY <3>3, <3>5, <3>6
  <2>3. state \in [Requests -> {"Absent", "PendingPrefill", "Decoding", "Completed", "Cancelled"}]
    BY DEF Inv, TypeOK
  <2>4. ASSUME NEW r \in Requests, NEW k \in 0 .. Capacity, Due(r, k)' PROVE Due(r, k)
    BY <1>1, <1>3, <2>1, <2>3, <2>4 DEF Due
  <2>5. Due(q, 0) /\ 0 \in 0 .. Capacity
    BY <1>1, <2>2 DEF Due
  <2>6. ~Due(q, 0)'
    BY <1>1, <1>3, <2>1, <2>2, <2>3 DEF Due
  <2> QED BY <1>3, <2>4, <2>5, <2>6, OneTokenLess DEF FaultsLeft
<1> QED BY <1>1, <1>2, <1>3 DEF Prefill, Fail

LEMMA SelectNearer ==
  ASSUME Inv, RequestsFollow, Measured, Measured', NEW stopped \in BOOLEAN, Select(stopped)
  PROVE  Nearer
<1>1. PICK q \in Requests : q = cursor /\ state[q] = "Decoding"
  BY DEF Select
<1>2. PICK t : /\ t \in [seen : Nat, draw : Nat]
               /\ generated' = [generated EXCEPT ![q] = Append(generated[q], t)]
  BY <1>1, SelectEffect
<1>3. /\ state' = [state EXCEPT ![q] = "Completed"] \/ state' = state
      /\ UNCHANGED <<cfg, faults>>
  BY <1>1 DEF Select
<1>4. /\ state \in [Requests -> {"Absent", "PendingPrefill", "Decoding", "Completed", "Cancelled"}]
      /\ generated \in [Requests -> Seq([seen : Nat, draw : Nat])]
  BY DEF Inv, TypeOK
<1>5. /\ \A r \in Requests : Len(generated[r]) \in Nat
      /\ Len(generated'[q]) = Len(generated[q]) + 1
      /\ \A r \in Requests \ {q} : generated'[r] = generated[r]
  <2>1. generated[q] \in Seq([seen : Nat, draw : Nat])
    BY <1>4
  <2>2. Len(Append(generated[q], t)) = Len(generated[q]) + 1
    BY <1>2, <2>1, AppendProperties
  <2> QED BY <1>2, <1>4, <2>2, LenProperties
<1>6. ASSUME NEW r \in Requests, NEW k \in 0 .. Capacity, Due(r, k)' PROVE Due(r, k)
  <2>1. state'[r] = "PendingPrefill" => state[r] = "PendingPrefill"
    BY <1>3, <1>4
  <2>2. state'[r] = "Decoding" => state[r] = "Decoding"
    BY <1>3, <1>4
  <2>3. Len(generated'[r]) < k => Len(generated[r]) < k
    <3>1. CASE r = q
      BY <1>5, <3>1
    <3>2. CASE r # q
      BY <1>5, <3>2
    <3> QED BY <3>1, <3>2
  <2> QED BY <1>3, <1>6, <2>1, <2>2, <2>3 DEF Due
<1>7. PICK i \in 0 .. Capacity : i <= cfg[q].maxNew /\ i = Len(generated[q]) + 1
  BY <1>1, TokenInRange DEF Active
<1>8. Due(q, i)
  BY <1>1, <1>5, <1>7 DEF Due
<1>9. ~Due(q, i)'
  <2>1. state'[q] # "PendingPrefill"
    BY <1>1, <1>3, <1>4
  <2>2. ~ (Len(generated'[q]) < i)
    BY <1>5, <1>7
  <2> QED BY <2>1, <2>2 DEF Due
<1> QED BY <1>3, <1>6, <1>8, <1>9, OneTokenLess DEF FaultsLeft

\* Also a decode that fails, or finds no room, ends.
LEMMA DecodeNearer ==
  ASSUME Inv, Measured, Measured', Decode
  PROVE  Nearer
<1>1. decoding /\ decoding' = FALSE /\ UNCHANGED <<state, cfg, generated>>
  BY DEF Decode
<1>2. faults' = faults \/ faults' = faults + 1
  BY DEF Decode, Fail
<1>3. PhasesLeft' < PhasesLeft /\ TokensDue' = TokensDue
  BY <1>1 DEF PhasesLeft, TokensDue, Due
<1> QED BY <1>2, <1>3, NearerIs, FaultNearer DEF FaultsLeft, Inv

-----------------------------------------------------------------------------
\* A request that gets finite logits spoils nobody's.
LEMMA FiniteLogits ==
  ASSUME TypeOK, NEW q \in Requests, NEW p, p.finite, logits' = [logits EXCEPT ![q] = p],
         NEW r \in Requests, logits[r].finite
  PROVE  logits'[r].finite
<1>1. CASE r = q
  <2>1. logits'[r] = p
    BY <1>1 DEF TypeOK
  <2> QED BY <2>1, Zenon
<1>2. CASE r # q
  <2>1. logits'[r] = logits[r]
    BY <1>2 DEF TypeOK
  <2> QED BY <2>1, Zenon
<1> QED BY <1>1, <1>2

LEMMA FollowsKept ==
  ASSUME LogitsFinite, Inv, RequestsFollow, [Next]_vars
  PROVE  RequestsFollow'
<1> SUFFICES ASSUME NEW r \in Requests PROVE RequestFollows(r)'
  BY DEF RequestsFollow
<1>1. RequestFollows(r) /\ TypeOK
  BY DEF RequestsFollow, Inv
<1>2. /\ state \in [Requests -> {"Absent", "PendingPrefill", "Decoding", "Completed", "Cancelled"}]
      /\ logits \in [Requests -> [seen : Nat, finite : BOOLEAN]]
      /\ cfg \in [Requests -> Workload \cup {NoConfig}]
      /\ generated \in [Requests -> Seq([seen : Nat, draw : Nat])]
  BY <1>1 DEF TypeOK
<1>3. ASSUME NEW q \in Requests, NEW c \in Workload, Submit(q, c) PROVE RequestFollows(r)'
  <2>1. CASE r = q
    <3>1. /\ cfg'[r] = c /\ c.prompt + c.maxNew <= Capacity
          /\ generated'[r] = <<>> /\ logits'[r].finite
          /\ state'[r] = IF c.maxNew = 0 THEN "Completed" ELSE "PendingPrefill"
      BY <1>1, <1>2, <1>3, <2>1 DEF Submit, RequestFollows
    <3>2. c.maxNew \in Nat /\ Len(<<>>) = 0
      BY ConstantsAssumption
    <3>3. c.maxNew # 0 => 0 < c.maxNew
      BY <3>2
    <3> QED BY <3>1, <3>2, <3>3 DEF RequestFollows
  <2>2. CASE r # q
    BY <1>1, <1>2, <1>3, <2>2 DEF Submit, RequestFollows
  <2> QED BY <2>1, <2>2
<1>4. ASSUME NEW q \in Requests, Drop(q) PROVE logits'[r].finite
  BY <1>1, <1>2, <1>4 DEF Drop, NoLogits, RequestFollows
<1>5. ASSUME NEW q \in Requests, Cancel(q) PROVE RequestFollows(r)'
  <2>1. logits'[r].finite
    BY <1>4, <1>5 DEF Cancel
  <2>2. CASE r = q
    BY <1>2, <1>5, <2>1, <2>2 DEF Cancel, RequestFollows
  <2>3. CASE r # q
    BY <1>1, <1>2, <1>5, <2>1, <2>3 DEF Cancel, RequestFollows
  <2> QED BY <2>2, <2>3
<1>6. CASE StepBegin \/ SelectThrows
  BY <1>1, <1>6 DEF StepBegin, SelectThrows, RequestFollows
<1>7. Finite = {TRUE}
  BY DEF LogitsFinite, Finite
<1>8. CASE Prefill
  <2>1. logits'[r].finite
    <3>1. CASE UNCHANGED logits
      BY <1>1, <3>1, Zenon DEF RequestFollows
    <3> DEFINE p == [seen |-> 0, finite |-> TRUE]
    <3>2. CASE logits' = [logits EXCEPT ![cursor] = p]
      <4>1. p.finite
        OBVIOUS
      <4> HIDE DEF p
      <4> QED BY <1>1, <1>8, <3>2, <4>1, FiniteLogits DEF Prefill, RequestFollows
    <3> QED BY <1>7, <1>8, <3>1, <3>2 DEF Prefill
  <2>2. /\ UNCHANGED <<cfg, generated>>
        /\ \/ state'[r] = state[r]
           \/ state[r] = "PendingPrefill" /\ state'[r] = "Decoding"
    BY <1>2, <1>8 DEF Prefill
  <2> QED BY <1>1, <2>1, <2>2 DEF RequestFollows
<1>9. ASSUME NEW stopped \in BOOLEAN, Select(stopped) PROVE RequestFollows(r)'
  <2>1. PICK q \in Requests : q = cursor /\ state[q] = "Decoding"
    BY <1>9 DEF Select
  <2>2. logits'[r].finite
    <3>1. CASE Drop(q)
      BY <1>4, <3>1
    <3>2. CASE UNCHANGED logits
      BY <1>1, <3>2 DEF RequestFollows
    <3> QED BY <1>9, <2>1, <3>1, <3>2 DEF Select
  <2>3. CASE r # q
    BY <1>1, <1>2, <1>9, <2>1, <2>2, <2>3 DEF Select, RequestFollows
  <2>4. CASE r = q /\ state'[r] = "Completed"
    BY <2>2, <2>4 DEF RequestFollows
  <2>5. CASE r = q /\ state'[r] # "Completed"
    <3>1. Len(generated[r]) + 1 # cfg[r].maxNew /\ state'[r] = "Decoding" /\ cfg' = cfg
      BY <1>2, <1>9, <2>1, <2>5 DEF Select
    <3>2. PICK t : /\ t \in [seen : Nat, draw : Nat]
                   /\ generated' = [generated EXCEPT ![r] = Append(generated[r], t)]
      BY <1>9, <2>1, <2>5, SelectEffect
    <3>3. generated[r] \in Seq([seen : Nat, draw : Nat]) /\ generated'[r] = Append(generated[r], t)
      BY <1>2, <3>2
    <3>4. Len(generated'[r]) = Len(generated[r]) + 1
      BY <3>2, <3>3, AppendProperties
    <3>5. Len(generated[r]) \in Nat /\ cfg[r].maxNew \in Nat /\ Len(generated[r]) < cfg[r].maxNew
      BY <1>1, <2>1, <2>5, RequestTypes DEF RequestFollows
    <3>6. Len(generated'[r]) < cfg'[r].maxNew
      BY <3>1, <3>4, <3>5
    <3>7. cfg'[r].prompt + cfg'[r].maxNew <= Capacity
      BY <1>1, <2>1, <2>5, <3>1 DEF RequestFollows
    <3> QED BY <2>2, <3>1, <3>6, <3>7 DEF RequestFollows
  <2> QED BY <2>3, <2>4, <2>5
<1>10. CASE Decode
  <2>1. logits'[r].finite
    <3>1. CASE UNCHANGED logits
      BY <1>1, <3>1, Zenon DEF RequestFollows
    <3>2. ASSUME NEW q \in Requests, logits' = [logits EXCEPT ![q] = NextLogits(q, TRUE)]
          PROVE  logits'[r].finite
      <4>1. NextLogits(q, TRUE).finite
        BY DEF NextLogits
      <4> QED BY <1>1, <3>2, <4>1, FiniteLogits DEF RequestFollows
    <3> QED BY <1>7, <1>10, <3>1, <3>2 DEF Decode, Inv, CursorOnActive, Active
  <2> QED BY <1>1, <1>10, <2>1 DEF Decode, RequestFollows
<1>11. CASE UNCHANGED vars
  BY <1>1, <1>11 DEF vars, RequestFollows
<1> QED BY <1>3, <1>5, <1>6, <1>8, <1>9, <1>10, <1>11 DEF Next, Step

LEMMA StepsCount ==
  ASSUME Inv, RequestsFollow, Measured, Measured', Next
  PROVE  OnlySubmissionsAdd
<1>1. ASSUME NEW r \in Requests, Cancel(r) PROVE Nearer
  BY <1>1, CancelNearer
<1>2. ~SelectThrows
  BY DEF SelectThrows, RequestsFollow, RequestFollows
<1>3. ASSUME NEW stopped \in BOOLEAN, Select(stopped) PROVE Nearer
  BY <1>3, SelectNearer
<1> QED BY <1>1, <1>2, <1>3, BeginNearer, PrefillNearer, DecodeNearer
        DEF OnlySubmissionsAdd, Next, Step

LEMMA StepGuards == Inv /\ RequestsFollow => StepMoves
BY DEF Inv, CursorOnActive, Active, RequestsFollow, RequestFollows, StepMoves, CanProceed

LEMMA GoesOn ==
  ASSUME LogitsFinite
  PROVE  Spec => [](Inv /\ RequestsFollow /\ Measured)
<1>1. Init => RequestsFollow
  BY DEF Init, RequestsFollow, RequestFollows, NoLogits
<1>2. Inv /\ RequestsFollow /\ [Next]_vars => RequestsFollow'
  BY FollowsKept
<1>3. Inv => Measured
  BY DistanceTypes DEF Inv
<1> QED BY <1>1, <1>2, <1>3, Invariance, PTL DEF Spec

\* While a request is active, step() has a next call to make that finds finite logits, and
\* every step but a submission, one that throws in a prefill or a decode included, brings
\* the scheduler nearer to being idle, by an order in which nothing comes nearer for ever.
THEOREM EveryStepServes ==
  ASSUME LogitsFinite
  PROVE  /\ IsWellFoundedOn(Shorter, (Nat \X Nat) \X Nat)
         /\ Spec => [](StepMoves /\ Distance \in (Nat \X Nat) \X Nat)
         /\ Spec => [][OnlySubmissionsAdd]_vars
<1>1. IsWellFoundedOn(Shorter, (Nat \X Nat) \X Nat)
  <2>1. IsWellFoundedOn(Smaller, Nat)
    BY NatLessThanWellFounded DEF Smaller
  <2>2. IsWellFoundedOn(LexPairOrdering(Smaller, Smaller, Nat, Nat), Nat \X Nat)
    BY <2>1, WFLexPairOrdering
  <2> QED BY <2>1, <2>2, WFLexPairOrdering DEF Shorter
<1>2. Inv /\ RequestsFollow /\ Measured => StepMoves /\ Distance \in (Nat \X Nat) \X Nat
  BY StepGuards DEF Measured
<1>3. Spec => [](StepMoves /\ Distance \in (Nat \X Nat) \X Nat)
  BY <1>2, GoesOn, PTL
<1>4. /\ Inv /\ RequestsFollow /\ Measured /\ Measured' /\ [Next]_vars
      => [OnlySubmissionsAdd]_vars
  BY StepsCount
<1>5. Spec => [][OnlySubmissionsAdd]_vars
  BY <1>4, GoesOn, PTL DEF Spec
<1> QED BY <1>1, <1>3, <1>5
=============================================================================
