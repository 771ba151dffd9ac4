--------------------- MODULE RankedLaunchVerdictProofs ----------------------
(***************************************************************************)
(* An attempt in which nothing goes wrong gets the verdict of its mode, for *)
(* every number of ranks, steps and attempts.  Two of the modes, and the    *)
(* last group of a checkpoint run, mean a group to fail: there main() must  *)
(* find the one failure it expects although the ranks that report it race   *)
(* with the signals that end their peers.                                   *)
(***************************************************************************)
EXTENDS RankedLaunchProofs

-----------------------------------------------------------------------------
(* The course of an attempt in which nothing goes wrong.                   *)

Healthy == failures = 0 /\ ~timedOut /\ run.fits /\ attempt > 0 /\ verdict = "none"

\* The group at hand is one that is meant to fail.
MustFail == run.mode \in {"peer-failure", "uneven-input"} \/ group = "failure"

\* The failure that is meant, of a rank r whose record is p.
Intended(r, p) ==
  /\ p.status = "error"
  /\ \/ run.mode = "peer-failure" /\ r = Last
     \/ run.mode = "uneven-input" /\ p.error = "uneven"
     \/ group = "failure" /\ r = 0 /\ p.at = "barrier"

Joining == {"start", "id", "publishId", "join"}

Saving == {"barrier", "save", "rename", "announce", "publish", "ready", "verify"}

\* How far a rank gets in a group that is meant to fail: no communicator is made without
\* the peer that failed, nobody trains on uneven counts, and rank 0 fails before it saves.
\* A training group saves no checkpoint.
Where(r, p) ==
  /\ group = "train" => p.at \notin Saving
  /\ run.mode = "peer-failure" =>
       p.at \in Joining /\ p.passed = 0 /\ (r = Last => p.at = "start")
  /\ run.mode = "uneven-input" => p.at \in Joining \cup {"tokens"}
  /\ group = "failure" =>
       p.at \in Joining \cup {"tokens", "train", "barrier"} \cup (IF r = 0 THEN {} ELSE {"ready"})

Stopping == {"grace", "collect", "judge"}

\* A rank ends with 0, with the failure that is meant, or by the signal that follows it.
AsPlanned(r, p) ==
  /\ p.status = "absent" => launcher = "launch" /\ p.at = "start"
  /\ p.status # "crashed"
  /\ p.status = "error" => Intended(r, p)
  /\ p.status = "ok" => ~MustFail /\ p.at = "report"
  /\ p.signal # "none" \/ p.status \in {"term", "kill"} => launcher \in Stopping /\ ~completed
  /\ Where(r, p)

RanksAsPlanned == \A r \in Ranks : AsPlanned(r, proc[r])

LauncherAsPlanned ==
  /\ run.mode \in Modes /\ launcher # "idle"
  /\ launcher = "grace" => ~completed
  /\ launcher \in Stopping =>
       \/ completed
       \/ /\ MustFail /\ \E r \in Ranks : Intended(r, proc[r])
          /\ run.mode # "uneven-input" => terminated >= 1

\* Where a rank is when its group's checkpoint has its name.
OwnSaved == {"announce", "publish", "verify", "params", "report"}

\* Temporary files are only there between two calls of rank 0, and parameters only of
\* ranks that have saved them.
TemporariesFollow ==
  \A f \in files :
    /\ f.kind = "id.tmp" => f.of = group /\ proc[0].at = "publishId"
    /\ f.kind = "ckpt.tmp" => f.of = group /\ proc[0].at = "rename"
    /\ f.kind = "ready.tmp" => f.of = group /\ proc[0].at = "publish"
    /\ f.kind = "params" => f.of = group /\ proc[f.rank].at = "report"

\* The checkpoints a later call reads are there.
CheckpointsFollow ==
  /\ proc[0].at \notin OwnSaved => Found("ckpt", group) = {}
  /\ \A r \in Ranks : group # "train" /\ proc[r].at \in OwnSaved => Found("ckpt", group) # {}
  /\ group \in {"resumed", "uninterrupted", "failure"} => Found("ckpt", "first") # {}
  /\ group \in {"uninterrupted", "failure"} => Found("ckpt", "resumed") # {}

OnCourse ==
  Healthy => RanksAsPlanned /\ LauncherAsPlanned /\ TemporariesFollow /\ CheckpointsFollow

-----------------------------------------------------------------------------
(* The steps of a rank.                                                    *)

\* What a step of a rank can use when it is on course.
LEMMA CourseKnows ==
  ASSUME Inv, OnCourse, Healthy, NEW r \in Ranks, Running(r)
  PROVE  /\ Types /\ proc[r] \in Process /\ ProcessFollows(r) /\ proc[r].status = "running"
         /\ AsPlanned(r, proc[r]) /\ Where(r, proc[r])
         /\ RanksAsPlanned /\ LauncherAsPlanned /\ TemporariesFollow /\ CheckpointsFollow
         /\ attempt \in Nat /\ group \in Groups /\ verdict = "none"
         /\ \A f \in files : FileFollows(f) /\ f \in File /\ (f.kind # "params" => f.rank = 0)
         /\ run.mode = "checkpoint" <=> group # "train"
BY RankKnows, RunningMeans
DEF OnCourse, RanksAsPlanned, AsPlanned, Running, Healthy, Inv, Types, Launcher

\* A step of one rank keeps the others and the launcher on course.
LEMMA RankCourse ==
  ASSUME Inv, OnCourse, Healthy, NEW r \in Ranks, NEW p, Running(r), RankBecomes(r, p),
         UNCHANGED launcherVars, AsPlanned(r, p), TemporariesFollow', CheckpointsFollow'
  PROVE  OnCourse'
<1>1. UNCHANGED <<run, attempt, launcher, group, completed, terminated, verdict>>
  BY DEF launcherVars
<1>2. /\ Types /\ RanksAsPlanned /\ LauncherAsPlanned /\ proc[r].status = "running"
  BY CourseKnows
<1>3. proc'[r] = p /\ \A q \in Ranks \ {r} : proc'[q] = proc[q]
  BY <1>2, RankFrame
<1>4. RanksAsPlanned'
  <2> SUFFICES ASSUME NEW q \in Ranks PROVE AsPlanned(q, proc[q])'
    BY DEF RanksAsPlanned
  <2>1. AsPlanned(q, proc'[q])
    <3>1. CASE q = r
      BY <1>3, <3>1
    <3>2. CASE q # r
      BY <1>2, <1>3, <3>2 DEF RanksAsPlanned
    <3> QED BY <3>1, <3>2
  <2> QED BY <1>1, <2>1 DEF AsPlanned, Intended, MustFail, Where
<1>5. LauncherAsPlanned'
  <2>1. ASSUME NEW q \in Ranks, Intended(q, proc[q]) PROVE Intended(q, proc[q])'
    <3>1. q # r
      BY <1>2, <2>1 DEF Intended
    <3>2. proc'[q] = proc[q]
      BY <1>3, <3>1
    <3> QED BY <1>1, <2>1, <3>2 DEF Intended
  <2>2. MustFail' = MustFail
    BY <1>1 DEF MustFail
  <2> QED BY <1>1, <1>2, <2>1, <2>2 DEF LauncherAsPlanned
<1> QED BY <1>4, <1>5 DEF OnCourse

\* The files stay, and the rank goes on from a place where none of them is its own.
LEMMA QuietCourse ==
  ASSUME Inv, OnCourse, Healthy, NEW r \in Ranks, NEW p, Running(r), RankBecomes(r, p),
         UNCHANGED <<launcherVars, files>>, AsPlanned(r, p),
         \/ p.at = proc[r].at
         \/ /\ proc[r].at \notin {"publishId", "rename", "publish", "report"}
            /\ r = 0 /\ proc[r].at \in OwnSaved => p.at \in OwnSaved
            /\ group # "train" /\ p.at \in OwnSaved => Found("ckpt", group) # {}
  PROVE  OnCourse'
<1>1. UNCHANGED <<run, attempt, launcher, group, completed, terminated, verdict, files>>
  BY DEF launcherVars
<1>2. /\ Types /\ TemporariesFollow /\ CheckpointsFollow
      /\ \A f \in files : f \in File
  BY CourseKnows
<1>3. proc'[r] = p /\ \A q \in Ranks \ {r} : proc'[q] = proc[q]
  BY <1>2, RankFrame
<1>4. \A kind, of : Found(kind, of)' = Found(kind, of)
  BY <1>1 DEF Found
<1>5. \A q \in Ranks :
        proc[q].at \in {"publishId", "rename", "publish", "report"} => proc'[q].at = proc[q].at
  BY <1>3
<1>6. TemporariesFollow'
  <2> SUFFICES ASSUME NEW f \in files
               PROVE  /\ f.kind = "id.tmp" => f.of = group /\ proc'[0].at = "publishId"
                      /\ f.kind = "ckpt.tmp" => f.of = group /\ proc'[0].at = "rename"
                      /\ f.kind = "ready.tmp" => f.of = group /\ proc'[0].at = "publish"
                      /\ f.kind = "params" => f.of = group /\ proc'[f.rank].at = "report"
    BY <1>1 DEF TemporariesFollow
  <2>1. f.rank \in Ranks /\ 0 \in Ranks
    BY <1>2, Numbers DEF File
  <2> QED BY <1>2, <1>5, <2>1 DEF TemporariesFollow
<1>7. CheckpointsFollow'
  <2>1. proc'[0].at \notin OwnSaved => proc[0].at \notin OwnSaved
    BY <1>3, Numbers
  <2>2. ASSUME NEW q \in Ranks, group # "train", proc'[q].at \in OwnSaved
        PROVE  Found("ckpt", group) # {}
    BY <1>2, <1>3, <2>2 DEF CheckpointsFollow
  <2> QED BY <1>1, <1>2, <1>4, <2>1, <2>2 DEF CheckpointsFollow
<1> QED BY <1>6, <1>7, RankCourse

\* A rank that moves on is on course where its mode allows it to be.
LEMMA MoveCourse ==
  ASSUME Inv, OnCourse, Healthy, NEW r \in Ranks, NEW p, Running(r), RankBecomes(r, p),
         UNCHANGED <<launcherVars, files>>,
         p.status = "running", p.signal = proc[r].signal, Where(r, p),
         proc[r].at \notin {"publishId", "rename", "publish", "report"},
         r = 0 /\ proc[r].at \in OwnSaved => p.at \in OwnSaved,
         group # "train" /\ p.at \in OwnSaved => Found("ckpt", group) # {}
  PROVE  OnCourse'
<1>1. AsPlanned(r, p)
  BY CourseKnows DEF AsPlanned
<1> QED BY <1>1, QuietCourse

\* A rank that ends where it is.
LEMMA EndCourse ==
  ASSUME Inv, OnCourse, Healthy, NEW r \in Ranks, NEW p, Running(r), RankBecomes(r, p),
         UNCHANGED <<launcherVars, files>>,
         p.at = proc[r].at, p.signal = proc[r].signal,
         p.passed = proc[r].passed \/ run.mode # "peer-failure",
         \/ Intended(r, p)
         \/ p.status = "ok" /\ ~MustFail /\ p.at = "report"
         \/ p.status \in {"term", "kill"} /\ p.signal # "none"
  PROVE  OnCourse'
<1>1. Where(r, p)
  BY CourseKnows DEF Where
<1>2. p.status = "error" <=> Intended(r, p)
  BY DEF Intended
<1>3. AsPlanned(r, p)
  <2>1. p.status \in {"ok", "error", "term", "kill"}
    BY DEF Intended
  <2> QED BY <1>1, <1>2, <2>1, CourseKnows DEF AsPlanned
<1> QED BY <1>3, QuietCourse

-----------------------------------------------------------------------------
(* The steps of a rank that leave the files alone.                         *)

\* Where a group that is meant to fail lets a rank be.
Allowed(r, where) ==
  /\ group = "train" => where \notin Saving
  /\ run.mode = "peer-failure" => where \in Joining /\ r # Last
  /\ run.mode = "uneven-input" => where \in Joining \cup {"tokens"}
  /\ group = "failure" =>
       where \in Joining \cup {"tokens", "train", "barrier"} \cup (IF r = 0 THEN {} ELSE {"ready"})

LEMMA GoesCourse ==
  ASSUME Inv, OnCourse, Healthy, NEW r \in Ranks, NEW p, Running(r), RankBecomes(r, p),
         UNCHANGED <<launcherVars, files>>, Allowed(r, p.at),
         p.status = "running", p.signal = proc[r].signal,
         p.passed = proc[r].passed \/ run.mode # "peer-failure",
         proc[r].at \notin {"publishId", "rename", "publish", "report"},
         r = 0 /\ proc[r].at \in OwnSaved => p.at \in OwnSaved,
         group # "train" /\ p.at \in OwnSaved => Found("ckpt", group) # {}
  PROVE  OnCourse'
<1>1. Where(r, p)
  BY CourseKnows DEF Where, Allowed
<1> QED BY <1>1, MoveCourse

LEMMA GotoCourse ==
  ASSUME Inv, OnCourse, Healthy, NEW r \in Ranks, NEW where \in Places, Running(r),
         Goto(r, where), UNCHANGED <<launcherVars, files>>, Allowed(r, where),
         proc[r].at \notin {"publishId", "rename", "publish", "report"},
         r = 0 /\ proc[r].at \in OwnSaved => where \in OwnSaved,
         group # "train" /\ where \in OwnSaved => Found("ckpt", group) # {}
  PROVE  OnCourse'
<1> DEFINE p == [proc[r] EXCEPT !.at = where]
<1>1. RankBecomes(r, p)
  BY GotoMoves, CourseKnows
<1>2. /\ p.at = where /\ p.status = "running" /\ p.signal = proc[r].signal
      /\ p.passed = proc[r].passed
  BY CourseKnows DEF Process
<1> HIDE DEF p
<1> QED BY <1>1, <1>2, GoesCourse

LEMMA PassesCourse ==
  ASSUME Inv, OnCourse, Healthy, NEW r \in Ranks, NEW number \in 0 .. 4, NEW where \in Places,
         Running(r), Passes(r, number, where), UNCHANGED <<launcherVars, files>>,
         Allowed(r, where), run.mode # "peer-failure",
         proc[r].at \notin {"publishId", "rename", "publish", "report"},
         proc[r].at \notin OwnSaved, where \notin OwnSaved
  PROVE  OnCourse'
<1> DEFINE p == [proc[r] EXCEPT !.passed = number, !.at = where]
<1>1. RankBecomes(r, p)
  BY PassesMoves, CourseKnows
<1>2. p.at = where /\ p.status = "running" /\ p.signal = proc[r].signal
  BY CourseKnows DEF Process
<1> HIDE DEF p
<1> QED BY <1>1, <1>2, GoesCourse

LEMMA ParseCourse ==
  ASSUME Inv, OnCourse, Healthy, NEW r \in Ranks, Parse(r)
  PROVE  OnCourse'
<1>1. Running(r) /\ proc[r].at = "start" /\ UNCHANGED <<launcherVars, files>>
  BY DEF Parse, At, RankOnly
<1>2. CASE run.mode = "peer-failure" /\ r = Last
  <2> DEFINE p == [proc[r] EXCEPT !.status = "error", !.error = "arguments"]
  <2>1. RankBecomes(r, p)
    BY <1>1, <1>2, CourseKnows, ExitsMoves DEF Parse
  <2>2. /\ p.at = proc[r].at /\ p.status = "error" /\ p.signal = proc[r].signal
        /\ p.passed = proc[r].passed
    BY <1>1, CourseKnows DEF Process
  <2> HIDE DEF p
  <2> QED BY <1>1, <1>2, <2>1, <2>2, EndCourse DEF Intended
<1>3. CASE ~(run.mode = "peer-failure" /\ r = Last)
  <2>1. Goto(r, "id") /\ Allowed(r, "id")
    BY <1>3 DEF Parse, Allowed, Joining, Saving
  <2> QED BY <1>1, <2>1, GotoCourse DEF OwnSaved, Places, Untrained
<1> QED BY <1>2, <1>3

LEMMA WaitForIdCourse ==
  ASSUME Inv, OnCourse, Healthy, NEW r \in Ranks, WaitForId(r)
  PROVE  OnCourse'
<1>1. Running(r) /\ proc[r].at = "id" /\ UNCHANGED <<launcherVars, files>>
  BY DEF WaitForId, At, RankOnly
<1>2. PICK f \in Found("id", group) : proc' = [proc EXCEPT ![r].at = "join", ![r].id = f]
  BY DEF WaitForId
<1>3. f \in File /\ proc[r] \in Process /\ Where(r, proc[r])
  BY <1>1, CourseKnows DEF Found
<1> DEFINE p == [proc[r] EXCEPT !.at = "join", !.id = f]
<1>4. /\ p \in Process /\ p.at = "join" /\ p.status = "running" /\ p.signal = proc[r].signal
      /\ p.passed = proc[r].passed
  BY <1>1, <1>3 DEF Process, Places, Untrained, Running
<1>5. RankBecomes(r, p)
  BY <1>1, <1>2, <1>4, CourseKnows DEF RankBecomes, Types
<1> HIDE DEF p
<1>6. Allowed(r, "join")
  BY <1>1, <1>3 DEF Allowed, Where, Joining, Saving
<1> QED BY <1>1, <1>4, <1>5, <1>6, GoesCourse DEF OwnSaved

\* No communicator is made when one of its ranks has not come to the first collective.
LEMMA JoinCourse ==
  ASSUME Inv, OnCourse, Healthy, NEW r \in Ranks, Join(r)
  PROVE  OnCourse'
<1>1. /\ Running(r) /\ proc[r].at = "join" /\ Passes(r, 1, "tokens")
      /\ UNCHANGED <<launcherVars, files>>
      /\ \A q \in Ranks : proc[q].passed >= 1 \/ At(q, "join")
  BY DEF Join, Collective, At, RankOnly
<1>2. run.mode # "peer-failure"
  <2>1. Where(Last, proc[Last])
    BY <1>1, CourseKnows, Numbers DEF RanksAsPlanned, AsPlanned
  <2>2. proc[Last].passed >= 1 \/ proc[Last].at = "join"
    BY <1>1, Numbers DEF At
  <2> QED BY <2>1, <2>2 DEF Where
<1>3. Allowed(r, "tokens")
  BY <1>2 DEF Allowed, Saving
<1> QED BY <1>1, <1>2, <1>3, PassesCourse DEF OwnSaved, Places, Untrained

LEMMA CountTokensCourse ==
  ASSUME Inv, OnCourse, Healthy, NEW r \in Ranks, CountTokens(r)
  PROVE  OnCourse'
<1>1. Running(r) /\ proc[r].at = "tokens" /\ UNCHANGED <<launcherVars, files>>
  BY DEF CountTokens, Collective, At, RankOnly
<1>2. proc[r] \in Process /\ run.mode # "peer-failure"
  BY <1>1, CourseKnows DEF Where, Joining
<1>3. CASE run.mode = "uneven-input"
  <2> DEFINE p == [proc[r] EXCEPT !.passed = 2, !.status = "error", !.error = "uneven"]
  <2>1. [proc[r] EXCEPT !.passed = 2] \in Process
    BY <1>2 DEF Process
  <2>2. p \in Process
    BY <2>1 DEF Process
  <2>3. p.at = "tokens" /\ p.status = "error" /\ p.error = "uneven" /\ p.signal = proc[r].signal
    BY <1>1, <1>2 DEF Process
  <2>4. RankBecomes(r, p)
    BY <1>1, <1>3, <2>2, CourseKnows DEF RankBecomes, Types, CountTokens
  <2> HIDE DEF p
  <2> QED BY <1>1, <1>3, <2>3, <2>4, EndCourse DEF Intended
<1>4. CASE run.mode # "uneven-input"
  <2>1. PICK where \in {"restore", "train"} :
          Passes(r, 2, where) /\ (where = "restore" => group = "resumed")
    BY <1>4 DEF CountTokens
  <2>2. Allowed(r, where)
    BY <1>2, <1>4, <2>1 DEF Allowed, Saving
  <2> QED BY <1>1, <1>2, <2>1, <2>2, PassesCourse DEF OwnSaved, Places, Untrained
<1> QED BY <1>3, <1>4

\* A group that resumes finds the checkpoint of the first.
LEMMA RestoreCourse ==
  ASSUME Inv, OnCourse, Healthy, NEW r \in Ranks, Restore(r)
  PROVE  OnCourse'
<1>1. Running(r) /\ proc[r].at = "restore" /\ UNCHANGED <<launcherVars, files>>
  BY DEF Restore, At, RankOnly
<1>2. /\ proc[r] \in Process /\ group = "resumed" /\ Found("ckpt", "first") # {}
      /\ run.mode \notin {"peer-failure", "uneven-input"}
  BY <1>1, CourseKnows DEF ProcessFollows, CheckpointsFollow
<1>3. PICK f \in Found("ckpt", "first") :
        proc' = [proc EXCEPT ![r].at = "train", ![r].step = f.step, ![r].loaded = f]
  BY <1>2 DEF Restore
<1>4. f \in File /\ f.step \in Nat
  BY <1>1, CourseKnows DEF Found, File
<1> DEFINE p == [proc[r] EXCEPT !.at = "train", !.step = f.step, !.loaded = f]
<1>5. /\ p \in Process /\ p.at = "train" /\ p.status = "running" /\ p.signal = proc[r].signal
      /\ p.passed = proc[r].passed
  BY <1>1, <1>2, <1>4 DEF Process, Places, Running
<1>6. RankBecomes(r, p)
  BY <1>1, <1>3, <1>5, CourseKnows DEF RankBecomes, Types
<1> HIDE DEF p
<1>7. Allowed(r, "train")
  BY <1>2 DEF Allowed, Saving
<1> QED BY <1>1, <1>5, <1>6, <1>7, GoesCourse DEF OwnSaved

LEMMA TrainCourse ==
  ASSUME Inv, OnCourse, Healthy, NEW r \in Ranks, Train(r)
  PROVE  OnCourse'
<1> DEFINE where == IF WritesCheckpoint(group) THEN "barrier" ELSE "params"
           p == [proc[r] EXCEPT !.passed = 3, !.step = proc[r].step + Steps(group), !.at = where]
<1>1. /\ Running(r) /\ proc[r].at = "train" /\ UNCHANGED <<launcherVars, files>>
      /\ proc' = [proc EXCEPT ![r].passed = 3, ![r].step = @ + Steps(group), ![r].at = where]
  BY DEF Train, Collective, At, RankOnly
<1>2. /\ proc[r] \in Process /\ run.mode # "peer-failure" /\ run.mode # "uneven-input"
      /\ proc[r].step \in Nat /\ Steps(group) \in Nat /\ proc[r].step + Steps(group) \in Nat
  <2>1. proc[r] \in Process /\ run.mode # "peer-failure" /\ run.mode # "uneven-input"
    BY <1>1, CourseKnows DEF Where, Joining
  <2>2. proc[r].step \in Nat /\ Steps(group) \in Nat
    BY <1>1, <2>1, CourseKnows, ReachedRange DEF Process
  <2> QED BY <2>1, <2>2
<1>3. /\ where \in {"barrier", "params"} /\ where \in Places
      /\ where = "params" <=> group = "train"
  BY DEF WritesCheckpoint, Places, TrainedPlaces
<1> HIDE DEF where
<1>4. /\ p \in Process /\ p.at = where /\ p.status = "running" /\ p.signal = proc[r].signal
  <2>1. [proc[r] EXCEPT !.passed = 3] \in Process
    BY <1>2 DEF Process
  <2>2. [proc[r] EXCEPT !.passed = 3, !.step = proc[r].step + Steps(group)] \in Process
    BY <1>2, <2>1 DEF Process
  <2>3. p \in Process
    BY <1>3, <2>2 DEF Process
  <2> QED BY <1>1, <1>2, <2>3 DEF Process, Running
<1>5. RankBecomes(r, p)
  BY <1>1, <1>4, CourseKnows DEF RankBecomes, Types
<1> HIDE DEF p
<1>6. Allowed(r, where)
  BY <1>2, <1>3 DEF Allowed, Saving
<1> QED BY <1>1, <1>2, <1>3, <1>4, <1>5, <1>6, GoesCourse DEF OwnSaved

\* The failure of the last group of a checkpoint run.
LEMMA BarrierCourse ==
  ASSUME Inv, OnCourse, Healthy, NEW r \in Ranks, Barrier(r)
  PROVE  OnCourse'
<1>1. Running(r) /\ proc[r].at = "barrier" /\ UNCHANGED <<launcherVars, files>>
  BY DEF Barrier, Collective, At, RankOnly
<1>2. /\ proc[r] \in Process /\ run.mode # "peer-failure" /\ run.mode # "uneven-input"
      /\ group # "train"
  BY <1>1, CourseKnows DEF Where, Joining, Saving
<1>3. CASE r # 0 \/ group # "failure"
  <2>1. PICK where \in {"ready", "save"} :
          Passes(r, 4, where) /\ (group = "failure" => where = "ready" /\ r # 0)
    BY <1>3 DEF Barrier
  <2>2. Allowed(r, where)
    BY <1>2, <2>1 DEF Allowed, Saving
  <2> QED BY <1>1, <1>2, <2>1, <2>2, PassesCourse DEF OwnSaved, Places, TrainedPlaces
<1>4. CASE r = 0 /\ group = "failure"
  <2> DEFINE p == [proc[r] EXCEPT !.passed = 4, !.status = "error", !.error = "other"]
  <2>1. [proc[r] EXCEPT !.passed = 4] \in Process
    BY <1>2 DEF Process
  <2>2. p \in Process
    BY <2>1 DEF Process
  <2>3. p.at = proc[r].at /\ p.status = "error" /\ p.signal = proc[r].signal
    BY <1>2 DEF Process
  <2>4. RankBecomes(r, p)
    BY <1>1, <1>4, <2>2, CourseKnows DEF RankBecomes, Types, Barrier
  <2> HIDE DEF p
  <2> QED BY <1>1, <1>2, <1>4, <2>3, <2>4, EndCourse DEF Intended
<1> QED BY <1>3, <1>4

\* Behind the ready file there is a checkpoint; in the group that is meant to fail
\* neither of them.
LEMMA WaitForReadyCourse ==
  ASSUME Inv, OnCourse, Healthy, NEW r \in Ranks, WaitForReady(r)
  PROVE  OnCourse'
<1>1. /\ Running(r) /\ proc[r].at = "ready" /\ Goto(r, "verify")
      /\ UNCHANGED <<launcherVars, files>> /\ Found("ready", group) # {}
  BY DEF WaitForReady, At, RankOnly
<1>2. /\ run.mode # "peer-failure" /\ run.mode # "uneven-input" /\ verdict = "none"
      /\ Where(0, proc[0]) /\ Types /\ group # "train"
  BY <1>1, CourseKnows, Numbers DEF Where, Joining, Saving, RanksAsPlanned, AsPlanned
<1>3. group # "failure"
  BY <1>1, <1>2 DEF Where, Joining, Inv, SavedInOrder
<1>4. Found("ckpt", group) # {}
  <2>1. PICK f \in files : f.kind = "ready" /\ f.of = group
    BY <1>1 DEF Found
  <2> DEFINE g == [f EXCEPT !.kind = "ckpt"]
  <2>2. g.kind = "ckpt" /\ g.of = group /\ g \in files
    BY <1>2, <2>1, RenamedFile DEF Inv, ReadyMeansComplete, Types, Kinds
  <2> HIDE DEF g
  <2> QED BY <2>2 DEF Found
<1>5. Allowed(r, "verify")
  BY <1>2, <1>3 DEF Allowed, Saving
<1>6. proc[r].at \notin OwnSaved
  BY <1>1 DEF OwnSaved
<1> QED BY <1>1, <1>4, <1>5, <1>6, GotoCourse DEF Places, TrainedPlaces

LEMMA VerifyCourse ==
  ASSUME Inv, OnCourse, Healthy, NEW r \in Ranks, Verify(r)
  PROVE  OnCourse'
<1>1. Running(r) /\ proc[r].at = "verify" /\ UNCHANGED <<launcherVars, files>>
  BY DEF Verify, At, RankOnly
<1>2. /\ proc[r] \in Process /\ run.mode # "peer-failure" /\ run.mode # "uneven-input"
      /\ group \notin {"failure", "train"}
  BY <1>1, CourseKnows DEF Where, Joining, Saving
<1>3. PICK f \in Found("ckpt", group) :
        proc' = [proc EXCEPT ![r].at = "params", ![r].loaded = f]
  <2>1. group # "train" => Found("ckpt", group) # {}
    BY <1>1, CourseKnows DEF CheckpointsFollow, OwnSaved
  <2>2. proc[r].step = Reached(group)
    BY <1>1, CourseKnows DEF ProcessFollows, TrainedPlaces
  <2>3. \A f \in Found("ckpt", group) : f.step = proc[r].step
    BY <1>1, <2>2, CourseKnows DEF Found, FileFollows
  <2>4. group # "train"
    BY <1>1, CourseKnows DEF Where, Saving
  <2> QED BY <2>1, <2>3, <2>4 DEF Verify
<1>4. f \in File
  BY <1>1, CourseKnows DEF Found
<1> DEFINE p == [proc[r] EXCEPT !.at = "params", !.loaded = f]
<1>5. /\ p \in Process /\ p.at = "params" /\ p.status = "running" /\ p.signal = proc[r].signal
      /\ p.passed = proc[r].passed
  BY <1>1, <1>2, <1>4 DEF Process, Places, TrainedPlaces, Running
<1>6. RankBecomes(r, p)
  BY <1>1, <1>3, <1>5, CourseKnows DEF RankBecomes, Types
<1> HIDE DEF p
<1>7. Allowed(r, "params")
  BY <1>2 DEF Allowed, Saving
<1>8. Found("ckpt", group) # {}
  BY <1>3
<1> QED BY <1>1, <1>5, <1>6, <1>7, <1>8, GoesCourse DEF OwnSaved

LEMMA ReportCourse ==
  ASSUME Inv, OnCourse, Healthy, NEW r \in Ranks, Report(r)
  PROVE  OnCourse'
<1>1. /\ Running(r) /\ proc[r].at = "report" /\ Exits(r, "ok", "none")
      /\ UNCHANGED <<launcherVars, files>>
  BY DEF Report, At, RankOnly
<1> DEFINE p == [proc[r] EXCEPT !.status = "ok", !.error = "none"]
<1>2. RankBecomes(r, p)
  BY <1>1, CourseKnows, ExitsMoves
<1>3. /\ p.at = proc[r].at /\ p.status = "ok" /\ p.signal = proc[r].signal
      /\ p.passed = proc[r].passed
  BY <1>1, CourseKnows DEF Process
<1> HIDE DEF p
<1>4. ~MustFail
  BY <1>1, CourseKnows DEF Where, Joining, MustFail
<1> QED BY <1>1, <1>2, <1>3, <1>4, EndCourse

LEMMA DiesCourse ==
  ASSUME Inv, OnCourse, Healthy, NEW r \in Ranks, Dies(r)
  PROVE  OnCourse'
<1>1. /\ Running(r) /\ proc[r].signal # "none" /\ Exits(r, proc[r].signal, "none")
      /\ UNCHANGED <<launcherVars, files>>
  BY DEF Dies, RankOnly
<1>2. proc[r] \in Process /\ proc[r].signal \in {"term", "kill"}
  BY <1>1, CourseKnows DEF Process
<1> DEFINE p == [proc[r] EXCEPT !.status = proc[r].signal, !.error = "none"]
<1>3. RankBecomes(r, p)
  BY <1>1, <1>2, CourseKnows, ExitsMoves
<1>4. /\ p.at = proc[r].at /\ p.status = proc[r].signal /\ p.signal = proc[r].signal
      /\ p.passed = proc[r].passed
  BY <1>2 DEF Process
<1> HIDE DEF p
<1> QED BY <1>1, <1>2, <1>3, <1>4, EndCourse

-----------------------------------------------------------------------------
(* The steps of a rank that write or rename a file.                        *)

\* A rank goes on, and what is new in the directory is its own: a temporary file only
\* where the next call renames it, and the checkpoint where it has its name.
LEMMA FilesCourse ==
  ASSUME Inv, OnCourse, Healthy, NEW r \in Ranks, NEW p, Running(r), RankBecomes(r, p),
         UNCHANGED launcherVars, Allowed(r, p.at),
         p.status = "running", p.signal = proc[r].signal, p.passed = proc[r].passed,
         proc[r].at # "report",
         \A f \in files' :
           /\ f.kind = "id.tmp" => f \in files \/ (f.of = group /\ r = 0 /\ p.at = "publishId")
           /\ f.kind = "ckpt.tmp" => f \in files \/ (f.of = group /\ r = 0 /\ p.at = "rename")
           /\ f.kind = "ready.tmp" => f \in files \/ (f.of = group /\ r = 0 /\ p.at = "publish")
           /\ f.kind = "params" => f \in files \/ (f.of = group /\ f.rank = r /\ p.at = "report"),
         r = 0 /\ proc[0].at = "publishId" => \A f \in files' : f.kind # "id.tmp",
         r = 0 /\ proc[0].at = "rename" => \A f \in files' : f.kind # "ckpt.tmp",
         r = 0 /\ proc[0].at = "publish" => \A f \in files' : f.kind # "ready.tmp",
         \A of \in Groups \ {group} : Found("ckpt", of)' = Found("ckpt", of),
         \/ /\ Found("ckpt", group)' = Found("ckpt", group)
            /\ p.at \in OwnSaved <=> proc[r].at \in OwnSaved
         \/ r = 0 /\ p.at \in OwnSaved /\ Found("ckpt", group)' # {}
  PROVE  OnCourse'
<1>1. UNCHANGED <<run, attempt, launcher, group, completed, terminated, verdict>>
  BY DEF launcherVars
<1>2. Types /\ TemporariesFollow /\ CheckpointsFollow /\ group \in Groups
  BY CourseKnows
<1>3. proc'[r] = p /\ \A q \in Ranks \ {r} : proc'[q] = proc[q]
  BY <1>2, RankFrame
<1>4. TemporariesFollow'
  <2> SUFFICES ASSUME NEW f \in files'
               PROVE  /\ f.kind = "id.tmp" => f.of = group /\ proc'[0].at = "publishId"
                      /\ f.kind = "ckpt.tmp" => f.of = group /\ proc'[0].at = "rename"
                      /\ f.kind = "ready.tmp" => f.of = group /\ proc'[0].at = "publish"
                      /\ f.kind = "params" => f.of = group /\ proc'[f.rank].at = "report"
    BY <1>1 DEF TemporariesFollow
  <2>1. CASE f \in files
    <3>1. f.rank \in Ranks
      BY <1>2, <2>1 DEF Types, File
    <3>2. /\ f.kind = "id.tmp" => f.of = group /\ proc[0].at = "publishId"
          /\ f.kind = "ckpt.tmp" => f.of = group /\ proc[0].at = "rename"
          /\ f.kind = "ready.tmp" => f.of = group /\ proc[0].at = "publish"
          /\ f.kind = "params" => f.of = group /\ proc[f.rank].at = "report"
      BY <1>2, <2>1 DEF TemporariesFollow
    <3>3. CASE r = 0
      BY <1>3, <3>1, <3>2, <3>3
    <3>4. CASE r # 0
      BY <1>3, <3>1, <3>2, <3>4, Numbers
    <3> QED BY <3>3, <3>4
  <2>2. CASE f \notin files
    BY <1>3, <2>2
  <2> QED BY <2>1, <2>2
<1>5. CheckpointsFollow'
  <2>1. proc'[0].at \notin OwnSaved => Found("ckpt", group)' = {}
    BY <1>2, <1>3, Numbers DEF CheckpointsFollow
  <2>2. ASSUME NEW q \in Ranks, group # "train", proc'[q].at \in OwnSaved
        PROVE  Found("ckpt", group)' # {}
    BY <1>2, <1>3, <2>2 DEF CheckpointsFollow
  <2>3. /\ group \in {"resumed", "uninterrupted", "failure"} => Found("ckpt", "first")' # {}
        /\ group \in {"uninterrupted", "failure"} => Found("ckpt", "resumed")' # {}
    <3>1. /\ group # "first" => Found("ckpt", "first")' = Found("ckpt", "first")
          /\ group # "resumed" => Found("ckpt", "resumed")' = Found("ckpt", "resumed")
      BY DEF Groups
    <3> QED BY <1>2, <3>1 DEF CheckpointsFollow
  <2>4. \A of : Found("ckpt", of)' = {f \in files' : f.kind = "ckpt" /\ f.of = of}
    BY DEF Found
  <2> QED BY <1>1, <2>1, <2>2, <2>3, <2>4 DEF CheckpointsFollow, Found
<1>6. AsPlanned(r, p)
  <2>1. Where(r, p)
    BY CourseKnows DEF Where, Allowed
  <2> QED BY <2>1, CourseKnows DEF AsPlanned
<1> QED BY <1>4, <1>5, <1>6, RankCourse

\* The rank's record when all that changes is where it is.
LEMMA GotoRecord ==
  ASSUME Inv, OnCourse, Healthy, NEW r \in Ranks, NEW where \in Places, Running(r),
         Goto(r, where)
  PROVE  \E p : /\ RankBecomes(r, p) /\ p.at = where /\ p.status = "running"
                /\ p.signal = proc[r].signal /\ p.passed = proc[r].passed
<1> DEFINE p == [proc[r] EXCEPT !.at = where]
<1>1. RankBecomes(r, p)
  BY GotoMoves, CourseKnows
<1>2. /\ p.at = where /\ p.status = "running" /\ p.signal = proc[r].signal
      /\ p.passed = proc[r].passed
  BY CourseKnows DEF Process
<1> HIDE DEF p
<1> QED BY <1>1, <1>2

\* Where rank 0 saves, the group is not one that is meant to fail.
LEMMA SavingCourse ==
  ASSUME Inv, OnCourse, Healthy, Running(0),
         proc[0].at \in {"save", "rename", "announce", "publish"}
  PROVE  /\ run.mode \notin {"peer-failure", "uneven-input"} /\ group \notin {"failure", "train"}
         /\ \A where : Allowed(0, where)
<1>1. Where(0, proc[0])
  BY CourseKnows, Numbers
<1>2. run.mode \notin {"peer-failure", "uneven-input"} /\ group \notin {"failure", "train"}
  BY <1>1 DEF Where, Joining, Saving
<1> QED BY <1>2 DEF Allowed

LEMMA WriteIdCourse ==
  ASSUME Inv, OnCourse, Healthy, WriteId
  PROVE  OnCourse'
<1> DEFINE f == Made("id.tmp", group, 0, 0)
           id == Made("id", group, 0, 0)
           p == [proc[0] EXCEPT !.at = "publishId", !.id = id]
<1>1. /\ Running(0) /\ proc[0].at = "id" /\ files' = Written(f)
      /\ proc' = [proc EXCEPT ![0].at = "publishId", ![0].id = id]
      /\ UNCHANGED launcherVars
  BY DEF WriteId, At, RankOnly
<1>2. f \in File /\ f.kind = "id.tmp" /\ f.of = group /\ f.rank = 0 /\ id \in File
  BY <1>1, CourseKnows, MadeIs, Numbers DEF Kinds
<1>3. proc[0] \in Process /\ Where(0, proc[0])
  BY <1>1, CourseKnows, Numbers
<1> HIDE DEF f, id
<1>4. /\ p \in Process /\ p.at = "publishId" /\ p.status = "running"
      /\ p.signal = proc[0].signal /\ p.passed = proc[0].passed
  BY <1>1, <1>2, <1>3 DEF Process, Places, Untrained, Running
<1>5. RankBecomes(0, p)
  BY <1>1, <1>4, CourseKnows, Numbers DEF RankBecomes, Types
<1> HIDE DEF p
<1>6. Allowed(0, "publishId")
  BY <1>1, <1>3 DEF Allowed, Where, Joining, Saving
<1>7. \A x : x \in files' <=>
        x = f \/ (x \in files /\ (x.kind # "id.tmp" \/ x.of # group \/ x.rank # 0))
  BY <1>1, <1>2, WrittenIs
<1>8. \A of : Found("ckpt", of)' = Found("ckpt", of)
  BY <1>2, <1>7 DEF Found
<1> QED BY <1>1, <1>2, <1>4, <1>5, <1>6, <1>7, <1>8, FilesCourse, Numbers DEF OwnSaved, launcherVars

LEMMA PublishIdCourse ==
  ASSUME Inv, OnCourse, Healthy, PublishId
  PROVE  OnCourse'
<1>1. /\ Running(0) /\ proc[0].at = "publishId" /\ files' = Renamed("id.tmp", "id", group)
      /\ Goto(0, "join") /\ UNCHANGED launcherVars
  BY DEF PublishId, At, RankOnly
<1>2. /\ TemporariesFollow /\ Where(0, proc[0])
      /\ \A x \in files : x \in File /\ (x.kind # "params" => x.rank = 0)
  BY <1>1, CourseKnows, Numbers
<1>3. PICK p : /\ RankBecomes(0, p) /\ p.at = "join" /\ p.status = "running"
               /\ p.signal = proc[0].signal /\ p.passed = proc[0].passed
  BY <1>1, GotoRecord, Numbers DEF Places, Untrained
<1>4. Allowed(0, "join")
  BY <1>1, <1>2 DEF Allowed, Where, Joining, Saving
<1>5. \A x \in files' : x.kind = "id" \/ (x \in files /\ x.kind # "id.tmp")
  <2> SUFFICES ASSUME NEW x \in files' PROVE x.kind = "id" \/ (x \in files /\ x.kind # "id.tmp")
    OBVIOUS
  <2>1. CASE x \in files /\ (x.kind \notin {"id.tmp", "id"} \/ x.of # group \/ x.rank # 0)
    BY <1>2, <2>1 DEF TemporariesFollow
  <2>2. CASE \E f \in Found("id.tmp", group) : x = [f EXCEPT !.kind = "id"]
    BY <1>2, <2>2, RenamedFile DEF Found, Kinds
  <2> QED BY <1>1, <2>1, <2>2, RenamedIs
<1>6. \A x \in files : x.kind \notin {"id.tmp", "id"} => x \in files'
  BY <1>1, RenamedIs
<1>7. \A of : Found("ckpt", of)' = Found("ckpt", of)
  BY <1>5, <1>6 DEF Found
<1> QED BY <1>1, <1>3, <1>4, <1>5, <1>7, FilesCourse, Numbers DEF OwnSaved, launcherVars

LEMMA SaveTemporaryCourse ==
  ASSUME Inv, OnCourse, Healthy, SaveTemporary
  PROVE  OnCourse'
<1> DEFINE f == Made("ckpt.tmp", group, 0, proc[0].step)
<1>1. /\ Running(0) /\ proc[0].at = "save" /\ files' = Written(f)
      /\ Goto(0, "rename") /\ UNCHANGED launcherVars
  BY DEF SaveTemporary, At, RankOnly
<1>2. f.kind = "ckpt.tmp" /\ f.of = group
  BY DEF Made
<1>3. Allowed(0, "rename")
  BY <1>1, SavingCourse
<1>4. PICK p : /\ RankBecomes(0, p) /\ p.at = "rename" /\ p.status = "running"
               /\ p.signal = proc[0].signal /\ p.passed = proc[0].passed
  BY <1>1, GotoRecord, Numbers DEF Places, TrainedPlaces
<1> HIDE DEF f
<1>5. /\ \A x \in files' : x = f \/ x \in files
      /\ \A x \in files : x.kind = "ckpt" => x \in files'
  BY <1>1, <1>2, WrittenIs
<1>6. \A of : Found("ckpt", of)' = Found("ckpt", of)
  BY <1>2, <1>5 DEF Found
<1> QED BY <1>1, <1>2, <1>3, <1>4, <1>5, <1>6, FilesCourse, Numbers DEF OwnSaved, launcherVars

LEMMA SaveRenameCourse ==
  ASSUME Inv, OnCourse, Healthy, SaveRename
  PROVE  OnCourse'
<1> DEFINE f == Made("ckpt", group, 0, proc[0].step)
<1>1. /\ Running(0) /\ proc[0].at = "rename" /\ files' = Renamed("ckpt.tmp", "ckpt", group)
      /\ Goto(0, "announce") /\ UNCHANGED launcherVars
  BY DEF SaveRename, At, RankOnly
<1>2. f.kind = "ckpt" /\ f.of = group
  BY DEF Made
<1>3. Allowed(0, "announce")
  BY <1>1, SavingCourse
<1>4. PICK p : /\ RankBecomes(0, p) /\ p.at = "announce" /\ p.status = "running"
               /\ p.signal = proc[0].signal /\ p.passed = proc[0].passed
  BY <1>1, GotoRecord, Numbers DEF Places, TrainedPlaces
<1>5. Found("ckpt.tmp", group) = {Made("ckpt.tmp", group, 0, proc[0].step)}
  BY <1>1, RankKnows, Numbers DEF Inv, SavedInOrder, Running, Live
<1>6. \A x : x \in files' <=>
        x = f \/ (x \in files /\ (x.kind \notin {"ckpt.tmp", "ckpt"} \/ x.of # group \/ x.rank # 0))
  BY <1>1, <1>5, RenamedIs, MadeRenamed
<1> HIDE DEF f
<1>7. /\ TemporariesFollow
      /\ \A x \in files : x.kind # "params" => x.rank = 0
  BY <1>1, CourseKnows, Numbers
<1>8. \A x \in files' : x.kind # "ckpt.tmp"
  BY <1>2, <1>6, <1>7 DEF TemporariesFollow
<1>9. \A of \in Groups \ {group} : Found("ckpt", of)' = Found("ckpt", of)
  BY <1>2, <1>6 DEF Found
<1>10. Found("ckpt", group)' # {}
  <2>1. f \in files' /\ UNCHANGED group
    BY <1>1, <1>6 DEF launcherVars
  <2> QED BY <1>2, <2>1 DEF Found
<1>11. \A x \in files' : x.kind = "ckpt" \/ x \in files
  BY <1>2, <1>6
<1> QED BY <1>1, <1>3, <1>4, <1>8, <1>9, <1>10, <1>11, FilesCourse, Numbers
        DEF OwnSaved, launcherVars

LEMMA AnnounceCourse ==
  ASSUME Inv, OnCourse, Healthy, Announce
  PROVE  OnCourse'
<1> DEFINE f == Made("ready.tmp", group, 0, proc[0].step)
<1>1. /\ Running(0) /\ proc[0].at = "announce" /\ files' = Written(f)
      /\ Goto(0, "publish") /\ UNCHANGED launcherVars
  BY DEF Announce, SaveFinished, At, RankOnly
<1>2. f.kind = "ready.tmp" /\ f.of = group
  BY DEF Made
<1>3. Allowed(0, "publish")
  BY <1>1, SavingCourse
<1>4. PICK p : /\ RankBecomes(0, p) /\ p.at = "publish" /\ p.status = "running"
               /\ p.signal = proc[0].signal /\ p.passed = proc[0].passed
  BY <1>1, GotoRecord, Numbers DEF Places, TrainedPlaces
<1> HIDE DEF f
<1>5. /\ \A x \in files' : x = f \/ x \in files
      /\ \A x \in files : x.kind = "ckpt" => x \in files'
  BY <1>1, <1>2, WrittenIs
<1>6. \A of : Found("ckpt", of)' = Found("ckpt", of)
  BY <1>2, <1>5 DEF Found
<1> QED BY <1>1, <1>2, <1>3, <1>4, <1>5, <1>6, FilesCourse, Numbers DEF OwnSaved, launcherVars

LEMMA PublishCourse ==
  ASSUME Inv, OnCourse, Healthy, Publish
  PROVE  OnCourse'
<1>1. /\ Running(0) /\ proc[0].at = "publish" /\ files' = Renamed("ready.tmp", "ready", group)
      /\ Goto(0, "verify") /\ UNCHANGED launcherVars
  BY DEF Publish, At, RankOnly
<1>2. /\ TemporariesFollow
      /\ \A x \in files : x \in File /\ (x.kind # "params" => x.rank = 0)
  BY <1>1, CourseKnows, Numbers
<1>3. Allowed(0, "verify")
  BY <1>1, SavingCourse
<1>4. PICK p : /\ RankBecomes(0, p) /\ p.at = "verify" /\ p.status = "running"
               /\ p.signal = proc[0].signal /\ p.passed = proc[0].passed
  BY <1>1, GotoRecord, Numbers DEF Places, TrainedPlaces
<1>5. \A x \in files' : x.kind = "ready" \/ (x \in files /\ x.kind # "ready.tmp")
  <2> SUFFICES ASSUME NEW x \in files'
               PROVE  x.kind = "ready" \/ (x \in files /\ x.kind # "ready.tmp")
    OBVIOUS
  <2>1. CASE x \in files /\ (x.kind \notin {"ready.tmp", "ready"} \/ x.of # group \/ x.rank # 0)
    BY <1>2, <2>1 DEF TemporariesFollow
  <2>2. CASE \E f \in Found("ready.tmp", group) : x = [f EXCEPT !.kind = "ready"]
    BY <1>2, <2>2, RenamedFile DEF Found, Kinds
  <2> QED BY <1>1, <2>1, <2>2, RenamedIs
<1>6. \A x \in files : x.kind \notin {"ready.tmp", "ready"} => x \in files'
  BY <1>1, RenamedIs
<1>7. \A of : Found("ckpt", of)' = Found("ckpt", of)
  BY <1>5, <1>6 DEF Found
<1> QED BY <1>1, <1>3, <1>4, <1>5, <1>7, FilesCourse, Numbers DEF OwnSaved, launcherVars

LEMMA SaveParametersCourse ==
  ASSUME Inv, OnCourse, Healthy, NEW r \in Ranks, SaveParameters(r)
  PROVE  OnCourse'
<1> DEFINE f == Made("params", group, r, proc[r].step)
<1>1. /\ Running(r) /\ proc[r].at = "params" /\ files' = Written(f)
      /\ Goto(r, "report") /\ UNCHANGED launcherVars
  BY DEF SaveParameters, At, RankOnly
<1>2. f.kind = "params" /\ f.of = group /\ f.rank = r
  BY DEF Made
<1>3. Allowed(r, "report")
  BY <1>1, CourseKnows DEF Where, Joining, Saving, Allowed
<1>4. PICK p : /\ RankBecomes(r, p) /\ p.at = "report" /\ p.status = "running"
               /\ p.signal = proc[r].signal /\ p.passed = proc[r].passed
  BY <1>1, GotoRecord DEF Places, TrainedPlaces
<1> HIDE DEF f
<1>5. /\ \A x \in files' : x = f \/ x \in files
      /\ \A x \in files : x.kind = "ckpt" => x \in files'
  BY <1>1, <1>2, WrittenIs
<1>6. \A of : Found("ckpt", of)' = Found("ckpt", of)
  BY <1>2, <1>5 DEF Found
<1> QED BY <1>1, <1>2, <1>3, <1>4, <1>5, <1>6, FilesCourse DEF OwnSaved, launcherVars

\* The steps of the ranks together.  A call that fails or a deadline that passes ends what
\* is said here: from then on the attempt is not healthy.
LEMMA RanksCourse ==
  ASSUME Inv, OnCourse,
         RankZeroStep \/ \E r \in Ranks : RankStep(r) \/ Throw(r) \/ Crash(r)
  PROVE  OnCourse'
<1>1. CASE ~Healthy'
  BY <1>1 DEF OnCourse
<1>2. CASE Healthy'
  <2>1. failures \in Nat
    BY LaunchAssumption DEF Inv, Types
  <2>2. CASE RankZeroStep
    <3>1. UNCHANGED <<launcherVars, failures, timedOut>>
      BY <2>2 DEF RankZeroStep, WriteId, PublishId, SaveTemporary, SaveRename, Announce, Publish,
                  RankOnly
    <3>2. Healthy
      BY <1>2, <3>1 DEF Healthy, launcherVars
    <3> QED BY <2>2, <3>2, WriteIdCourse, PublishIdCourse, SaveTemporaryCourse,
               SaveRenameCourse, AnnounceCourse, PublishCourse DEF RankZeroStep
  <2>3. ASSUME NEW r \in Ranks, Throw(r) \/ Crash(r)
        PROVE  FALSE
    <3>1. failures' = failures + 1
      BY <2>3 DEF Throw, Crash
    <3> QED BY <1>2, <2>1, <3>1 DEF Healthy
  <2>4. ASSUME NEW r \in Ranks, RankStep(r)
        PROVE  OnCourse'
    <3>1. CASE RankDeadline(r)
      BY <1>2, <3>1 DEF RankDeadline, Healthy
    <3>2. CASE \/ Parse(r) \/ WaitForId(r) \/ Join(r) \/ CountTokens(r) \/ Restore(r)
               \/ Train(r) \/ Barrier(r) \/ WaitForReady(r) \/ Verify(r) \/ SaveParameters(r)
               \/ Report(r) \/ Dies(r)
      <4>1. UNCHANGED <<launcherVars, failures, timedOut>>
        BY <3>2 DEF Parse, WaitForId, Join, CountTokens, Restore, Train, Barrier, WaitForReady,
                    Verify, SaveParameters, Report, Dies, RankOnly
      <4>2. Healthy
        BY <1>2, <4>1 DEF Healthy, launcherVars
      <4> QED BY <3>2, <4>2, ParseCourse, WaitForIdCourse, JoinCourse, CountTokensCourse,
                 RestoreCourse, TrainCourse, BarrierCourse, WaitForReadyCourse, VerifyCourse,
                 SaveParametersCourse, ReportCourse, DiesCourse
    <3> QED BY <2>4, <3>1, <3>2 DEF RankStep
  <2> QED BY <2>2, <2>3, <2>4
<1> QED BY <1>1, <1>2

-----------------------------------------------------------------------------
(* The steps of the launcher.                                              *)

\* What a step of the launcher can use when the attempt is on course.
LEMMA LauncherCourseKnows ==
  ASSUME Inv, OnCourse, Healthy
  PROVE  /\ Types /\ Launcher /\ ProcessesFollow /\ SavedInOrder
         /\ \A r \in Ranks : proc[r] \in Process /\ AsPlanned(r, proc[r]) /\ Where(r, proc[r])
         /\ RanksAsPlanned /\ LauncherAsPlanned /\ TemporariesFollow /\ CheckpointsFollow
         /\ attempt > 0 /\ group \in Groups /\ verdict = "none"
         /\ \A f \in files : FileFollows(f) /\ f \in File /\ (f.kind # "params" => f.rank = 0)
         /\ run.mode = "checkpoint" <=> group # "train"
BY DEF OnCourse, RanksAsPlanned, AsPlanned, Healthy, Inv, Types, Launcher, FilesFollow

\* What has failed in a healthy attempt before anybody was signalled has failed as meant.
LEMMA FailedMeansIntended ==
  ASSUME Inv, OnCourse, Healthy, NEW r \in Ranks, launcher \notin Stopping \cup {"launch"},
         proc[r].status \notin {"ok", "running"}
  PROVE  Intended(r, proc[r]) /\ MustFail
<1>1. AsPlanned(r, proc[r]) /\ proc[r] \in Process
  BY LauncherCourseKnows
<1>2. proc[r].status = "error"
  BY <1>1 DEF AsPlanned, Process
<1> QED BY <1>1, <1>2 DEF AsPlanned, Intended, MustFail

\* No group that is meant to fail completes.
LEMMA NoneCompletes ==
  ASSUME Inv, OnCourse, Healthy, MustFail
  PROVE  ~completed /\ \A r \in Ranks : proc[r].status # "ok"
<1>1. \A r \in Ranks : proc[r].status # "ok"
  BY LauncherCourseKnows DEF AsPlanned
<1>2. ~completed
  BY <1>1, LauncherCourseKnows, Numbers DEF Launcher, AllSucceeded
<1> QED BY <1>1, <1>2

\* The ranks stay where they are, and so do the files.
LEMMA PlacesCourse ==
  ASSUME Inv, OnCourse, Healthy, \A r \in Ranks : proc'[r].at = proc[r].at,
         UNCHANGED <<files, group>>
  PROVE  TemporariesFollow' /\ CheckpointsFollow'
<1>1. Types /\ TemporariesFollow /\ CheckpointsFollow
  BY LauncherCourseKnows
<1>2. \A kind, of : Found(kind, of)' = Found(kind, of)
  BY DEF Found
<1>3. TemporariesFollow'
  <2> SUFFICES ASSUME NEW f \in files
               PROVE  /\ f.kind = "id.tmp" => f.of = group /\ proc'[0].at = "publishId"
                      /\ f.kind = "ckpt.tmp" => f.of = group /\ proc'[0].at = "rename"
                      /\ f.kind = "ready.tmp" => f.of = group /\ proc'[0].at = "publish"
                      /\ f.kind = "params" => f.of = group /\ proc'[f.rank].at = "report"
    BY DEF TemporariesFollow
  <2>1. f.rank \in Ranks
    BY <1>1 DEF Types, File
  <2> QED BY <1>1, <2>1, Numbers DEF TemporariesFollow
<1>4. CheckpointsFollow'
  BY <1>1, <1>2, Numbers DEF CheckpointsFollow
<1> QED BY <1>3, <1>4

LEMMA LaunchCourse ==
  ASSUME Inv, OnCourse, Healthy, Launch
  PROVE  OnCourse'
<1>1. PICK r \in Waiting :
        /\ \A q \in Waiting : q <= r
        /\ proc' = [proc EXCEPT ![r].status = "running"]
        /\ Moves(IF r = 0 THEN "wait" ELSE "launch")
  BY DEF Launch
<1>2. /\ launcher = "launch" /\ launcher' = (IF r = 0 THEN "wait" ELSE "launch")
      /\ r \in Ranks /\ proc[r].status = "absent"
      /\ UNCHANGED <<run, attempt, group, completed, terminated, verdict, files>>
  BY <1>1 DEF Launch, Is, Moves, Waiting
<1>3. \A q \in Ranks : proc[q] \in Process /\ AsPlanned(q, proc[q]) /\ Where(q, proc[q])
  BY LauncherCourseKnows
<1>4. /\ \A q \in Ranks \ {r} : proc'[q] = proc[q]
      /\ proc'[r].status = "running" /\ proc'[r].at = proc[r].at
      /\ proc'[r].signal = proc[r].signal /\ proc'[r].passed = proc[r].passed
  <2>1. proc[r] \in Process /\ proc \in [Ranks -> Process]
    BY <1>2, <1>3, LauncherCourseKnows DEF Types
  <2> QED BY <1>1, <1>2, <2>1 DEF Process
<1>5. RanksAsPlanned'
  <2> SUFFICES ASSUME NEW q \in Ranks PROVE AsPlanned(q, proc[q])'
    BY DEF RanksAsPlanned
  <2>1. proc[q].signal = "none" /\ proc[q].status \notin {"term", "kill"}
    BY <1>2, <1>3 DEF AsPlanned, Stopping
  <2>2. Where(q, proc[q])'
    <3>1. proc'[q].at = proc[q].at /\ proc'[q].passed = proc[q].passed
      BY <1>4
    <3> QED BY <1>2, <1>3, <3>1 DEF Where
  <2>3. CASE q = r
    BY <1>2, <1>4, <2>1, <2>2, <2>3 DEF AsPlanned
  <2>4. CASE q # r
    <3>1. proc'[q] = proc[q]
      BY <1>4, <2>4
    <3>2. proc[q].status = "absent" => launcher' = "launch"
      <4>1. ASSUME proc[q].status = "absent", r = 0 PROVE FALSE
        BY <1>1, <2>4, <4>1, Numbers DEF Waiting, Ranks
      <4> QED BY <1>2, <4>1
    <3> QED BY <1>2, <1>3, <2>1, <2>2, <3>1, <3>2 DEF AsPlanned, Intended, MustFail
  <2> QED BY <2>3, <2>4
<1>6. LauncherAsPlanned'
  BY <1>2, LauncherCourseKnows DEF LauncherAsPlanned, Stopping
<1>7. \A q \in Ranks : proc'[q].at = proc[q].at
  BY <1>4
<1> QED BY <1>2, <1>5, <1>6, <1>7, PlacesCourse DEF OnCourse

LEMMA SeeSuccessCourse ==
  ASSUME Inv, OnCourse, Healthy, SeeSuccess
  PROVE  OnCourse'
<1>1. /\ launcher = "wait" /\ AllSucceeded /\ completed' = TRUE /\ launcher' = "collect"
      /\ UNCHANGED <<run, attempt, group, terminated, verdict, proc, files>>
  BY DEF SeeSuccess, Is
<1>2. RanksAsPlanned'
  <2> SUFFICES ASSUME NEW q \in Ranks PROVE AsPlanned(q, proc[q])'
    BY DEF RanksAsPlanned
  <2>1. proc[q].signal = "none" /\ proc[q].status = "ok" /\ AsPlanned(q, proc[q])
    BY <1>1, LauncherCourseKnows DEF AsPlanned, Stopping, AllSucceeded
  <2> QED BY <1>1, <2>1 DEF AsPlanned, MustFail, Where
<1>3. LauncherAsPlanned'
  BY <1>1, LauncherCourseKnows DEF LauncherAsPlanned
<1> QED BY <1>1, <1>2, <1>3, PlacesCourse DEF OnCourse

\* What signalling the ranks that run leaves as it is.
LEMMA SignalledKeeps ==
  ASSUME Types, NEW signal, Signalled(signal)
  PROVE  \A q \in Ranks :
           /\ proc'[q].at = proc[q].at /\ proc'[q].status = proc[q].status
           /\ proc'[q].error = proc[q].error /\ proc'[q].passed = proc[q].passed
<1> SUFFICES ASSUME NEW q \in Ranks
             PROVE  /\ proc'[q].at = proc[q].at /\ proc'[q].status = proc[q].status
                    /\ proc'[q].error = proc[q].error /\ proc'[q].passed = proc[q].passed
  OBVIOUS
<1>1. proc'[q] = IF Running(q) THEN [proc[q] EXCEPT !.signal = signal] ELSE proc[q]
  BY DEF Signalled
<1>2. proc[q] \in Process
  BY DEF Types
<1> QED BY <1>1, <1>2 DEF Process

LEMMA SignalledCourse ==
  ASSUME Inv, OnCourse, Healthy, NEW signal, Signalled(signal), ~completed,
         launcher # "launch", launcher' \in Stopping,
         UNCHANGED <<run, attempt, group, completed, verdict, files>>,
         MustFail, \E r \in Ranks : Intended(r, proc[r]),
         run.mode # "uneven-input" => terminated' >= 1
  PROVE  OnCourse'
<1>1. /\ Types /\ run.mode \in Modes
      /\ \A q \in Ranks : AsPlanned(q, proc[q]) /\ Where(q, proc[q])
  BY LauncherCourseKnows DEF LauncherAsPlanned
<1>2. \A q \in Ranks :
        /\ proc'[q].at = proc[q].at /\ proc'[q].status = proc[q].status
        /\ proc'[q].error = proc[q].error /\ proc'[q].passed = proc[q].passed
  BY <1>1, SignalledKeeps
<1>3. \A q \in Ranks : Intended(q, proc[q])' <=> Intended(q, proc[q])
  BY <1>2 DEF Intended
<1>4. MustFail'
  BY DEF MustFail
<1>5. RanksAsPlanned'
  <2> SUFFICES ASSUME NEW q \in Ranks PROVE AsPlanned(q, proc[q])'
    BY DEF RanksAsPlanned
  <2>1. proc[q].status # "absent" /\ proc[q].status # "ok"
    BY <1>1 DEF AsPlanned
  <2>2. Where(q, proc[q])'
    BY <1>1, <1>2 DEF Where
  <2>3. launcher' \in Stopping /\ ~completed'
    OBVIOUS
  <2>4. /\ proc'[q].status \notin {"absent", "ok", "crashed"}
        /\ proc'[q].status = "error" => Intended(q, proc[q])'
    BY <1>1, <1>2, <1>3, <2>1 DEF AsPlanned
  <2> QED BY <2>2, <2>3, <2>4, Zenon DEF AsPlanned, Stopping
<1>6. LauncherAsPlanned'
  BY <1>1, <1>3, <1>4 DEF LauncherAsPlanned, Stopping
<1> QED BY <1>2, <1>5, <1>6, PlacesCourse DEF OnCourse

\* A peer of the rank that fails as meant is still running when its failure is seen.
LEMMA SeeFailureCourse ==
  ASSUME Inv, OnCourse, Healthy, SeeFailure
  PROVE  OnCourse'
<1>1. /\ launcher = "wait" /\ SomeFailed /\ Signalled("term") /\ launcher' = "grace"
      /\ terminated' = Cardinality(Alive)
      /\ UNCHANGED <<run, attempt, group, completed, verdict, files>>
  BY DEF SeeFailure, Terminate, Is
<1>2. PICK r \in Ranks : proc[r].status \notin {"ok", "running"}
  BY <1>1 DEF SomeFailed
<1>3. Intended(r, proc[r]) /\ MustFail
  BY <1>1, <1>2, FailedMeansIntended DEF Stopping
<1>4. ~completed /\ \A q \in Ranks : proc[q].status # "ok"
  BY <1>3, NoneCompletes
<1>5. ASSUME run.mode # "uneven-input"
      PROVE  Cardinality(Alive) >= 1
  <2> DEFINE q == IF r = Last THEN 0 ELSE Last
  <2>1. q \in Ranks
    BY Numbers
  <2>2. ~Intended(q, proc[q])
    <3>1. run.mode = "checkpoint" <=> group # "train"
      BY LauncherCourseKnows
    <3> QED BY <1>3, <1>5, <3>1, Numbers DEF Intended
  <2>3. proc[q].status \in {"ok", "running"}
    BY <1>1, <2>1, <2>2, FailedMeansIntended DEF Stopping
  <2>4. Running(q)
    BY <1>4, <2>1, <2>3 DEF Running
  <2> HIDE DEF q
  <2>5. IsFiniteSet(Ranks)
    BY Numbers, FS_Interval DEF Ranks
  <2>6. IsFiniteSet(Alive) /\ q \in Alive
    BY <2>1, <2>4, <2>5, FS_Subset DEF Alive
  <2>7. Cardinality(Alive) \in Nat /\ Cardinality(Alive) # 0
    BY <2>6, FS_EmptySet, FS_CardinalityType
  <2> QED BY <2>7
<1> QED BY <1>1, <1>3, <1>4, <1>5, SignalledCourse DEF Stopping

LEMMA EndGraceCourse ==
  ASSUME Inv, OnCourse, Healthy, EndGrace
  PROVE  OnCourse'
<1>1. /\ launcher = "grace" /\ launcher' = "collect" /\ Signalled("kill")
      /\ UNCHANGED <<run, attempt, group, completed, terminated, verdict, files>>
  BY DEF EndGrace, Is, Moves
<1>2. /\ ~completed /\ MustFail /\ \E r \in Ranks : Intended(r, proc[r])
      /\ run.mode # "uneven-input" => terminated >= 1
  BY <1>1, LauncherCourseKnows DEF LauncherAsPlanned, Stopping
<1> QED BY <1>1, <1>2, SignalledCourse DEF Stopping

LEMMA CollectCourse ==
  ASSUME Inv, OnCourse, Healthy, Collect
  PROVE  OnCourse'
<1>1. /\ launcher = "collect" /\ launcher' = "judge" /\ files' = Without({"id"}, group, 0)
      /\ UNCHANGED <<run, attempt, group, completed, terminated, verdict, proc>>
  BY DEF Collect, Is, Moves
<1>2. /\ files' \subseteq files
      /\ \A f \in files : f.kind = "ckpt" => f \in files'
  BY <1>1 DEF Without
<1>3. \A of : Found("ckpt", of)' = Found("ckpt", of)
  BY <1>2 DEF Found
<1>4. RanksAsPlanned'
  BY <1>1, LauncherCourseKnows
     DEF RanksAsPlanned, AsPlanned, Intended, MustFail, Where, Stopping
<1>5. LauncherAsPlanned'
  BY <1>1, LauncherCourseKnows DEF LauncherAsPlanned, Intended, MustFail, Stopping
<1>6. TemporariesFollow'
  BY <1>1, <1>2, LauncherCourseKnows DEF TemporariesFollow
<1>7. CheckpointsFollow'
  BY <1>1, <1>3, LauncherCourseKnows DEF CheckpointsFollow
<1> QED BY <1>4, <1>5, <1>6, <1>7 DEF OnCourse

-----------------------------------------------------------------------------
(* From one group to the next, and from one attempt to the next.           *)

\* Ranks that have not started are on course wherever the launcher starts them.
LEMMA FreshCourse ==
  ASSUME proc' = [r \in Ranks |-> NotStarted], launcher' = "launch", completed' = FALSE,
         run'.mode \in Modes,
         \A f \in files' : f.kind \notin {"id.tmp", "ckpt.tmp", "ready.tmp", "params"},
         Found("ckpt", group)' = {},
         group' \in {"resumed", "uninterrupted", "failure"} => Found("ckpt", "first")' # {},
         group' \in {"uninterrupted", "failure"} => Found("ckpt", "resumed")' # {}
  PROVE  OnCourse'
<1>1. \A r \in Ranks : proc'[r] = NotStarted
  OBVIOUS
<1>2. /\ NotStarted.at = "start" /\ NotStarted.status = "absent" /\ NotStarted.signal = "none"
      /\ NotStarted.passed = 0
  BY DEF NotStarted
<1>3. RanksAsPlanned'
  BY <1>1, <1>2 DEF RanksAsPlanned, AsPlanned, Where, Joining, Saving
<1>4. LauncherAsPlanned'
  BY DEF LauncherAsPlanned, Stopping
<1>5. TemporariesFollow'
  BY DEF TemporariesFollow
<1>6. CheckpointsFollow'
  BY <1>1, <1>2, Numbers DEF CheckpointsFollow, OwnSaved
<1> QED BY <1>3, <1>4, <1>5, <1>6 DEF OnCourse

\* Every rank of a completed group has reported, and none of its files is temporary.
LEMMA CompletedMeans ==
  ASSUME Inv, OnCourse, Healthy, completed
  PROVE  /\ \A r \in Ranks : proc[r].at = "report" /\ proc[r].step = Reached(group)
         /\ \A f \in files : f.kind \notin {"id.tmp", "ckpt.tmp", "ready.tmp"}
         /\ group # "train" => Found("ckpt", group) # {}
         /\ ~MustFail
<1>1. \A r \in Ranks : proc[r].at = "report" /\ ~MustFail
  BY LauncherCourseKnows DEF Launcher, AllSucceeded, AsPlanned
<1>2. \A r \in Ranks : proc[r].step = Reached(group)
  BY <1>1, LauncherCourseKnows DEF ProcessesFollow, ProcessFollows, TrainedPlaces
<1>3. \A f \in files : f.kind \notin {"id.tmp", "ckpt.tmp", "ready.tmp"}
  BY <1>1, LauncherCourseKnows, Numbers DEF TemporariesFollow
<1>4. group # "train" => Found("ckpt", group) # {}
  BY <1>1, LauncherCourseKnows, Numbers DEF CheckpointsFollow, OwnSaved
<1> QED BY <1>1, <1>2, <1>3, <1>4, Numbers

LEMMA JudgeSegmentCourse ==
  ASSUME Inv, OnCourse, Healthy, JudgeSegment, verdict' = "none"
  PROVE  OnCourse'
<1>1. /\ run.mode = "checkpoint" /\ group # "failure" /\ completed /\ files' = NoParameters
  BY DEF JudgeSegment
<1>2. /\ launcher' = "launch" /\ group' = NextGroup[group] /\ completed' = FALSE
      /\ proc' = [r \in Ranks |-> NotStarted] /\ UNCHANGED <<run, attempt, verdict>>
  BY DEF JudgeSegment, End
<1>3. /\ run.mode \in Modes /\ group \in {"first", "resumed", "uninterrupted"}
      /\ \A f \in files : FileFollows(f)
      /\ CheckpointsFollow
  BY <1>1, LauncherCourseKnows DEF LauncherAsPlanned, Groups
<1>4. /\ \A f \in files' : f \in files /\ f.kind # "params"
      /\ \A f \in files : f.kind = "ckpt" => f \in files'
  BY <1>1 DEF NoParameters
<1>5. \A of : Found("ckpt", of)' = Found("ckpt", of)
  BY <1>4 DEF Found
<1>6. /\ \A f \in files : f.kind \notin {"id.tmp", "ckpt.tmp", "ready.tmp"}
      /\ Found("ckpt", group) # {}
  BY <1>1, <1>3, CompletedMeans
<1>7. Found("ckpt", group)' = {}
  <2>1. group' \notin SoFar[group]
    BY <1>2, <1>3 DEF NextGroup, SoFar
  <2>2. \A f \in files : f.of # group'
    BY <1>3, <2>1 DEF FileFollows
  <2> QED BY <1>4, <2>2 DEF Found
<1>8. /\ group' \in {"resumed", "uninterrupted", "failure"} => Found("ckpt", "first")' # {}
      /\ group' \in {"uninterrupted", "failure"} => Found("ckpt", "resumed")' # {}
  BY <1>2, <1>3, <1>5, <1>6 DEF NextGroup, CheckpointsFollow
<1> QED BY <1>2, <1>3, <1>4, <1>6, <1>7, <1>8, FreshCourse

LEMMA StartCourse ==
  ASSUME Inv, OnCourse, Start, Healthy'
  PROVE  OnCourse'
<1>1. PICK m \in Modes, fits \in BOOLEAN, overwrite \in BOOLEAN, retain \in BOOLEAN :
        Begin(m, fits, retain, overwrite)
  BY DEF Start
<1>2. /\ run' = [mode |-> m, fits |-> fits, retain |-> retain] /\ launcher' = "launch"
      /\ group' = (IF m = "checkpoint" THEN "first" ELSE "train") /\ completed' = FALSE
      /\ proc' = [r \in Ranks |-> NotStarted]
  BY <1>1 DEF Begin
<1>3. files' = {}
  <2>1. verdict' # "refused"
    BY DEF Healthy
  <2>2. (attempt = 0 \/ overwrite) /\ files' = (IF overwrite THEN Wiped ELSE files)
    BY <1>1, <2>1, LaunchAssumption DEF Begin, Inv, Types
  <2> QED BY <2>2 DEF Wiped, Inv, Launcher
<1>4. Found("ckpt", group)' = {}
  BY <1>3 DEF Found
<1>5. run'.mode \in Modes /\ group' \in {"first", "train"}
  BY <1>2
<1> QED BY <1>2, <1>3, <1>4, <1>5, FreshCourse

\* While an attempt has no verdict, no step makes it healthy again.
LEMMA LauncherHealth ==
  ASSUME Inv, LauncherStep \/ LaunchFails \/ LauncherDies, Healthy'
  PROVE  /\ Healthy
         /\ Launch \/ SeeSuccess \/ SeeFailure \/ EndGrace \/ Collect \/ JudgeSegment
<1>1. failures \in Nat /\ failures' = 0 /\ ~timedOut' /\ verdict' = "none"
  BY LaunchAssumption DEF Inv, Types, Healthy
<1>2. ~CountsFailure
  BY <1>1 DEF CountsFailure
<1>3. \A v \in {"aborted", "died", "pass", "error"} : ~End(v)
  BY <1>1 DEF End
<1>4. ~LaunchFails /\ ~LauncherDies /\ ~RejectRecords /\ ~CollectTimesOut
  BY <1>2, <1>3 DEF LaunchFails, LauncherDies, RejectRecords, CollectTimesOut
<1>5. ~Deadline
  BY <1>1 DEF Deadline
<1>6. ~JudgePeerFailure /\ ~JudgeFailedGroup /\ ~JudgeInjected
  BY <1>3 DEF JudgePeerFailure, JudgeFailedGroup, JudgeInjected
<1>7. ~Gate /\ ~JudgeFailedSegment
  BY <1>3 DEF Gate, JudgeFailedSegment
<1>8. Launch \/ SeeSuccess \/ SeeFailure \/ EndGrace \/ Collect \/ JudgeSegment
  BY <1>4, <1>5, <1>6, <1>7 DEF LauncherStep
<1>9. UNCHANGED <<run, attempt, verdict, failures, timedOut>>
  <2>1. CASE Launch \/ EndGrace \/ Collect
    BY <2>1 DEF Launch, EndGrace, Collect, Moves
  <2>2. CASE SeeSuccess \/ SeeFailure
    BY <2>2 DEF SeeSuccess, SeeFailure, Terminate
  <2>3. CASE JudgeSegment
    BY <1>3, <2>3 DEF JudgeSegment
  <2> QED BY <1>8, <2>1, <2>2, <2>3
<1> QED BY <1>8, <1>9 DEF Healthy

LEMMA CourseStep == Inv /\ OnCourse /\ [Next]_vars => OnCourse'
<1> SUFFICES ASSUME Inv, OnCourse, [Next]_vars
             PROVE  OnCourse'
  OBVIOUS
<1>1. CASE ~Healthy'
  BY <1>1 DEF OnCourse
<1>2. CASE Start /\ Healthy'
  BY <1>2, StartCourse
<1>3. CASE (LauncherStep \/ LaunchFails \/ LauncherDies) /\ Healthy'
  <2>1. Healthy /\ verdict' = "none"
    BY <1>3, LauncherHealth DEF Healthy
  <2> QED BY <1>3, <2>1, LauncherHealth, LaunchCourse, SeeSuccessCourse, SeeFailureCourse,
             EndGraceCourse, CollectCourse, JudgeSegmentCourse
<1>4. CASE RankZeroStep \/ \E r \in Ranks : RankStep(r) \/ Throw(r) \/ Crash(r)
  BY <1>4, RanksCourse
<1>5. CASE UNCHANGED vars /\ Healthy'
  <2>1. /\ UNCHANGED <<run, attempt, launcher, group, completed, terminated, verdict>>
        /\ UNCHANGED <<proc, files, failures, timedOut>>
    BY <1>5 DEF vars, launcherVars
  <2>2. Healthy
    BY <1>5, <2>1 DEF Healthy
  <2>3. RanksAsPlanned' /\ LauncherAsPlanned'
    BY <2>1, <2>2, LauncherCourseKnows
       DEF RanksAsPlanned, AsPlanned, Intended, MustFail, Where, LauncherAsPlanned
  <2> QED BY <2>1, <2>2, <2>3, PlacesCourse DEF OnCourse
<1> QED BY <1>1, <1>2, <1>3, <1>4, <1>5 DEF Next

-----------------------------------------------------------------------------
(* The verdict.                                                            *)

\* main() finds in the records the one failure that was meant.
LEMMA PeerFailurePasses ==
  ASSUME Inv, OnCourse, Healthy, JudgePeerFailure
  PROVE  verdict' = "pass"
<1>1. launcher = "judge" /\ run.mode = "peer-failure"
  BY DEF JudgePeerFailure, Is
<1>2. ~completed /\ proc[Last].status # "ok"
  BY <1>1, NoneCompletes, Numbers DEF MustFail
<1>3. terminated >= 1
  BY <1>1, <1>2, LauncherCourseKnows DEF LauncherAsPlanned, Stopping
<1>4. ~(terminated < 1)
  BY <1>3, LauncherCourseKnows, Numbers DEF Types
<1> QED BY <1>2, <1>4 DEF JudgePeerFailure, End

LEMMA FailedGroupPasses ==
  ASSUME Inv, OnCourse, Healthy, JudgeFailedGroup
  PROVE  verdict' = "pass"
<1>1. launcher = "judge" /\ run.mode \notin {"peer-failure", "checkpoint"} /\ ~completed
  BY DEF JudgeFailedGroup, Is
<1>2. PICK r \in Ranks : Intended(r, proc[r]) /\ MustFail
  BY <1>1, LauncherCourseKnows DEF LauncherAsPlanned, Stopping
<1>3. group = "train"
  BY <1>1, LauncherCourseKnows
<1>4. run.mode = "uneven-input" /\ proc[r].error = "uneven"
  BY <1>1, <1>2, <1>3 DEF MustFail, Intended
<1>5. \A q \in Ranks : proc[q].status # "ok"
  BY <1>2, NoneCompletes
<1>6. FailedAsExpected
  BY <1>4, <1>5 DEF FailedAsExpected, ExpectedError, Reported
<1> QED BY <1>6 DEF JudgeFailedGroup, End

\* The trajectory that is resumed and the one that is not interrupted end at one step.
LEMMA SegmentVerifies ==
  ASSUME Inv, OnCourse, Healthy, JudgeSegment
  PROVE  Verified
<1>1. run.mode = "checkpoint" /\ group # "failure" /\ completed
  BY DEF JudgeSegment
<1>2. group \in {"first", "resumed", "uninterrupted"}
  BY <1>1, LauncherCourseKnows DEF Groups
<1>3. Reached(group) = FinalStep(group) /\ Reached("uninterrupted") = Reached("resumed")
  BY <1>2 DEF Reached, Steps, FinalStep
<1>4. \A r \in Ranks : proc[r].step = FinalStep(group)
  BY <1>1, <1>3, CompletedMeans
<1>5. \A of \in {"resumed", "uninterrupted"} : \A f \in Found("ckpt", of) : f.step = Reached(of)
  BY LauncherCourseKnows DEF Found, FileFollows
<1>6. ASSUME group = "uninterrupted"
      PROVE  {f.step : f \in Found("ckpt", group)} = {f.step : f \in Found("ckpt", "resumed")}
  <2>1. Found("ckpt", "uninterrupted") # {}
    BY <1>1, <1>6, CompletedMeans
  <2>2. Found("ckpt", "resumed") # {}
    BY <1>6, LauncherCourseKnows DEF CheckpointsFollow
  <2>3. {f.step : f \in Found("ckpt", "uninterrupted")} = {Reached("resumed")}
    BY <1>3, <1>5, <2>1
  <2>4. {f.step : f \in Found("ckpt", "resumed")} = {Reached("resumed")}
    BY <1>5, <2>2
  <2> QED BY <1>6, <2>3, <2>4
<1> QED BY <1>4, <1>6 DEF Verified

\* The group that is meant to fail stopped its peer and left neither a checkpoint nor a
\* ready file nor anything else of its own.
LEMMA InjectedPasses ==
  ASSUME Inv, OnCourse, Healthy, JudgeInjected
  PROVE  verdict' = "pass"
<1>1. launcher = "judge" /\ run.mode = "checkpoint" /\ group = "failure"
  BY DEF JudgeInjected, Is
<1>2. MustFail
  BY <1>1 DEF MustFail
<1>3. ~completed /\ \A r \in Ranks : proc[r].status # "ok"
  BY <1>2, NoneCompletes
<1>4. terminated >= 1 /\ \E r \in Ranks : Intended(r, proc[r])
  BY <1>1, <1>3, LauncherCourseKnows DEF LauncherAsPlanned, Stopping
<1>5. proc[0].status = "error" /\ proc[0].at = "barrier"
  BY <1>1, <1>4 DEF Intended
<1>6. WorldSize = 2 /\ Ranks = {0, 1}
  <2>1. WorldSize = 2
    BY <1>1, LaunchAssumption, LauncherCourseKnows DEF LauncherAsPlanned
  <2> QED BY <2>1 DEF Ranks
<1>7. proc[1].status \in {"term", "kill"}
  <2>1. proc[1] \in Process /\ AsPlanned(1, proc[1]) /\ proc[1].status # "running"
    BY <1>1, <1>6, LauncherCourseKnows DEF Launcher, NobodyRuns, Running
  <2>2. ~Intended(1, proc[1])
    BY <1>1 DEF Intended
  <2> QED BY <1>1, <1>3, <1>6, <2>1, <2>2 DEF AsPlanned, Process
<1>8. Found("ckpt", "failure") = {} /\ Found("ready", "failure") = {}
  BY <1>1, <1>5, LauncherCourseKnows DEF CheckpointsFollow, OwnSaved, SavedInOrder
<1>9. PeerStopped
  BY <1>3, <1>4, <1>5, <1>7, <1>8 DEF PeerStopped
<1>10. \A f \in files : f.kind \in {"ckpt", "ready"}
  <2> SUFFICES ASSUME NEW f \in files PROVE f.kind \in {"ckpt", "ready"}
    OBVIOUS
  <2>1. f.kind # "id"
    BY <1>1, LauncherCourseKnows DEF FileFollows
  <2>2. f.kind \notin {"id.tmp", "ckpt.tmp", "ready.tmp"}
    BY <1>5, LauncherCourseKnows DEF TemporariesFollow
  <2>3. f.kind # "params"
    <3>1. f.rank \in Ranks
      BY LauncherCourseKnows DEF File
    <3>2. proc[f.rank].at # "report"
      BY <1>1, <3>1, LauncherCourseKnows DEF Where, Joining
    <3> QED BY <3>2, LauncherCourseKnows DEF TemporariesFollow
  <2> QED BY <2>1, <2>2, <2>3, LauncherCourseKnows DEF File
<1>11. files' = {}
  BY <1>9, <1>10 DEF JudgeInjected
<1> QED BY <1>9, <1>11 DEF JudgeInjected, End

\* A group that did not complete is one that was meant to fail.
LEMMA SegmentsComplete ==
  ASSUME Inv, OnCourse, Healthy, JudgeFailedSegment
  PROVE  CountsFailure
<1>1. launcher = "judge" /\ run.mode = "checkpoint" /\ group # "failure"
  BY DEF JudgeFailedSegment, Is
<1>2. completed
  BY <1>1, LauncherCourseKnows DEF LauncherAsPlanned, Stopping, MustFail
<1> QED BY <1>2 DEF JudgeFailedSegment

LEMMA VerdictStep == Inv /\ OnCourse /\ HealthyAttemptPasses /\ [Next]_vars => HealthyAttemptPasses'
<1> SUFFICES ASSUME Inv, OnCourse, HealthyAttemptPasses, [Next]_vars,
                    failures' = 0, ~timedOut', run'.fits
             PROVE  verdict' \in {"none", "refused", "pass"}
  BY DEF HealthyAttemptPasses
<1>1. failures \in Nat /\ ~CountsFailure
  BY LaunchAssumption DEF Inv, Types, CountsFailure
<1>2. CASE UNCHANGED <<run, verdict, failures, timedOut>>
  BY <1>2 DEF HealthyAttemptPasses
<1>3. CASE Start
  BY <1>3 DEF Start, Begin
<1>4. CASE LauncherStep
  <2>1. CASE Launch \/ EndGrace \/ Collect
    BY <1>2, <2>1 DEF Launch, EndGrace, Collect, Moves
  <2>2. CASE SeeSuccess \/ SeeFailure
    BY <1>2, <2>2 DEF SeeSuccess, SeeFailure, Terminate
  <2>3. CASE Deadline \/ CollectTimesOut \/ RejectRecords
    BY <1>1, <2>3 DEF Deadline, CollectTimesOut, RejectRecords
  <2>4. CASE Gate
    BY <1>1, <2>4 DEF Gate, End
  <2>5. CASE JudgePeerFailure \/ JudgeFailedGroup \/ JudgeInjected
    <3>1. Healthy
      BY <2>5 DEF JudgePeerFailure, JudgeFailedGroup, JudgeInjected, End, Is, Healthy
    <3> QED BY <2>5, <3>1, PeerFailurePasses, FailedGroupPasses, InjectedPasses
  <2>6. CASE JudgeFailedSegment
    <3>1. UNCHANGED <<run, attempt>> /\ timedOut' = timedOut /\ Is("judge") /\ verdict' = "error"
      BY <2>6 DEF JudgeFailedSegment, End
    <3>2. failures = 0
      BY <1>1, <2>6 DEF JudgeFailedSegment
    <3>3. Healthy
      BY <3>1, <3>2 DEF Is, Healthy
    <3> QED BY <1>1, <2>6, <3>3, SegmentsComplete
  <2>7. CASE JudgeSegment
    <3>1. Is("judge") /\ UNCHANGED <<run, failures, timedOut>>
      BY <2>7 DEF JudgeSegment, End
    <3>2. Healthy
      BY <3>1 DEF Is, Healthy
    <3>3. verdict' = verdict
      BY <2>7, <3>2, SegmentVerifies DEF JudgeSegment
    <3> QED BY <3>1, <3>3 DEF Is
  <2> QED BY <1>4, <2>1, <2>2, <2>3, <2>4, <2>5, <2>6, <2>7 DEF LauncherStep
<1>5. CASE LaunchFails \/ LauncherDies
  BY <1>1, <1>5 DEF LaunchFails, LauncherDies
<1>6. CASE RankZeroStep
  <2>1. UNCHANGED <<launcherVars, failures, timedOut>>
    BY <1>6 DEF RankZeroStep, WriteId, PublishId, SaveTemporary, SaveRename, Announce, Publish,
                RankOnly
  <2> QED BY <1>2, <2>1 DEF launcherVars
<1>7. ASSUME NEW r \in Ranks, RankStep(r)
      PROVE  verdict' \in {"none", "refused", "pass"}
  <2>1. CASE RankDeadline(r)
    BY <2>1 DEF RankDeadline
  <2>2. CASE ~RankDeadline(r)
    <3>1. UNCHANGED <<launcherVars, failures, timedOut>>
      BY <1>7, <2>2
      DEF RankStep, Parse, WaitForId, Join, CountTokens, Restore, Train, Barrier, WaitForReady,
          Verify, SaveParameters, Report, Dies, RankOnly
    <3> QED BY <1>2, <3>1 DEF launcherVars
  <2> QED BY <2>1, <2>2
<1>8. ASSUME NEW r \in Ranks, Throw(r) \/ Crash(r)
      PROVE  FALSE
  <2>1. failures' = failures + 1
    BY <1>8 DEF Throw, Crash
  <2> QED BY <1>1, <2>1
<1>9. CASE UNCHANGED vars
  BY <1>2, <1>9 DEF vars, launcherVars
<1> QED BY <1>3, <1>4, <1>5, <1>6, <1>7, <1>8, <1>9 DEF Next

\* An attempt in which no call and no process fails and no deadline passes gets the
\* verdict of its mode, for every number of ranks and however they race with the signals
\* of the launcher: main() of both launchers tells the failure it expects from every
\* other.
THEOREM HealthyAttemptsPass == Spec => []HealthyAttemptPasses
<1>1. Init => OnCourse /\ HealthyAttemptPasses
  BY DEF Init, OnCourse, Healthy, HealthyAttemptPasses
<1>2. Inv /\ OnCourse /\ HealthyAttemptPasses /\ [Next]_vars
        => OnCourse' /\ HealthyAttemptPasses'
  BY CourseStep, VerdictStep
<1>3. Spec => []Inv
  BY InvHolds
<1> QED BY <1>1, <1>2, <1>3, PTL DEF Spec
=============================================================================
