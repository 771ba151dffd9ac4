------------------------- MODULE RankedLaunchProofs -------------------------
(***************************************************************************)
(* Theorems about RankedLaunch, for every number of ranks, every number of *)
(* steps, attempts and failures: what the files in the output directory    *)
(* say at every moment, that attempts do not mix in one directory, that    *)
(* wait_group() and main() keep the promise of GroupVerdict, and that they *)
(* always have a step to take, which brings them closer to the verdict.    *)
(***************************************************************************)
EXTENDS RankedLaunch, FiniteSetTheorems, NaturalsInduction, WellFoundedInduction, TLAPS

-----------------------------------------------------------------------------
(* The inductive invariant.                                                *)

RankZeroPlaces == {"publishId", "save", "rename", "announce", "publish"}
Untrained == {"start", "id", "publishId", "join", "tokens", "restore"}
TrainedPlaces == {"barrier", "save", "rename", "announce", "publish", "ready", "verify",
                  "params", "report"}
Places == Untrained \cup {"train"} \cup TrainedPlaces

Process ==
  [at : Places,
   status : {"absent", "running", "ok", "error", "crashed", "term", "kill"},
   signal : {"none", "term", "kill"},
   id : File \cup {NoFile}, step : Nat, loaded : File \cup {NoFile}, passed : 0 .. 4,
   error : {"none", "arguments", "uneven", "other", "system"}]

Types ==
  /\ run \in [mode : AllModes, fits : BOOLEAN, retain : BOOLEAN]
  /\ attempt \in 0 .. MaxAttempts /\ failures \in 0 .. MaxFailures /\ timedOut \in BOOLEAN
  /\ launcher \in {"idle", "launch", "wait", "grace", "collect", "judge"}
  /\ group \in Groups /\ completed \in BOOLEAN /\ terminated \in 0 .. WorldSize
  /\ verdict \in {"none", "refused", "aborted", "died", "pass", "error"}
  /\ proc \in [Ranks -> Process]
  /\ files \subseteq File /\ \A f \in files : f.kind # "params" => f.rank = 0

\* Where the launcher is and what it knows of the processes: a completed group has
\* succeeded, a group is judged when nothing of it runs, and a refused attempt starts
\* nothing.
Launcher ==
  /\ completed => AllSucceeded
  /\ launcher = "judge" => NobodyRuns
  /\ verdict \in {"pass", "error"} => launcher = "judge"
  /\ verdict = "refused" => \A r \in Ranks : proc[r].status = "absent"
  /\ attempt = 0 => files = {} /\ verdict = "none" /\ NobodyRuns
  /\ attempt > 0 => (run.mode = "checkpoint" <=> group # "train")

\* How far a trajectory is when a group's ranks have trained.
Reached(g) == IF g = "resumed" THEN FirstSteps + ResumedSteps ELSE Steps(g)

\* The groups of an attempt that have run when g is the one at hand.
SoFar == [first |-> {"first"}, resumed |-> {"first", "resumed"},
          uninterrupted |-> {"first", "resumed", "uninterrupted"},
          failure |-> {"first", "resumed", "uninterrupted", "failure"}, train |-> {"train"}]

\* A file is of the attempt at hand, unless that was refused, and of a group that has
\* run; a checkpoint holds the steps of its group; only the group at hand has an id, and
\* none when it is judged.
FileFollows(f) ==
  /\ f.by = <<attempt, f.of>> /\ f.of \in SoFar[group]
  /\ f.kind \in {"ckpt.tmp", "ckpt"} => f.step = Reached(f.of)
  /\ f.kind = "id" => f.of = group /\ launcher # "judge"
FilesFollow == verdict # "refused" => \A f \in files : FileFollows(f)

\* What a process has read is of its attempt, and its steps follow from where it is.
ProcessFollows(r) ==
  LET p == proc[r]
  IN /\ r # 0 => p.at \notin RankZeroPlaces
     /\ p.id # NoFile => p.id.by = <<attempt, group>>
     /\ p.loaded # NoFile =>
          IF p.at \in {"params", "report"} THEN p.loaded.by = <<attempt, group>>
          ELSE p.loaded.by = <<attempt, "first">> /\ group = "resumed"
     /\ p.at = "restore" => group = "resumed"
     /\ p.at \in Untrained => p.step = 0
     /\ p.at = "train" => p.step = IF group = "resumed" THEN FirstSteps ELSE 0
     /\ p.at \in TrainedPlaces => p.step = Reached(group)
ProcessesFollow == \A r \in Ranks : ProcessFollows(r)

\* A process that has not ended.
Live == {"absent", "running"}

\* The order of rank 0's calls: no ready file of the group before Publish, and what the
\* next call renames or announces is there.
SavedInOrder ==
  LET p == proc[0]
      Mine(kind) == Made(kind, group, 0, p.step)
  IN verdict # "refused" =>
     /\ p.at \notin {"verify", "params", "report"} => Found("ready", group) = {}
     /\ p.status \in Live /\ p.at = "rename" => Found("ckpt.tmp", group) = {Mine("ckpt.tmp")}
     /\ p.status \in Live /\ p.at \in {"announce", "publish"} => Mine("ckpt") \in files
     /\ p.status \in Live /\ p.at = "publish" => Found("ready.tmp", group) = {Mine("ready.tmp")}

Inv ==
  /\ Types /\ Launcher /\ FilesFollow /\ ProcessesFollow /\ SavedInOrder
  /\ ReadyMeansComplete /\ FilesAfterVerdict

-----------------------------------------------------------------------------
(* What a step of one rank leaves alone.                                   *)

Reading == {"verify", "params", "report"}

LEMMA Numbers ==
  /\ WorldSize \in Nat /\ FirstSteps \in Nat /\ ResumedSteps \in Nat
  /\ FirstSteps >= 1 /\ ResumedSteps >= 1 /\ WorldSize >= 2
  /\ 0 \in Ranks /\ Last \in Ranks /\ Last # 0 /\ Ranks \subseteq Nat
<1>1. /\ WorldSize \in Nat /\ FirstSteps \in Nat /\ ResumedSteps \in Nat
      /\ WorldSize # 0 /\ WorldSize # 1 /\ FirstSteps # 0 /\ ResumedSteps # 0
  BY LaunchAssumption
<1> QED BY <1>1 DEF Ranks, Last

LEMMA ReachedRange ==
  \A g \in Groups : Steps(g) \in Nat /\ Reached(g) \in 0 .. FirstSteps + ResumedSteps
<1> SUFFICES ASSUME NEW g \in Groups
             PROVE  Steps(g) \in Nat /\ Reached(g) \in 0 .. FirstSteps + ResumedSteps
  OBVIOUS
<1>1. Steps(g) \in {ResumedSteps, FirstSteps + ResumedSteps, 1, FirstSteps}
  BY DEF Steps, Groups
<1> QED BY <1>1, Numbers DEF Reached

\* The rank's new record, and that nobody else has one.
RankBecomes(r, p) == p \in Process /\ proc' = [proc EXCEPT ![r] = p]

LEMMA RankFrame ==
  ASSUME Types, NEW r \in Ranks, NEW p, RankBecomes(r, p)
  PROVE  /\ proc' \in [Ranks -> Process] /\ proc'[r] = p
         /\ \A q \in Ranks \ {r} : proc'[q] = proc[q]
BY DEF Types, RankBecomes

\* While a rank runs, its group is neither completed nor judged.
LEMMA RunningMeans ==
  ASSUME Inv, NEW r \in Ranks, Running(r)
  PROVE  /\ ~completed /\ launcher # "judge" /\ verdict \notin {"refused", "pass", "error"}
         /\ attempt # 0
BY DEF Inv, Launcher, Running, AllSucceeded, NobodyRuns

\* The other ranks' part of the invariant, and the launcher's.
LEMMA RankStepFrame ==
  ASSUME Inv, NEW r \in Ranks, NEW p, Running(r), RankBecomes(r, p), UNCHANGED launcherVars,
         ProcessFollows(r)', files' \subseteq File,
         \A f \in files' : f.kind # "params" => f.rank = 0,
         failures' \in 0 .. MaxFailures, timedOut' \in BOOLEAN
  PROVE  Types' /\ Launcher' /\ ProcessesFollow' /\ FilesAfterVerdict'
<1>0. UNCHANGED <<run, attempt, launcher, group, completed, terminated, verdict>>
  BY DEF launcherVars
<1>1. Types'
  BY <1>0, RankFrame DEF Inv, Types
<1>2. ~completed /\ launcher # "judge" /\ verdict \notin {"refused", "pass", "error"} /\ attempt # 0
  BY RunningMeans
<1>3. Launcher'
  BY <1>0, <1>2 DEF Inv, Launcher
<1>4. ProcessesFollow'
  <2> SUFFICES ASSUME NEW q \in Ranks \ {r} PROVE ProcessFollows(q)'
    BY DEF ProcessesFollow
  <2>1. proc'[q] = proc[q] /\ ProcessFollows(q)
    BY RankFrame DEF Inv, ProcessesFollow
  <2> QED BY <1>0, <2>1 DEF ProcessFollows, Reached
<1>5. FilesAfterVerdict'
  BY <1>0, <1>2 DEF FilesAfterVerdict
<1> QED BY <1>1, <1>3, <1>4, <1>5

\* A step that leaves the files alone, gets a rank neither to the calls between a file
\* and its name nor back from what follows them.
LEMMA QuietStep ==
  ASSUME Inv, NEW r \in Ranks, NEW p, Running(r), RankBecomes(r, p), UNCHANGED launcherVars,
         UNCHANGED files, ProcessFollows(r)',
         failures' \in 0 .. MaxFailures, timedOut' \in BOOLEAN,
         proc[r].at \in Reading => p.at \in Reading,
         p.status \in Live => p.at \notin {"rename", "announce", "publish"}
  PROVE  Inv'
<1>0. UNCHANGED <<run, attempt, launcher, group, completed, terminated, verdict>>
  BY DEF launcherVars
<1>1. files \subseteq File /\ \A f \in files : f.kind # "params" => f.rank = 0
  BY DEF Inv, Types
<1>2. Types' /\ Launcher' /\ ProcessesFollow' /\ FilesAfterVerdict'
  BY <1>1, RankStepFrame
<1>3. FilesFollow'
  BY <1>0 DEF Inv, FilesFollow, FileFollows, Reached
<1>4. ReadyMeansComplete'
  BY DEF Inv, ReadyMeansComplete
<1>5. SavedInOrder'
  <2>1. \A kind, of : Found(kind, of)' = Found(kind, of)
    BY DEF Found
  <2>2. CASE r = 0
    <3>1. proc'[0] = p /\ Running(0)
      BY <2>2, RankFrame DEF Inv
    <3>2. p.at \notin Reading => Found("ready", group) = {}
      BY <1>0, <2>2, RunningMeans DEF Inv, SavedInOrder, Reading
    <3> QED BY <1>0, <2>1, <3>1, <3>2 DEF SavedInOrder, Reading
  <2>3. CASE r # 0
    <3>1. proc'[0] = proc[0]
      BY <2>3, RankFrame, Numbers DEF Inv
    <3> QED BY <1>0, <2>1, <3>1 DEF Inv, SavedInOrder, Made
  <2> QED BY <2>2, <2>3
<1> QED BY <1>2, <1>3, <1>4, <1>5 DEF Inv

LEMMA GotoMoves ==
  ASSUME Types, NEW r \in Ranks, NEW where \in Places, Goto(r, where)
  PROVE  RankBecomes(r, [proc[r] EXCEPT !.at = where])
<1>1. proc[r] \in Process
  BY DEF Types
<1>2. [proc[r] EXCEPT !.at = where] \in Process
  BY <1>1 DEF Process
<1> QED BY <1>2 DEF Goto, RankBecomes

LEMMA ExitsMoves ==
  ASSUME Types, NEW r \in Ranks, NEW status \in {"ok", "error", "crashed", "term", "kill"},
         NEW why \in {"none", "arguments", "uneven", "other", "system"}, Exits(r, status, why)
  PROVE  RankBecomes(r, [proc[r] EXCEPT !.status = status, !.error = why])
<1>1. proc[r] \in Process
  BY DEF Types
<1>2. [proc[r] EXCEPT !.status = status, !.error = why] \in Process
  BY <1>1 DEF Process
<1> QED BY <1>2 DEF Exits, RankBecomes, Types

LEMMA PassesMoves ==
  ASSUME Types, NEW r \in Ranks, NEW number \in 0 .. 4, NEW where \in Places,
         Passes(r, number, where)
  PROVE  RankBecomes(r, [proc[r] EXCEPT !.passed = number, !.at = where])
<1>1. proc[r] \in Process
  BY DEF Types
<1>2. [proc[r] EXCEPT !.passed = number, !.at = where] \in Process
  BY <1>1 DEF Process
<1> QED BY <1>2 DEF Passes, RankBecomes, Types

\* A rank that ends where it is, without a word to the files.
LEMMA ExitInv ==
  ASSUME Inv, NEW r \in Ranks, NEW status \in {"ok", "error", "crashed", "term", "kill"},
         NEW why \in {"none", "arguments", "uneven", "other", "system"},
         Running(r), Exits(r, status, why), UNCHANGED launcherVars, UNCHANGED files,
         failures' \in 0 .. MaxFailures, timedOut' \in BOOLEAN
  PROVE  Inv'
<1> DEFINE p == [proc[r] EXCEPT !.status = status, !.error = why]
<1>0. UNCHANGED <<attempt, group>>
  BY DEF launcherVars
<1>1. RankBecomes(r, p)
  BY ExitsMoves DEF Inv
<1>2. proc[r] \in Process
  BY DEF Inv, Types
<1>3. /\ p.at = proc[r].at /\ p.step = proc[r].step /\ p.id = proc[r].id
      /\ p.loaded = proc[r].loaded /\ p.status \notin Live
  BY <1>2 DEF Process, Live
<1>4. proc'[r] = p
  BY <1>1, RankFrame DEF Inv
<1> HIDE DEF p
<1>5. ProcessFollows(r)'
  BY <1>0, <1>3, <1>4 DEF Inv, ProcessesFollow, ProcessFollows, Reached
<1> QED BY <1>1, <1>3, <1>5, QuietStep

\* A rank that goes on from one place to another, or ends with another record.
LEMMA MoveInv ==
  ASSUME Inv, NEW r \in Ranks, NEW p, Running(r), RankBecomes(r, p),
         UNCHANGED <<launcherVars, files, failures, timedOut>>,
         p.step = proc[r].step, p.id = proc[r].id, p.loaded = proc[r].loaded,
         r # 0 => p.at \notin RankZeroPlaces,
         p.at \notin {"rename", "announce", "publish"},
         p.at = "restore" => group = "resumed",
         p.at = "train" => group # "resumed",
         p.at \in Untrained \cup {"train"} => proc[r].at \in Untrained,
         p.at \in TrainedPlaces => proc[r].at \in TrainedPlaces,
         proc[r].at \in Reading => p.at \in Reading,
         proc[r].at \in {"params", "report"} <=> p.at \in {"params", "report"}
  PROVE  Inv'
<1>0. UNCHANGED <<attempt, group>>
  BY DEF launcherVars
<1>1. failures' \in 0 .. MaxFailures /\ timedOut' \in BOOLEAN
  BY DEF Inv, Types
<1>2. proc'[r] = p /\ ProcessFollows(r)
  BY RankFrame DEF Inv, ProcessesFollow
<1>3. ProcessFollows(r)'
  BY <1>0, <1>2 DEF ProcessFollows, Reached
<1> QED BY <1>1, <1>3, QuietStep

-----------------------------------------------------------------------------
(* The steps of a rank that leave the files alone.                         *)

\* What an action of a rank can use.
LEMMA RankKnows ==
  ASSUME Inv, NEW r \in Ranks, Running(r)
  PROVE  /\ Types /\ proc[r] \in Process /\ ProcessFollows(r)
         /\ failures \in 0 .. MaxFailures /\ timedOut \in BOOLEAN
         /\ \A f \in files : FileFollows(f)
         /\ verdict # "refused" /\ attempt # 0 /\ launcher # "judge"
         /\ attempt \in Nat /\ group \in Groups
BY RunningMeans DEF Inv, Types, ProcessesFollow, FilesFollow

LEMMA GotoInv ==
  ASSUME Inv, NEW r \in Ranks, NEW where \in Places, Running(r), Goto(r, where),
         UNCHANGED <<launcherVars, files, failures, timedOut>>,
         r # 0 => where \notin RankZeroPlaces,
         where \notin {"rename", "announce", "publish", "restore", "train"},
         where \in Untrained => proc[r].at \in Untrained,
         where \in TrainedPlaces => proc[r].at \in TrainedPlaces,
         proc[r].at \in Reading => where \in Reading,
         proc[r].at \in {"params", "report"} <=> where \in {"params", "report"}
  PROVE  Inv'
<1> DEFINE p == [proc[r] EXCEPT !.at = where]
<1>1. RankBecomes(r, p)
  BY GotoMoves DEF Inv
<1>2. p.at = where /\ p.step = proc[r].step /\ p.id = proc[r].id /\ p.loaded = proc[r].loaded
  BY RankKnows DEF Process
<1> HIDE DEF p
<1> QED BY <1>1, <1>2, MoveInv

LEMMA PassesInv ==
  ASSUME Inv, NEW r \in Ranks, NEW number \in 0 .. 4, NEW where \in Places, Running(r),
         Passes(r, number, where), UNCHANGED <<launcherVars, files, failures, timedOut>>,
         r # 0 => where \notin RankZeroPlaces,
         where \notin {"rename", "announce", "publish"},
         where = "restore" => group = "resumed",
         where = "train" => group # "resumed",
         where \in Untrained \cup {"train"} => proc[r].at \in Untrained,
         where \in TrainedPlaces => proc[r].at \in TrainedPlaces,
         proc[r].at \notin Reading, where \notin Reading
  PROVE  Inv'
<1> DEFINE p == [proc[r] EXCEPT !.passed = number, !.at = where]
<1>1. RankBecomes(r, p)
  BY PassesMoves DEF Inv
<1>2. p.at = where /\ p.step = proc[r].step /\ p.id = proc[r].id /\ p.loaded = proc[r].loaded
  BY RankKnows DEF Process
<1> HIDE DEF p
<1>3. proc[r].at \in {"params", "report"} <=> p.at \in {"params", "report"}
  BY <1>2 DEF Reading
<1> QED BY <1>1, <1>2, <1>3, MoveInv

LEMMA ParseInv ==
  ASSUME Inv, NEW r \in Ranks, Parse(r)
  PROVE  Inv'
<1>1. Running(r) /\ proc[r].at = "start" /\ UNCHANGED <<launcherVars, files, failures, timedOut>>
  BY DEF Parse, At, RankOnly
<1>2. failures' \in 0 .. MaxFailures /\ timedOut' \in BOOLEAN
  BY <1>1, RankKnows
<1>3. CASE Exits(r, "error", "arguments")
  BY <1>1, <1>2, <1>3, ExitInv
<1>4. CASE Goto(r, "id")
  BY <1>1, <1>4, GotoInv DEF Places, Untrained, TrainedPlaces, Reading, RankZeroPlaces
<1> QED BY <1>3, <1>4 DEF Parse

LEMMA WaitForIdInv ==
  ASSUME Inv, NEW r \in Ranks, WaitForId(r)
  PROVE  Inv'
<1>1. /\ Running(r) /\ proc[r].at = "id" /\ r # 0
      /\ UNCHANGED <<launcherVars, files, failures, timedOut>>
  BY DEF WaitForId, At, RankOnly
<1>2. PICK f \in Found("id", group) : proc' = [proc EXCEPT ![r].at = "join", ![r].id = f]
  BY DEF WaitForId
<1>3. f \in File /\ f.by = <<attempt, group>>
  BY <1>1, RankKnows DEF Found, FileFollows, Types
<1> DEFINE p == [proc[r] EXCEPT !.at = "join", !.id = f]
<1>4. proc[r] \in Process
  BY <1>1, RankKnows
<1>5. /\ p \in Process /\ p.at = "join" /\ p.id = f /\ p.step = proc[r].step
      /\ p.loaded = proc[r].loaded
  BY <1>3, <1>4 DEF Process, Places, Untrained
<1>6. RankBecomes(r, p)
  BY <1>1, <1>2, <1>5, RankKnows DEF RankBecomes, Types
<1>7. proc'[r] = p
  BY <1>6, RankFrame DEF Inv
<1> HIDE DEF p
<1>8. ProcessFollows(r)'
  <2>1. proc[r].step = 0 /\ (proc[r].loaded # NoFile =>
          proc[r].loaded.by = <<attempt, "first">> /\ group = "resumed")
    BY <1>1, RankKnows DEF ProcessFollows, Untrained
  <2>2. UNCHANGED <<attempt, group>>
    BY <1>1 DEF launcherVars
  <2> QED BY <1>1, <1>3, <1>5, <1>7, <2>1, <2>2
       DEF ProcessFollows, RankZeroPlaces, Untrained, TrainedPlaces
<1>9. /\ proc[r].at \in Reading => p.at \in Reading
      /\ p.at \notin {"rename", "announce", "publish"}
      /\ failures' \in 0 .. MaxFailures /\ timedOut' \in BOOLEAN
  BY <1>1, <1>5, RankKnows DEF Reading
<1> QED BY <1>1, <1>6, <1>8, <1>9, QuietStep

LEMMA JoinInv ==
  ASSUME Inv, NEW r \in Ranks, Join(r)
  PROVE  Inv'
<1>1. /\ Running(r) /\ proc[r].at = "join" /\ Passes(r, 1, "tokens")
      /\ UNCHANGED <<launcherVars, files, failures, timedOut>>
  BY DEF Join, Collective, At, RankOnly
<1> QED BY <1>1, PassesInv DEF Places, Untrained, TrainedPlaces, Reading, RankZeroPlaces

LEMMA CountTokensInv ==
  ASSUME Inv, NEW r \in Ranks, CountTokens(r)
  PROVE  Inv'
<1>1. /\ Running(r) /\ proc[r].at = "tokens"
      /\ UNCHANGED <<launcherVars, files, failures, timedOut>>
  BY DEF CountTokens, Collective, At, RankOnly
<1>2. CASE run.mode = "uneven-input"
  <2> DEFINE p == [proc[r] EXCEPT !.passed = 2, !.status = "error", !.error = "uneven"]
  <2>1. proc[r] \in Process
    BY <1>1, RankKnows
  <2>2. p \in Process /\ p.at = "tokens" /\ p.step = proc[r].step /\ p.id = proc[r].id
        /\ p.loaded = proc[r].loaded
    <3>1. [proc[r] EXCEPT !.passed = 2] \in Process
      BY <2>1 DEF Process
    <3>2. p \in Process
      BY <3>1 DEF Process
    <3> QED BY <1>1, <2>1, <3>2 DEF Process
  <2>3. proc' = [proc EXCEPT ![r].passed = 2, ![r].status = "error", ![r].error = "uneven"]
    BY <1>2 DEF CountTokens
  <2>4. RankBecomes(r, p)
    BY <1>1, <2>2, <2>3, RankKnows DEF RankBecomes, Types
  <2> HIDE DEF p
  <2> QED BY <1>1, <2>2, <2>4, MoveInv DEF Untrained, TrainedPlaces, Reading, RankZeroPlaces
<1>3. CASE run.mode # "uneven-input" /\ group = "resumed"
  <2>1. Passes(r, 2, "restore")
    BY <1>3 DEF CountTokens
  <2> QED BY <1>1, <1>3, <2>1, PassesInv
          DEF Places, Untrained, TrainedPlaces, Reading, RankZeroPlaces
<1>4. CASE run.mode # "uneven-input" /\ group # "resumed"
  <2>1. Passes(r, 2, "train")
    BY <1>4 DEF CountTokens
  <2> QED BY <1>1, <1>4, <2>1, PassesInv
          DEF Places, Untrained, TrainedPlaces, Reading, RankZeroPlaces
<1> QED BY <1>2, <1>3, <1>4

LEMMA RestoreInv ==
  ASSUME Inv, NEW r \in Ranks, Restore(r)
  PROVE  Inv'
<1>1. /\ Running(r) /\ proc[r].at = "restore"
      /\ UNCHANGED <<launcherVars, files, failures, timedOut>>
  BY DEF Restore, At, RankOnly
<1>2. failures' \in 0 .. MaxFailures /\ timedOut' \in BOOLEAN
  BY <1>1, RankKnows
<1>3. CASE Exits(r, "error", "other")
  BY <1>1, <1>2, <1>3, ExitInv
<1>4. ASSUME NEW f \in Found("ckpt", "first"),
             proc' = [proc EXCEPT ![r].at = "train", ![r].step = f.step, ![r].loaded = f]
      PROVE  Inv'
  <2> DEFINE p == [proc[r] EXCEPT !.at = "train", !.step = f.step, !.loaded = f]
  <2>1. f \in File /\ f.by = <<attempt, "first">> /\ f.step = Reached("first")
    BY <1>1, RankKnows DEF Found, FileFollows, Types
  <2>2. f.step = FirstSteps /\ f.step \in Nat /\ f # NoFile
    BY <2>1, Numbers DEF Reached, Steps, File, NoFile
  <2>3. proc[r] \in Process /\ ProcessFollows(r)
    BY <1>1, RankKnows
  <2>4. p \in Process /\ p.at = "train" /\ p.step = FirstSteps /\ p.id = proc[r].id /\ p.loaded = f
    BY <2>1, <2>2, <2>3 DEF Process, Places
  <2>5. RankBecomes(r, p)
    BY <1>1, <1>4, <2>4, RankKnows DEF RankBecomes, Types
  <2>6. proc'[r] = p
    BY <2>5, RankFrame DEF Inv
  <2> HIDE DEF p
  <2>7. group = "resumed" /\ UNCHANGED <<attempt, group>>
    BY <1>1, <2>3 DEF ProcessFollows, launcherVars
  <2>8. ProcessFollows(r)'
    BY <2>1, <2>3, <2>4, <2>6, <2>7 DEF ProcessFollows, RankZeroPlaces, Untrained, TrainedPlaces
  <2> QED BY <1>1, <1>2, <2>4, <2>5, <2>8, QuietStep DEF Reading
<1> QED BY <1>3, <1>4 DEF Restore

LEMMA TrainInv ==
  ASSUME Inv, NEW r \in Ranks, Train(r)
  PROVE  Inv'
<1> DEFINE where == IF WritesCheckpoint(group) THEN "barrier" ELSE "params"
           p == [proc[r] EXCEPT !.passed = 3, !.step = proc[r].step + Steps(group), !.at = where]
<1>1. /\ Running(r) /\ proc[r].at = "train"
      /\ UNCHANGED <<launcherVars, files, failures, timedOut>>
      /\ proc' = [proc EXCEPT ![r].passed = 3, ![r].step = @ + Steps(group), ![r].at = where]
  BY DEF Train, Collective, At, RankOnly
<1>2. failures' \in 0 .. MaxFailures /\ timedOut' \in BOOLEAN /\ group \in Groups
  BY <1>1, RankKnows
<1>3. proc[r] \in Process /\ ProcessFollows(r)
  BY <1>1, RankKnows
<1>4. where \in {"barrier", "params"} /\ (where = "params" <=> group = "train")
  BY DEF WritesCheckpoint
<1> HIDE DEF where
<1>5. proc[r].step = IF group = "resumed" THEN FirstSteps ELSE 0
  BY <1>1, <1>3 DEF ProcessFollows
<1>6. Steps(group) \in Nat /\ proc[r].step + Steps(group) = Reached(group) /\ Reached(group) \in Nat
  <2>1. Steps(group) \in Nat
    BY <1>2, ReachedRange
  <2>2. group = "resumed" => Steps(group) = ResumedSteps
    BY DEF Steps
  <2>3. group # "resumed" => Reached(group) = Steps(group)
    BY DEF Reached
  <2>4. group = "resumed" => Reached(group) = FirstSteps + ResumedSteps
    BY DEF Reached
  <2> QED BY <1>5, <2>1, <2>2, <2>3, <2>4, Numbers
<1>7. /\ p \in Process /\ p.at = where /\ p.step = Reached(group) /\ p.id = proc[r].id
      /\ p.loaded = proc[r].loaded
  <2>1. where \in Places /\ 3 \in 0 .. 4
    BY <1>4 DEF Places, TrainedPlaces
  <2>2. [proc[r] EXCEPT !.passed = 3] \in Process
    BY <1>3, <2>1 DEF Process
  <2>3. [proc[r] EXCEPT !.passed = 3, !.step = proc[r].step + Steps(group)] \in Process
    BY <1>6, <2>2 DEF Process
  <2>4. p \in Process
    BY <2>1, <2>3 DEF Process
  <2>5. p.at = where /\ p.id = proc[r].id /\ p.loaded = proc[r].loaded
    BY <1>3 DEF Process
  <2>6. p.step = proc[r].step + Steps(group)
    BY <1>3 DEF Process
  <2> QED BY <1>6, <2>4, <2>5, <2>6
<1>8. RankBecomes(r, p)
  BY <1>1, <1>7, RankKnows DEF RankBecomes, Types
<1>9. proc'[r] = p
  BY <1>8, RankFrame DEF Inv
<1> HIDE DEF p
<1>10. ProcessFollows(r)'
  <2>1. UNCHANGED <<attempt, group>>
    BY <1>1 DEF launcherVars
  <2>2. Reached(group)' = Reached(group)
    BY <2>1 DEF Reached
  <2>3. p.loaded # NoFile => p.loaded.by = <<attempt, "first">> /\ group = "resumed"
    BY <1>1, <1>3, <1>7 DEF ProcessFollows
  <2>4. p.id # NoFile => p.id.by = <<attempt, group>>
    BY <1>3, <1>7 DEF ProcessFollows
  <2> QED BY <1>4, <1>7, <1>9, <2>1, <2>2, <2>3, <2>4
          DEF ProcessFollows, RankZeroPlaces, Untrained, TrainedPlaces
<1> QED BY <1>1, <1>2, <1>4, <1>7, <1>8, <1>10, QuietStep DEF Reading

LEMMA BarrierInv ==
  ASSUME Inv, NEW r \in Ranks, Barrier(r)
  PROVE  Inv'
<1>1. /\ Running(r) /\ proc[r].at = "barrier"
      /\ UNCHANGED <<launcherVars, files, failures, timedOut>>
  BY DEF Barrier, Collective, At, RankOnly
<1>2. CASE r # 0
  BY <1>1, <1>2, PassesInv DEF Barrier, Places, Untrained, TrainedPlaces, Reading, RankZeroPlaces
<1>3. CASE r = 0 /\ group # "failure"
  BY <1>1, <1>3, PassesInv DEF Barrier, Places, Untrained, TrainedPlaces, Reading, RankZeroPlaces
<1>4. CASE r = 0 /\ group = "failure"
  <2> DEFINE p == [proc[r] EXCEPT !.passed = 4, !.status = "error", !.error = "other"]
  <2>1. proc[r] \in Process
    BY <1>1, RankKnows
  <2>2. p \in Process /\ p.at = "barrier" /\ p.step = proc[r].step /\ p.id = proc[r].id
        /\ p.loaded = proc[r].loaded
    <3>1. [proc[r] EXCEPT !.passed = 4] \in Process
      BY <2>1 DEF Process
    <3>2. p \in Process
      BY <3>1 DEF Process
    <3> QED BY <1>1, <2>1, <3>2 DEF Process
  <2>3. proc' = [proc EXCEPT ![r].passed = 4, ![r].status = "error", ![r].error = "other"]
    BY <1>4 DEF Barrier
  <2>4. RankBecomes(r, p)
    BY <1>1, <2>2, <2>3, RankKnows DEF RankBecomes, Types
  <2> HIDE DEF p
  <2> QED BY <1>1, <2>2, <2>4, MoveInv DEF Untrained, TrainedPlaces, Reading, RankZeroPlaces
<1> QED BY <1>2, <1>3, <1>4

LEMMA WaitForReadyInv ==
  ASSUME Inv, NEW r \in Ranks, WaitForReady(r)
  PROVE  Inv'
<1>1. /\ Running(r) /\ proc[r].at = "ready" /\ Goto(r, "verify")
      /\ UNCHANGED <<launcherVars, files, failures, timedOut>>
  BY DEF WaitForReady, At, RankOnly
<1> QED BY <1>1, GotoInv DEF Places, Untrained, TrainedPlaces, Reading, RankZeroPlaces

LEMMA VerifyInv ==
  ASSUME Inv, NEW r \in Ranks, Verify(r)
  PROVE  Inv'
<1>1. /\ Running(r) /\ proc[r].at = "verify"
      /\ UNCHANGED <<launcherVars, files, failures, timedOut>>
  BY DEF Verify, At, RankOnly
<1>2. failures' \in 0 .. MaxFailures /\ timedOut' \in BOOLEAN
  BY <1>1, RankKnows
<1>3. CASE Exits(r, "error", "other")
  BY <1>1, <1>2, <1>3, ExitInv
<1>4. ASSUME NEW f \in Found("ckpt", group),
             proc' = [proc EXCEPT ![r].at = "params", ![r].loaded = f]
      PROVE  Inv'
  <2> DEFINE p == [proc[r] EXCEPT !.at = "params", !.loaded = f]
  <2>1. f \in File /\ f.by = <<attempt, group>>
    BY <1>1, RankKnows DEF Found, FileFollows, Types
  <2>2. proc[r] \in Process /\ ProcessFollows(r)
    BY <1>1, RankKnows
  <2>3. /\ p \in Process /\ p.at = "params" /\ p.step = proc[r].step /\ p.id = proc[r].id
        /\ p.loaded = f
    BY <2>1, <2>2 DEF Process, Places, TrainedPlaces
  <2>4. RankBecomes(r, p)
    BY <1>1, <1>4, <2>3, RankKnows DEF RankBecomes, Types
  <2>5. proc'[r] = p
    BY <2>4, RankFrame DEF Inv
  <2> HIDE DEF p
  <2>6. UNCHANGED <<attempt, group>>
    BY <1>1 DEF launcherVars
  <2>7. ProcessFollows(r)'
    BY <1>1, <2>1, <2>2, <2>3, <2>5, <2>6
       DEF ProcessFollows, Reached, RankZeroPlaces, Untrained, TrainedPlaces
  <2> QED BY <1>1, <1>2, <2>3, <2>4, <2>7, QuietStep DEF Reading
<1> QED BY <1>3, <1>4 DEF Verify

LEMMA ReportInv ==
  ASSUME Inv, NEW r \in Ranks, Report(r)
  PROVE  Inv'
<1>1. Running(r) /\ Exits(r, "ok", "none") /\ UNCHANGED <<launcherVars, files, failures, timedOut>>
  BY DEF Report, At, RankOnly
<1> QED BY <1>1, RankKnows, ExitInv

LEMMA RankDeadlineInv ==
  ASSUME Inv, NEW r \in Ranks, RankDeadline(r)
  PROVE  Inv'
<1>1. /\ Running(r) /\ Exits(r, "error", "other") /\ timedOut' = TRUE
      /\ UNCHANGED <<launcherVars, files, failures>>
  BY DEF RankDeadline, At
<1>2. failures' \in 0 .. MaxFailures /\ timedOut' \in BOOLEAN
  BY <1>1, RankKnows
<1> QED BY <1>1, <1>2, ExitInv

LEMMA CrashInv ==
  ASSUME Inv, NEW r \in Ranks, Crash(r)
  PROVE  Inv'
<1>1. /\ Running(r) /\ Exits(r, "crashed", "none") /\ failures < MaxFailures
      /\ failures' = failures + 1 /\ UNCHANGED <<launcherVars, files, timedOut>>
  BY DEF Crash
<1>2. failures' \in 0 .. MaxFailures /\ timedOut' \in BOOLEAN
  BY <1>1, RankKnows, LaunchAssumption
<1> QED BY <1>1, <1>2, ExitInv

LEMMA DiesInv ==
  ASSUME Inv, NEW r \in Ranks, Dies(r)
  PROVE  Inv'
<1>1. /\ Running(r) /\ proc[r].signal # "none" /\ Exits(r, proc[r].signal, "none")
      /\ UNCHANGED <<launcherVars, files, failures, timedOut>>
  BY DEF Dies, RankOnly
<1>2. proc[r].signal \in {"term", "kill"}
  BY <1>1, RankKnows DEF Process
<1> QED BY <1>1, <1>2, RankKnows, ExitInv

-----------------------------------------------------------------------------
(* The steps of a rank that write, rename or remove a file.                *)

Kinds == {"id", "id.tmp", "ckpt", "ckpt.tmp", "ready", "ready.tmp", "params"}

LEMMA MadeIs ==
  ASSUME attempt \in Nat, group \in Groups, NEW kind \in Kinds, NEW r \in Ranks, NEW s \in Nat
  PROVE  LET f == Made(kind, group, r, s)
         IN /\ f \in File /\ f.kind = kind /\ f.of = group /\ f.rank = r
            /\ f.by = <<attempt, group>> /\ f.step = s
<1>1. <<attempt, group>> \in Nat \X Groups
  OBVIOUS
<1>2. Made(kind, group, r, s) \in File
  BY <1>1, Zenon DEF Made, File, Kinds
<1> QED BY <1>2 DEF Made

LEMMA OwnGroup == \A g \in Groups : g \in SoFar[g]
BY DEF Groups, SoFar

\* Two of a rank's own files differ by their kind only.
LEMMA MadeRenamed ==
  ASSUME NEW kind, NEW other, NEW r, NEW s
  PROVE  [Made(kind, group, r, s) EXCEPT !.kind = other] = Made(other, group, r, s)
BY DEF Made

LEMMA WrittenIs ==
  ASSUME NEW f
  PROVE  \A x : x \in Written(f) <=>
           x = f \/ (x \in files /\ (x.kind # f.kind \/ x.of # f.of \/ x.rank # f.rank))
BY DEF Written, Without

LEMMA RenamedIs ==
  ASSUME NEW temporary, NEW kind
  PROVE  \A x : x \in Renamed(temporary, kind, group) <=>
           \/ x \in files /\ (x.kind \notin {temporary, kind} \/ x.of # group \/ x.rank # 0)
           \/ \E f \in Found(temporary, group) : x = [f EXCEPT !.kind = kind]
BY DEF Renamed, Without

\* A file that gets another name stays what it is.
LEMMA RenamedFile ==
  ASSUME NEW f \in File, NEW kind \in Kinds
  PROVE  LET g == [f EXCEPT !.kind = kind]
         IN /\ g \in File /\ g.kind = kind /\ g.of = f.of /\ g.rank = f.rank /\ g.by = f.by
            /\ g.step = f.step
BY DEF File, Kinds

\* A rank's step that changes the files.
LEMMA FileStep ==
  ASSUME Inv, NEW r \in Ranks, NEW p, Running(r), RankBecomes(r, p), UNCHANGED launcherVars,
         ProcessFollows(r)', files' \subseteq File,
         \A f \in files' : (f.kind # "params" => f.rank = 0) /\ FileFollows(f),
         failures' \in 0 .. MaxFailures, timedOut' \in BOOLEAN,
         ReadyMeansComplete', SavedInOrder'
  PROVE  Inv'
<1>1. Types' /\ Launcher' /\ ProcessesFollow' /\ FilesAfterVerdict'
  BY RankStepFrame
<1>2. FilesFollow'
  BY DEF launcherVars, FilesFollow, FileFollows, Reached
<1> QED BY <1>1, <1>2 DEF Inv

\* Where rank 0 goes between its files.
LEMMA RankZeroGoes ==
  ASSUME Inv, NEW where \in Places, Running(0), UNCHANGED launcherVars,
         Goto(0, where) \/ \E id \in File : /\ proc' = [proc EXCEPT ![0].at = where, ![0].id = id]
                                            /\ id.by = <<attempt, group>>,
         where \notin {"restore", "train", "params", "report"},
         proc[0].at \notin {"params", "report"},
         where \in Untrained => proc[0].at \in Untrained,
         where \in TrainedPlaces => proc[0].at \in TrainedPlaces
  PROVE  \E p : /\ RankBecomes(0, p) /\ proc'[0] = p /\ p.at = where /\ p.step = proc[0].step
                /\ p.status = "running" /\ ProcessFollows(0)'
<1>0. /\ proc[0] \in Process /\ proc[0].status = "running" /\ ProcessFollows(0) /\ Types
      /\ 0 \in Ranks /\ UNCHANGED <<attempt, group>>
  BY RankKnows, Numbers DEF Running, launcherVars
<1>1. PICK p : /\ RankBecomes(0, p) /\ p.at = where /\ p.step = proc[0].step
               /\ p.status = "running" /\ p.loaded = proc[0].loaded
               /\ p.id = proc[0].id \/ p.id.by = <<attempt, group>>
  <2>1. CASE Goto(0, where)
    <3> DEFINE q == [proc[0] EXCEPT !.at = where]
    <3>1. RankBecomes(0, q)
      BY <1>0, <2>1, GotoMoves
    <3>2. /\ q.at = where /\ q.step = proc[0].step /\ q.status = "running"
          /\ q.loaded = proc[0].loaded /\ q.id = proc[0].id
      BY <1>0 DEF Process
    <3> HIDE DEF q
    <3> QED BY <3>1, <3>2
  <2>2. ASSUME NEW id \in File, proc' = [proc EXCEPT ![0].at = where, ![0].id = id],
               id.by = <<attempt, group>>
        PROVE  \E p : /\ RankBecomes(0, p) /\ p.at = where /\ p.step = proc[0].step
                      /\ p.status = "running" /\ p.loaded = proc[0].loaded
                      /\ p.id = proc[0].id \/ p.id.by = <<attempt, group>>
    <3> DEFINE q == [proc[0] EXCEPT !.at = where, !.id = id]
    <3>1. q \in Process
      BY <1>0 DEF Process
    <3>2. RankBecomes(0, q)
      BY <1>0, <2>2, <3>1 DEF RankBecomes, Types
    <3>3. /\ q.at = where /\ q.step = proc[0].step /\ q.status = "running"
          /\ q.loaded = proc[0].loaded /\ q.id = id
      BY <1>0 DEF Process
    <3> HIDE DEF q
    <3> QED BY <2>2, <3>2, <3>3
  <2> QED BY <2>1, <2>2
<1>2. proc'[0] = p
  BY <1>0, <1>1, RankFrame
<1>3. ProcessFollows(0)'
  BY <1>0, <1>1, <1>2 DEF ProcessFollows, Reached
<1> QED BY <1>1, <1>2, <1>3

LEMMA WriteIdInv ==
  ASSUME Inv, WriteId
  PROVE  Inv'
<1> DEFINE f == Made("id.tmp", group, 0, 0)
           id == Made("id", group, 0, 0)
<1>1. /\ Running(0) /\ proc[0].at = "id" /\ files' = Written(f)
      /\ proc' = [proc EXCEPT ![0].at = "publishId", ![0].id = id]
      /\ UNCHANGED <<launcherVars, failures, timedOut>>
  BY DEF WriteId, At, RankOnly
<1>2. /\ f \in File /\ f.kind = "id.tmp" /\ f.of = group /\ f.rank = 0 /\ f.by = <<attempt, group>>
      /\ id \in File /\ id.by = <<attempt, group>>
  BY <1>1, RankKnows, MadeIs, Numbers DEF Kinds
<1> HIDE DEF f, id
<1>3. PICK p : /\ RankBecomes(0, p) /\ proc'[0] = p /\ p.at = "publishId"
               /\ p.step = proc[0].step /\ p.status = "running" /\ ProcessFollows(0)'
  BY <1>1, <1>2, RankZeroGoes DEF Places, Untrained, TrainedPlaces
<1>4. \A x \in files' : x = f \/ x \in files
  BY <1>1, WrittenIs
<1>5. FileFollows(f)
  BY <1>1, <1>2, RankKnows, Numbers, OwnGroup DEF FileFollows
<1>6. /\ files' \subseteq File
      /\ \A x \in files' : (x.kind # "params" => x.rank = 0) /\ FileFollows(x)
  BY <1>1, <1>2, <1>4, <1>5, RankKnows, Numbers DEF Types
<1>7. ReadyMeansComplete'
  <2> SUFFICES ASSUME NEW x \in files', x.kind = "ready"
               PROVE  [x EXCEPT !.kind = "ckpt"] \in files'
    BY DEF ReadyMeansComplete
  <2>1. x \in files
    BY <1>2, <1>4
  <2>2. [x EXCEPT !.kind = "ckpt"] \in files /\ [x EXCEPT !.kind = "ckpt"].kind = "ckpt"
    BY <2>1, RenamedFile DEF Inv, ReadyMeansComplete, Types, Kinds
  <2> QED BY <1>1, <1>2, <2>2, WrittenIs
<1>8. SavedInOrder'
  <2>1. Found("ready", group) = {}
    BY <1>1, RankKnows, Numbers DEF Inv, SavedInOrder
  <2>2. Found("ready", group)' = {}
    BY <1>1, <1>2, <1>4, <2>1 DEF Found, launcherVars
  <2> QED BY <1>1, <1>3, <2>2 DEF SavedInOrder, launcherVars
<1>9. failures' \in 0 .. MaxFailures /\ timedOut' \in BOOLEAN
  BY <1>1, RankKnows, Numbers
<1> QED BY <1>1, <1>3, <1>6, <1>7, <1>8, <1>9, FileStep, Numbers

LEMMA PublishIdInv ==
  ASSUME Inv, PublishId
  PROVE  Inv'
<1>1. /\ Running(0) /\ proc[0].at = "publishId" /\ files' = Renamed("id.tmp", "id", group)
      /\ Goto(0, "join") /\ UNCHANGED <<launcherVars, failures, timedOut>>
  BY DEF PublishId, At, RankOnly
<1>2. /\ Types /\ \A f \in files : FileFollows(f)
      /\ verdict # "refused" /\ launcher # "judge" /\ group \in Groups
  BY <1>1, RankKnows, Numbers
<1>3. PICK p : /\ RankBecomes(0, p) /\ proc'[0] = p /\ p.at = "join"
               /\ p.step = proc[0].step /\ p.status = "running" /\ ProcessFollows(0)'
  BY <1>1, RankZeroGoes DEF Places, Untrained, TrainedPlaces
<1>4. \A x \in files' :
        \/ x \in files
        \/ /\ x \in File /\ x.kind = "id" /\ x.of = group /\ x.rank = 0 /\ FileFollows(x)
  <2> SUFFICES ASSUME NEW x \in files', x \notin files
               PROVE  x \in File /\ x.kind = "id" /\ x.of = group /\ x.rank = 0 /\ FileFollows(x)
    OBVIOUS
  <2>1. PICK f \in Found("id.tmp", group) : x = [f EXCEPT !.kind = "id"]
    BY <1>1, RenamedIs
  <2>2. f \in File /\ f \in files /\ f.kind = "id.tmp" /\ f.of = group /\ f.rank = 0 /\ FileFollows(f)
    BY <1>2 DEF Found, Types
  <2>3. /\ x \in File /\ x.kind = "id" /\ x.of = group /\ x.rank = 0 /\ x.by = f.by
    BY <2>1, <2>2, RenamedFile DEF Kinds
  <2> QED BY <1>2, <2>2, <2>3 DEF FileFollows
<1>5. /\ files' \subseteq File
      /\ \A x \in files' : (x.kind # "params" => x.rank = 0) /\ FileFollows(x)
  BY <1>2, <1>4 DEF Types
<1>6. ReadyMeansComplete'
  <2> SUFFICES ASSUME NEW x \in files', x.kind = "ready"
               PROVE  [x EXCEPT !.kind = "ckpt"] \in files'
    BY DEF ReadyMeansComplete
  <2>1. x \in files
    BY <1>4
  <2>2. [x EXCEPT !.kind = "ckpt"] \in files /\ [x EXCEPT !.kind = "ckpt"].kind = "ckpt"
    BY <2>1, RenamedFile DEF Inv, ReadyMeansComplete, Types, Kinds
  <2> QED BY <1>1, <2>2, RenamedIs
<1>7. SavedInOrder'
  <2>1. Found("ready", group) = {}
    BY <1>1, <1>2 DEF Inv, SavedInOrder
  <2>2. Found("ready", group)' = {}
    BY <1>1, <1>4, <2>1 DEF Found, launcherVars
  <2> QED BY <1>3, <2>2 DEF SavedInOrder, launcherVars
<1>8. failures' \in 0 .. MaxFailures /\ timedOut' \in BOOLEAN
  BY <1>1, <1>2 DEF Types
<1> QED BY <1>1, <1>3, <1>5, <1>6, <1>7, <1>8, FileStep, Numbers

LEMMA SaveTemporaryInv ==
  ASSUME Inv, SaveTemporary
  PROVE  Inv'
<1> DEFINE f == Made("ckpt.tmp", group, 0, proc[0].step)
<1>1. /\ Running(0) /\ proc[0].at = "save" /\ files' = Written(f)
      /\ Goto(0, "rename") /\ UNCHANGED <<launcherVars, failures, timedOut>>
  BY DEF SaveTemporary, At, RankOnly
<1>2. proc[0].step \in Nat /\ proc[0].step = Reached(group)
  BY <1>1, RankKnows, Numbers DEF Process, ProcessFollows, TrainedPlaces
<1>3. /\ f \in File /\ f.kind = "ckpt.tmp" /\ f.of = group /\ f.rank = 0
      /\ f.by = <<attempt, group>> /\ f.step = proc[0].step
  BY <1>1, <1>2, RankKnows, MadeIs, Numbers DEF Kinds
<1>4. PICK p : /\ RankBecomes(0, p) /\ proc'[0] = p /\ p.at = "rename"
               /\ p.step = proc[0].step /\ p.status = "running" /\ ProcessFollows(0)'
  BY <1>1, RankZeroGoes DEF Places, Untrained, TrainedPlaces
<1>6. Made("ckpt.tmp", group, 0, proc[0].step)' = f
  BY <1>1, <1>4 DEF Made, launcherVars
<1> HIDE DEF f
<1>7. \A x : x \in files' <=> x = f \/ (x \in files /\ (x.kind # "ckpt.tmp" \/ x.of # group \/ x.rank # 0))
  BY <1>1, <1>3, WrittenIs
<1>8. FileFollows(f)
  BY <1>1, <1>2, <1>3, RankKnows, Numbers, OwnGroup DEF FileFollows
<1>9. /\ files' \subseteq File
      /\ \A x \in files' : (x.kind # "params" => x.rank = 0) /\ FileFollows(x)
  BY <1>1, <1>3, <1>7, <1>8, RankKnows, Numbers DEF Types
<1>10. ReadyMeansComplete'
  <2> SUFFICES ASSUME NEW x \in files', x.kind = "ready"
               PROVE  [x EXCEPT !.kind = "ckpt"] \in files'
    BY DEF ReadyMeansComplete
  <2>1. x \in files
    BY <1>3, <1>7
  <2>2. [x EXCEPT !.kind = "ckpt"] \in files /\ [x EXCEPT !.kind = "ckpt"].kind = "ckpt"
    BY <2>1, RenamedFile DEF Inv, ReadyMeansComplete, Types, Kinds
  <2> QED BY <1>7, <2>2
<1>11. SavedInOrder'
  <2>1. Found("ready", group) = {}
    BY <1>1, RankKnows, Numbers DEF Inv, SavedInOrder
  <2>2. Found("ready", group)' = {}
    BY <1>1, <1>3, <1>7, <2>1 DEF Found, launcherVars
  <2>3. \A x \in files : x.kind = "ckpt.tmp" => x.rank = 0
    BY DEF Inv, Types
  <2>4. Found("ckpt.tmp", group)' = {f}
    BY <1>1, <1>3, <1>7, <2>3 DEF Found, launcherVars
  <2> QED BY <1>1, <1>4, <1>6, <2>2, <2>4 DEF SavedInOrder, launcherVars
<1>12. failures' \in 0 .. MaxFailures /\ timedOut' \in BOOLEAN
  BY <1>1, RankKnows, Numbers
<1> QED BY <1>1, <1>4, <1>9, <1>10, <1>11, <1>12, FileStep, Numbers

LEMMA SaveRenameInv ==
  ASSUME Inv, SaveRename
  PROVE  Inv'
<1> DEFINE tmp == Made("ckpt.tmp", group, 0, proc[0].step)
           f == Made("ckpt", group, 0, proc[0].step)
<1>1. /\ Running(0) /\ proc[0].at = "rename" /\ files' = Renamed("ckpt.tmp", "ckpt", group)
      /\ Goto(0, "announce") /\ UNCHANGED <<launcherVars, failures, timedOut>>
  BY DEF SaveRename, At, RankOnly
<1>2. proc[0].step \in Nat /\ proc[0].step = Reached(group)
  BY <1>1, RankKnows, Numbers DEF Process, ProcessFollows, TrainedPlaces
<1>3. /\ f \in File /\ f.kind = "ckpt" /\ f.of = group /\ f.rank = 0
      /\ f.by = <<attempt, group>> /\ f.step = proc[0].step
  BY <1>1, <1>2, RankKnows, MadeIs, Numbers DEF Kinds
<1>4. Found("ready", group) = {} /\ Found("ckpt.tmp", group) = {tmp}
  BY <1>1, RankKnows, Numbers DEF Inv, SavedInOrder, Running, Live
<1>5. [tmp EXCEPT !.kind = "ckpt"] = f
  BY MadeRenamed
<1>6. PICK p : /\ RankBecomes(0, p) /\ proc'[0] = p /\ p.at = "announce"
               /\ p.step = proc[0].step /\ p.status = "running" /\ ProcessFollows(0)'
  BY <1>1, RankZeroGoes DEF Places, Untrained, TrainedPlaces
<1>7. Made("ckpt", group, 0, proc[0].step)' = f
  BY <1>1, <1>6 DEF Made, launcherVars
<1> HIDE DEF f, tmp
<1>8. \A x : x \in files' <=>
        x = f \/ (x \in files /\ (x.kind \notin {"ckpt.tmp", "ckpt"} \/ x.of # group \/ x.rank # 0))
  BY <1>1, <1>4, <1>5, RenamedIs
<1>9. FileFollows(f)
  BY <1>1, <1>2, <1>3, RankKnows, Numbers, OwnGroup DEF FileFollows
<1>10. /\ files' \subseteq File
       /\ \A x \in files' : (x.kind # "params" => x.rank = 0) /\ FileFollows(x)
  BY <1>1, <1>3, <1>8, <1>9, RankKnows, Numbers DEF Types
<1>11. ReadyMeansComplete'
  <2> SUFFICES ASSUME NEW x \in files', x.kind = "ready"
               PROVE  [x EXCEPT !.kind = "ckpt"] \in files'
    BY DEF ReadyMeansComplete
  <2>1. x \in files /\ x.of # group
    BY <1>3, <1>4, <1>8 DEF Found
  <2>2. [x EXCEPT !.kind = "ckpt"] \in files /\ [x EXCEPT !.kind = "ckpt"].of = x.of
    BY <2>1, RenamedFile DEF Inv, ReadyMeansComplete, Types, Kinds
  <2> QED BY <1>8, <2>1, <2>2
<1>12. SavedInOrder'
  <2>1. Found("ready", group)' = {}
    BY <1>1, <1>3, <1>4, <1>8 DEF Found, launcherVars
  <2>2. f \in files'
    BY <1>8
  <2> QED BY <1>1, <1>6, <1>7, <2>1, <2>2 DEF SavedInOrder, launcherVars
<1>13. failures' \in 0 .. MaxFailures /\ timedOut' \in BOOLEAN
  BY <1>1, RankKnows, Numbers
<1> QED BY <1>1, <1>6, <1>10, <1>11, <1>12, <1>13, FileStep, Numbers

LEMMA AnnounceInv ==
  ASSUME Inv, Announce
  PROVE  Inv'
<1> DEFINE f == Made("ready.tmp", group, 0, proc[0].step)
<1>1. /\ Running(0) /\ proc[0].at = "announce" /\ files' = Written(f)
      /\ Goto(0, "publish") /\ UNCHANGED <<launcherVars, failures, timedOut>>
  BY DEF Announce, SaveFinished, At, RankOnly
<1>2. proc[0].step \in Nat
  BY <1>1, RankKnows, Numbers DEF Process
<1>3. /\ f \in File /\ f.kind = "ready.tmp" /\ f.of = group /\ f.rank = 0
      /\ f.by = <<attempt, group>> /\ f.step = proc[0].step
  BY <1>1, <1>2, RankKnows, MadeIs, Numbers DEF Kinds
<1>4. PICK p : /\ RankBecomes(0, p) /\ proc'[0] = p /\ p.at = "publish"
               /\ p.step = proc[0].step /\ p.status = "running" /\ ProcessFollows(0)'
  BY <1>1, RankZeroGoes DEF Places, Untrained, TrainedPlaces
<1>5. /\ Made("ready.tmp", group, 0, proc[0].step)' = f
      /\ Made("ckpt", group, 0, proc[0].step)' = Made("ckpt", group, 0, proc[0].step)
  BY <1>1, <1>4 DEF Made, launcherVars
<1> HIDE DEF f
<1>6. \A x : x \in files' <=> x = f \/ (x \in files /\ (x.kind # "ready.tmp" \/ x.of # group \/ x.rank # 0))
  BY <1>1, <1>3, WrittenIs
<1>7. FileFollows(f)
  BY <1>1, <1>3, RankKnows, Numbers, OwnGroup DEF FileFollows
<1>8. /\ files' \subseteq File
      /\ \A x \in files' : (x.kind # "params" => x.rank = 0) /\ FileFollows(x)
  BY <1>1, <1>3, <1>6, <1>7, RankKnows, Numbers DEF Types
<1>9. ReadyMeansComplete'
  <2> SUFFICES ASSUME NEW x \in files', x.kind = "ready"
               PROVE  [x EXCEPT !.kind = "ckpt"] \in files'
    BY DEF ReadyMeansComplete
  <2>1. x \in files
    BY <1>3, <1>6
  <2>2. [x EXCEPT !.kind = "ckpt"] \in files /\ [x EXCEPT !.kind = "ckpt"].kind = "ckpt"
    BY <2>1, RenamedFile DEF Inv, ReadyMeansComplete, Types, Kinds
  <2> QED BY <1>6, <2>2
<1>10. SavedInOrder'
  <2>1. Found("ready", group) = {} /\ Made("ckpt", group, 0, proc[0].step) \in files
    BY <1>1, RankKnows, Numbers DEF Inv, SavedInOrder, Running, Live
  <2>2. Found("ready", group)' = {}
    BY <1>1, <1>3, <1>6, <2>1 DEF Found, launcherVars
  <2>3. \A x \in files : x.kind = "ready.tmp" => x.rank = 0
    BY DEF Inv, Types
  <2>4. Found("ready.tmp", group)' = {f}
    BY <1>1, <1>3, <1>6, <2>3 DEF Found, launcherVars
  <2>5. Made("ckpt", group, 0, proc[0].step).kind = "ckpt"
    BY DEF Made
  <2>6. Made("ckpt", group, 0, proc[0].step)' \in files'
    BY <1>5, <1>6, <2>1, <2>5
  <2> QED BY <1>1, <1>4, <1>5, <2>2, <2>4, <2>6 DEF SavedInOrder, launcherVars
<1>11. failures' \in 0 .. MaxFailures /\ timedOut' \in BOOLEAN
  BY <1>1, RankKnows, Numbers
<1> QED BY <1>1, <1>4, <1>8, <1>9, <1>10, <1>11, FileStep, Numbers

LEMMA PublishInv ==
  ASSUME Inv, Publish
  PROVE  Inv'
<1> DEFINE tmp == Made("ready.tmp", group, 0, proc[0].step)
           f == Made("ready", group, 0, proc[0].step)
           ckpt == Made("ckpt", group, 0, proc[0].step)
<1>1. /\ Running(0) /\ proc[0].at = "publish" /\ files' = Renamed("ready.tmp", "ready", group)
      /\ Goto(0, "verify") /\ UNCHANGED <<launcherVars, failures, timedOut>>
  BY DEF Publish, At, RankOnly
<1>2. proc[0].step \in Nat
  BY <1>1, RankKnows, Numbers DEF Process
<1>3. /\ f \in File /\ f.kind = "ready" /\ f.of = group /\ f.rank = 0
      /\ f.by = <<attempt, group>> /\ f.step = proc[0].step
  BY <1>1, <1>2, RankKnows, MadeIs, Numbers DEF Kinds
<1>4. Found("ready.tmp", group) = {tmp} /\ ckpt \in files
  BY <1>1, RankKnows, Numbers DEF Inv, SavedInOrder, Running, Live
<1>5. [tmp EXCEPT !.kind = "ready"] = f /\ [f EXCEPT !.kind = "ckpt"] = ckpt /\ ckpt.kind = "ckpt"
  BY MadeRenamed DEF Made
<1>6. PICK p : /\ RankBecomes(0, p) /\ proc'[0] = p /\ p.at = "verify"
               /\ p.step = proc[0].step /\ p.status = "running" /\ ProcessFollows(0)'
  BY <1>1, RankZeroGoes DEF Places, Untrained, TrainedPlaces
<1> HIDE DEF f, tmp, ckpt
<1>7. \A x : x \in files' <=>
        x = f \/ (x \in files /\ (x.kind \notin {"ready.tmp", "ready"} \/ x.of # group \/ x.rank # 0))
  BY <1>1, <1>4, <1>5, RenamedIs
<1>8. FileFollows(f)
  BY <1>1, <1>3, RankKnows, Numbers, OwnGroup DEF FileFollows
<1>9. /\ files' \subseteq File
      /\ \A x \in files' : (x.kind # "params" => x.rank = 0) /\ FileFollows(x)
  BY <1>1, <1>3, <1>7, <1>8, RankKnows, Numbers DEF Types
<1>10. ReadyMeansComplete'
  <2> SUFFICES ASSUME NEW x \in files', x.kind = "ready"
               PROVE  [x EXCEPT !.kind = "ckpt"] \in files'
    BY DEF ReadyMeansComplete
  <2>1. CASE x = f
    BY <1>4, <1>5, <1>7, <2>1
  <2>2. CASE x # f
    <3>1. x \in files
      BY <1>7, <2>2
    <3>2. [x EXCEPT !.kind = "ckpt"] \in files /\ [x EXCEPT !.kind = "ckpt"].kind = "ckpt"
      BY <3>1, RenamedFile DEF Inv, ReadyMeansComplete, Types, Kinds
    <3> QED BY <1>7, <3>2
  <2> QED BY <2>1, <2>2
<1>11. SavedInOrder'
  BY <1>1, <1>6 DEF SavedInOrder, launcherVars
<1>12. failures' \in 0 .. MaxFailures /\ timedOut' \in BOOLEAN
  BY <1>1, RankKnows, Numbers
<1> QED BY <1>1, <1>6, <1>9, <1>10, <1>11, <1>12, FileStep, Numbers

\* Files of the kinds that the order of the checkpoint's files is about.
Ordered == {"ckpt", "ckpt.tmp", "ready", "ready.tmp"}

\* A step that leaves those files alone and rank 0 out of their order keeps it.
LEMMA OrderKept ==
  ASSUME Inv, UNCHANGED <<attempt, group>>, verdict # "refused",
         \A x : x \in files' /\ x.kind \in Ordered <=> x \in files /\ x.kind \in Ordered,
         \/ /\ proc'[0].at = proc[0].at /\ proc'[0].step = proc[0].step
            /\ proc'[0].status \in Live <=> proc[0].status \in Live
         \/ /\ proc[0].at \in Reading => proc'[0].at \in Reading
            /\ proc'[0].status \in Live => proc'[0].at \notin {"rename", "announce", "publish"}
  PROVE  SavedInOrder'
<1>1. \A kind \in Ordered : Found(kind, group)' = Found(kind, group)
  BY DEF Found
<1>2. \A kind \in Ordered : \A step : Made(kind, group, 0, step).kind \in Ordered
  BY DEF Made
<1>3. CASE /\ proc'[0].at = proc[0].at /\ proc'[0].step = proc[0].step
           /\ proc'[0].status \in Live <=> proc[0].status \in Live
  <2>1. \A kind : Made(kind, group, 0, proc[0].step)' = Made(kind, group, 0, proc[0].step)
    BY <1>3 DEF Made
  <2>2. Made("ckpt", group, 0, proc[0].step) \in files
          => Made("ckpt", group, 0, proc[0].step)' \in files'
    BY <1>2, <2>1 DEF Ordered
  <2> QED BY <1>1, <1>3, <2>1, <2>2 DEF Inv, SavedInOrder, Ordered
<1>4. CASE /\ proc[0].at \in Reading => proc'[0].at \in Reading
           /\ proc'[0].status \in Live => proc'[0].at \notin {"rename", "announce", "publish"}
  BY <1>1, <1>4 DEF Inv, SavedInOrder, Ordered, Reading
<1> QED BY <1>3, <1>4

LEMMA ReadyKept ==
  ASSUME Inv,
         \A x : x \in files' /\ x.kind \in Ordered <=> x \in files /\ x.kind \in Ordered
  PROVE  ReadyMeansComplete'
<1> SUFFICES ASSUME NEW x \in files', x.kind = "ready"
             PROVE  [x EXCEPT !.kind = "ckpt"] \in files'
  BY DEF ReadyMeansComplete
<1>1. x \in files
  BY DEF Ordered
<1>2. [x EXCEPT !.kind = "ckpt"] \in files /\ [x EXCEPT !.kind = "ckpt"].kind = "ckpt"
  BY <1>1, RenamedFile DEF Inv, ReadyMeansComplete, Types, Kinds
<1> QED BY <1>2 DEF Ordered

LEMMA SaveParametersInv ==
  ASSUME Inv, NEW r \in Ranks, SaveParameters(r)
  PROVE  Inv'
<1> DEFINE f == Made("params", group, r, proc[r].step)
           p == [proc[r] EXCEPT !.at = "report"]
<1>1. /\ Running(r) /\ proc[r].at = "params" /\ files' = Written(f)
      /\ Goto(r, "report") /\ UNCHANGED <<launcherVars, failures, timedOut>>
  BY DEF SaveParameters, At, RankOnly
<1>2. /\ proc[r] \in Process /\ proc[r].step \in Nat /\ Types /\ ProcessFollows(r)
      /\ UNCHANGED <<attempt, group>>
  BY <1>1, RankKnows DEF Process, launcherVars
<1>3. /\ f \in File /\ f.kind = "params" /\ f.of = group /\ f.rank = r
      /\ f.by = <<attempt, group>> /\ f.step = proc[r].step
  BY <1>1, <1>2, RankKnows, MadeIs DEF Kinds
<1>4. RankBecomes(r, p)
  BY <1>1, <1>2, GotoMoves DEF Places, TrainedPlaces
<1>5. p.at = "report" /\ p.step = proc[r].step /\ p.id = proc[r].id /\ p.loaded = proc[r].loaded
  BY <1>2 DEF Process
<1>6. proc'[r] = p /\ \A q \in Ranks \ {r} : proc'[q] = proc[q]
  BY <1>2, <1>4, RankFrame
<1> HIDE DEF f, p
<1>7. ProcessFollows(r)'
  BY <1>1, <1>2, <1>5, <1>6 DEF ProcessFollows, Reached, RankZeroPlaces, Untrained, TrainedPlaces
<1>8. \A x : x \in files' <=> x = f \/ (x \in files /\ (x.kind # "params" \/ x.of # group \/ x.rank # r))
  BY <1>1, <1>3, WrittenIs
<1>9. FileFollows(f)
  BY <1>1, <1>3, RankKnows, OwnGroup DEF FileFollows
<1>10. /\ files' \subseteq File
       /\ \A x \in files' : (x.kind # "params" => x.rank = 0) /\ FileFollows(x)
  BY <1>1, <1>3, <1>8, <1>9, RankKnows DEF Types
<1>11. \A x : x \in files' /\ x.kind \in Ordered <=> x \in files /\ x.kind \in Ordered
  BY <1>3, <1>8 DEF Ordered
<1>12. \/ /\ proc'[0].at = proc[0].at /\ proc'[0].step = proc[0].step
          /\ proc'[0].status \in Live <=> proc[0].status \in Live
       \/ /\ proc[0].at \in Reading => proc'[0].at \in Reading
          /\ proc'[0].status \in Live => proc'[0].at \notin {"rename", "announce", "publish"}
  BY <1>5, <1>6, Numbers DEF Reading
<1>13. ReadyMeansComplete' /\ SavedInOrder'
  BY <1>1, <1>2, <1>11, <1>12, RankKnows, ReadyKept, OrderKept
<1>14. failures' \in 0 .. MaxFailures /\ timedOut' \in BOOLEAN
  BY <1>1, RankKnows
<1> QED BY <1>1, <1>4, <1>7, <1>10, <1>13, <1>14, FileStep

\* save_checkpoint() that throws between its two calls leaves no temporary file.
LEMMA ThrowInv ==
  ASSUME Inv, NEW r \in Ranks, Throw(r)
  PROVE  Inv'
<1> DEFINE why == IF proc[r].at = "join" THEN "system" ELSE "other"
<1>1. /\ Running(r) /\ failures < MaxFailures /\ failures' = failures + 1
      /\ Exits(r, "error", why) /\ UNCHANGED <<launcherVars, timedOut>>
  BY DEF Throw
<1>2. /\ failures' \in 0 .. MaxFailures /\ timedOut' \in BOOLEAN
      /\ proc[r] \in Process /\ Types /\ ProcessFollows(r)
  BY <1>1, RankKnows, LaunchAssumption
<1>3. why \in {"none", "arguments", "uneven", "other", "system"}
  OBVIOUS
<1> HIDE DEF why
<1>4. CASE proc[r].at # "rename"
  <2>1. files' = files
    BY <1>4 DEF Throw
  <2> QED BY <1>1, <1>2, <1>3, <2>1, ExitInv
<1>5. CASE proc[r].at = "rename"
  <2> DEFINE p == [proc[r] EXCEPT !.status = "error", !.error = why]
  <2>1. r = 0
    BY <1>2, <1>5 DEF ProcessFollows, RankZeroPlaces
  <2>2. files' = Without({"ckpt.tmp"}, group, 0)
    BY <1>5 DEF Throw
  <2>3. RankBecomes(r, p)
    BY <1>1, <1>2, <1>3, ExitsMoves
  <2>4. /\ p.at = proc[r].at /\ p.step = proc[r].step /\ p.id = proc[r].id
        /\ p.loaded = proc[r].loaded /\ p.status = "error"
    BY <1>2 DEF Process
  <2>5. proc'[r] = p
    BY <1>2, <2>3, RankFrame
  <2> HIDE DEF p
  <2>6. UNCHANGED <<attempt, group, verdict>>
    BY <1>1 DEF launcherVars
  <2>7. ProcessFollows(r)'
    BY <1>2, <2>4, <2>5, <2>6 DEF ProcessFollows, Reached
  <2>8. \A x : x \in files' <=> x \in files /\ (x.kind # "ckpt.tmp" \/ x.of # group \/ x.rank # 0)
    BY <2>2 DEF Without
  <2>9. /\ files' \subseteq File
        /\ \A x \in files' : (x.kind # "params" => x.rank = 0) /\ FileFollows(x)
    BY <1>1, <2>8, RankKnows DEF Types
  <2>10. ReadyMeansComplete'
    <3> SUFFICES ASSUME NEW x \in files', x.kind = "ready"
                 PROVE  [x EXCEPT !.kind = "ckpt"] \in files'
      BY DEF ReadyMeansComplete
    <3>1. x \in files
      BY <2>8
    <3>2. [x EXCEPT !.kind = "ckpt"] \in files /\ [x EXCEPT !.kind = "ckpt"].kind = "ckpt"
      BY <3>1, RenamedFile DEF Inv, ReadyMeansComplete, Types, Kinds
    <3> QED BY <2>8, <3>2
  <2>11. SavedInOrder'
    <3>1. Found("ready", group) = {}
      BY <1>1, <1>5, <2>1, RankKnows DEF Inv, SavedInOrder
    <3>2. Found("ready", group)' = {}
      BY <2>6, <2>8, <3>1 DEF Found
    <3> QED BY <2>1, <2>4, <2>5, <3>2 DEF SavedInOrder, Live
  <2> QED BY <1>1, <1>2, <2>3, <2>7, <2>9, <2>10, <2>11, FileStep
<1> QED BY <1>4, <1>5

-----------------------------------------------------------------------------
(* The steps of the launcher on the group at hand.                         *)

\* What an action of the launcher can use.
LEMMA LauncherKnows ==
  ASSUME Inv, attempt > 0, verdict = "none"
  PROVE  /\ Types /\ Launcher /\ attempt \in Nat /\ group \in Groups
         /\ failures \in 0 .. MaxFailures /\ timedOut \in BOOLEAN
         /\ \A f \in files : FileFollows(f)
         /\ run.mode = "checkpoint" <=> group # "train"
         /\ launcher = "judge" => NobodyRuns
         /\ completed => AllSucceeded
BY DEF Inv, Types, Launcher, FilesFollow

\* A step of the launcher that stays with its group.
LEMMA LauncherFrame ==
  ASSUME Inv, attempt > 0, verdict = "none", UNCHANGED <<run, attempt, group>>,
         launcher' \in {"launch", "wait", "grace", "collect", "judge"} \cup {launcher},
         completed' \in BOOLEAN, terminated' \in 0 .. WorldSize,
         verdict' \in {"none", "aborted", "died", "pass", "error"},
         verdict' \in {"pass", "error"} => launcher' = "judge",
         completed' => AllSucceeded', launcher' = "judge" => NobodyRuns',
         proc' \in [Ranks -> Process], ProcessesFollow',
         files' \subseteq files,
         launcher' = "judge" => \A f \in files' : f.kind # "id",
         failures' \in 0 .. MaxFailures, timedOut' \in BOOLEAN,
         ReadyMeansComplete', SavedInOrder', FilesAfterVerdict'
  PROVE  Inv'
<1>1. Types'
  BY DEF Inv, Types
<1>2. Launcher'
  <2>1. attempt' > 0 /\ attempt' # 0
    BY LauncherKnows
  <2> QED BY <2>1, LauncherKnows DEF Launcher
<1>3. FilesFollow'
  <2> SUFFICES ASSUME NEW f \in files' PROVE FileFollows(f)'
    BY DEF FilesFollow
  <2>1. FileFollows(f)
    BY LauncherKnows
  <2> QED BY <2>1 DEF FileFollows, Reached
<1> QED BY <1>1, <1>2, <1>3 DEF Inv

\* It may leave the processes and the files as they are.
LEMMA LauncherStays ==
  ASSUME Inv, attempt > 0, verdict = "none", UNCHANGED <<run, attempt, group, proc, files>>,
         launcher' \in {"launch", "wait", "grace", "collect"} \cup {launcher},
         completed' \in BOOLEAN, completed' => AllSucceeded, terminated' \in 0 .. WorldSize,
         verdict' \in {"none", "aborted", "died", "pass", "error"},
         verdict' \in {"pass", "error"} => launcher' = "judge",
         failures' \in 0 .. MaxFailures, timedOut' \in BOOLEAN, FilesAfterVerdict'
  PROVE  Inv'
<1>1. ProcessesFollow'
  BY DEF Inv, ProcessesFollow, ProcessFollows, Reached
<1>2. AllSucceeded' = AllSucceeded /\ NobodyRuns' = NobodyRuns
  BY DEF AllSucceeded, NobodyRuns, Running
<1>3. ReadyMeansComplete' /\ SavedInOrder'
  BY ReadyKept, OrderKept
<1>4. launcher' = "judge" => NobodyRuns' /\ \A f \in files' : f.kind # "id"
  BY <1>2, LauncherKnows DEF FileFollows
<1>5. proc' \in [Ranks -> Process]
  BY DEF Inv, Types
<1> QED BY <1>1, <1>2, <1>3, <1>4, <1>5, LauncherFrame

\* Giving up says nothing about the files.
LEMMA GiveUpInv ==
  ASSUME Inv, attempt > 0, verdict = "none", NEW v \in {"aborted", "died"}, End(v),
         UNCHANGED files, failures' \in 0 .. MaxFailures, timedOut' \in BOOLEAN
  PROVE  Inv'
<1>1. UNCHANGED <<run, attempt, launcher, group, completed, terminated, proc>> /\ verdict' = v
  BY DEF End
<1>2. completed \in BOOLEAN /\ terminated \in 0 .. WorldSize /\ (completed => AllSucceeded)
  BY LauncherKnows DEF Types
<1>3. FilesAfterVerdict'
  BY <1>1 DEF FilesAfterVerdict
<1> QED BY <1>1, <1>2, <1>3, LauncherStays

LEMMA LaunchFailsInv == Inv /\ LaunchFails => Inv'
<1> SUFFICES ASSUME Inv, LaunchFails PROVE Inv'
  OBVIOUS
<1>1. /\ attempt > 0 /\ verdict = "none" /\ failures < MaxFailures /\ failures' = failures + 1
      /\ End("aborted") /\ UNCHANGED <<files, timedOut>>
  BY DEF LaunchFails, Is, CountsFailure
<1>2. failures' \in 0 .. MaxFailures /\ timedOut' \in BOOLEAN
  BY <1>1, LauncherKnows, LaunchAssumption
<1> QED BY <1>1, <1>2, GiveUpInv

LEMMA LauncherDiesInv == Inv /\ LauncherDies => Inv'
<1> SUFFICES ASSUME Inv, LauncherDies PROVE Inv'
  OBVIOUS
<1>1. /\ attempt > 0 /\ verdict = "none" /\ failures < MaxFailures /\ failures' = failures + 1
      /\ End("died") /\ UNCHANGED <<files, timedOut>>
  BY DEF LauncherDies, CountsFailure
<1>2. failures' \in 0 .. MaxFailures /\ timedOut' \in BOOLEAN
  BY <1>1, LauncherKnows, LaunchAssumption
<1> QED BY <1>1, <1>2, GiveUpInv

LEMMA CollectTimesOutInv == Inv /\ CollectTimesOut => Inv'
<1> SUFFICES ASSUME Inv, CollectTimesOut PROVE Inv'
  OBVIOUS
<1>1. /\ attempt > 0 /\ verdict = "none" /\ timedOut' = TRUE
      /\ End("aborted") /\ UNCHANGED <<files, failures>>
  BY DEF CollectTimesOut, Is
<1>2. failures' \in 0 .. MaxFailures /\ timedOut' \in BOOLEAN
  BY <1>1, LauncherKnows
<1> QED BY <1>1, <1>2, GiveUpInv

LEMMA SeeSuccessInv == Inv /\ SeeSuccess => Inv'
<1> SUFFICES ASSUME Inv, SeeSuccess PROVE Inv'
  OBVIOUS
<1>1. /\ attempt > 0 /\ verdict = "none" /\ AllSucceeded /\ completed' = TRUE /\ launcher' = "collect"
      /\ UNCHANGED <<run, attempt, group, terminated, verdict, proc, files, failures, timedOut>>
  BY DEF SeeSuccess, Is
<1>2. /\ failures' \in 0 .. MaxFailures /\ timedOut' \in BOOLEAN /\ terminated' \in 0 .. WorldSize
      /\ completed' \in BOOLEAN
  BY <1>1, LauncherKnows DEF Types
<1>3. FilesAfterVerdict'
  BY <1>1 DEF FilesAfterVerdict
<1> QED BY <1>1, <1>2, <1>3, LauncherStays

\* A process that is only started or signalled stays where it is in run_rank().
LEMMA SamePlaces ==
  ASSUME Inv, UNCHANGED <<attempt, group>>,
         \A r \in Ranks : /\ proc'[r].at = proc[r].at /\ proc'[r].step = proc[r].step
                          /\ proc'[r].id = proc[r].id /\ proc'[r].loaded = proc[r].loaded
  PROVE  ProcessesFollow'
BY DEF Inv, ProcessesFollow, ProcessFollows, Reached

LEMMA LaunchInv == Inv /\ Launch => Inv'
<1> SUFFICES ASSUME Inv, Launch PROVE Inv'
  OBVIOUS
<1>1. PICK r \in Ranks :
        /\ proc[r].status = "absent" /\ proc' = [proc EXCEPT ![r].status = "running"]
        /\ Moves(IF r = 0 THEN "wait" ELSE "launch")
  BY DEF Launch, Waiting
<1>2. /\ attempt > 0 /\ verdict = "none" /\ launcher = "launch"
      /\ UNCHANGED <<run, attempt, group, completed, terminated, verdict, files, failures, timedOut>>
      /\ launcher' \in {"launch", "wait"}
  BY <1>1 DEF Launch, Is, Moves
<1> DEFINE p == [proc[r] EXCEPT !.status = "running"]
<1>3. proc[r] \in Process /\ Types
  BY <1>2, LauncherKnows DEF Types
<1>4. /\ p \in Process /\ p.at = proc[r].at /\ p.step = proc[r].step /\ p.id = proc[r].id
      /\ p.loaded = proc[r].loaded
  BY <1>3 DEF Process
<1>5. RankBecomes(r, p)
  BY <1>1, <1>3, <1>4 DEF RankBecomes
<1>6. proc' \in [Ranks -> Process] /\ proc'[r] = p /\ \A q \in Ranks \ {r} : proc'[q] = proc[q]
  BY <1>3, <1>5, RankFrame
<1> HIDE DEF p
<1>7. ProcessesFollow'
  BY <1>2, <1>4, <1>6, SamePlaces
<1>8. ~completed
  BY <1>1, <1>2, LauncherKnows DEF AllSucceeded
<1>9. SavedInOrder'
  <2>1. proc'[0].at = proc[0].at /\ proc'[0].step = proc[0].step
    BY <1>4, <1>6, Numbers
  <2>2. proc'[0].status \in Live <=> proc[0].status \in Live
    BY <1>1, <1>3, <1>6, Numbers DEF Live, Process
  <2> QED BY <1>2, <2>1, <2>2, OrderKept
<1>10. ReadyMeansComplete'
  BY <1>2, ReadyKept
<1>11. FilesAfterVerdict'
  BY <1>2 DEF FilesAfterVerdict
<1>12. /\ completed' \in BOOLEAN /\ terminated' \in 0 .. WorldSize
       /\ failures' \in 0 .. MaxFailures /\ timedOut' \in BOOLEAN
  BY <1>2, <1>3 DEF Types
<1> QED BY <1>2, <1>6, <1>7, <1>8, <1>9, <1>10, <1>11, <1>12, LauncherFrame

\* A signal changes nothing but that it is under way.
LEMMA SignalledInv ==
  ASSUME Inv, NEW signal \in {"term", "kill"}, Signalled(signal), attempt > 0, verdict = "none",
         launcher' \in {"grace", "collect"}, terminated' \in 0 .. WorldSize,
         launcher \in {"wait", "grace"},
         UNCHANGED <<run, attempt, group, completed, verdict, files, failures>>,
         timedOut' \in BOOLEAN
  PROVE  Inv'
<1>1. \A r \in Ranks :
        /\ proc'[r] \in Process
        /\ proc'[r].at = proc[r].at /\ proc'[r].step = proc[r].step /\ proc'[r].id = proc[r].id
        /\ proc'[r].loaded = proc[r].loaded /\ proc'[r].status = proc[r].status
  <2> SUFFICES ASSUME NEW r \in Ranks
               PROVE  /\ proc'[r] \in Process
                      /\ proc'[r].at = proc[r].at /\ proc'[r].step = proc[r].step
                      /\ proc'[r].id = proc[r].id /\ proc'[r].loaded = proc[r].loaded
                      /\ proc'[r].status = proc[r].status
    OBVIOUS
  <2>1. proc[r] \in Process
    BY DEF Inv, Types
  <2>2. proc'[r] = IF Running(r) THEN [proc[r] EXCEPT !.signal = signal] ELSE proc[r]
    BY DEF Signalled
  <2> QED BY <2>1, <2>2 DEF Process
<1>2. proc' \in [Ranks -> Process]
  BY <1>1 DEF Signalled
<1>3. ProcessesFollow'
  BY <1>1, SamePlaces
<1>4. completed' => AllSucceeded'
  BY <1>1, LauncherKnows DEF AllSucceeded
<1>5. ReadyMeansComplete' /\ SavedInOrder'
  BY <1>1, Numbers, ReadyKept, OrderKept
<1>6. FilesAfterVerdict'
  BY DEF FilesAfterVerdict
<1>7. completed' \in BOOLEAN /\ failures' \in 0 .. MaxFailures
  BY DEF Inv, Types
<1> QED BY <1>2, <1>3, <1>4, <1>5, <1>6, <1>7, LauncherFrame

LEMMA AliveCount == Cardinality(Alive) \in 0 .. WorldSize
<1>1. IsFiniteSet(Ranks) /\ Cardinality(Ranks) = WorldSize
  <2>1. 0 \in Int /\ WorldSize - 1 \in Int /\ 0 <= WorldSize - 1
    BY Numbers
  <2> QED BY <2>1, FS_Interval, Numbers DEF Ranks
<1>2. Alive \in SUBSET Ranks
  BY DEF Alive
<1>3. IsFiniteSet(Alive) /\ Cardinality(Alive) <= Cardinality(Ranks)
  BY <1>1, <1>2, FS_Subset
<1> QED BY <1>1, <1>3, FS_CardinalityType, Numbers

LEMMA TerminateInv ==
  ASSUME Inv, Terminate, Is("wait"), timedOut' \in BOOLEAN
  PROVE  Inv'
BY AliveCount, SignalledInv DEF Terminate, Is

LEMMA SeeFailureInv == Inv /\ SeeFailure => Inv'
BY TerminateInv, LauncherKnows DEF SeeFailure, Is

LEMMA DeadlineInv == Inv /\ Deadline => Inv'
BY TerminateInv DEF Deadline, DeadlinePasses

LEMMA EndGraceInv == Inv /\ EndGrace => Inv'
<1> SUFFICES ASSUME Inv, EndGrace PROVE Inv'
  OBVIOUS
<1>1. /\ attempt > 0 /\ verdict = "none" /\ launcher = "grace" /\ Signalled("kill")
      /\ launcher' = "collect"
      /\ UNCHANGED <<run, attempt, group, completed, terminated, verdict, files, failures, timedOut>>
  BY DEF EndGrace, Is, Moves
<1>2. terminated' \in 0 .. WorldSize /\ timedOut' \in BOOLEAN
  BY <1>1, LauncherKnows DEF Types
<1> QED BY <1>1, <1>2, SignalledInv

\* A group that is collected has ended and its id file is removed.
LEMMA CollectInv == Inv /\ Collect => Inv'
<1> SUFFICES ASSUME Inv, Collect PROVE Inv'
  OBVIOUS
<1>1. /\ attempt > 0 /\ verdict = "none" /\ launcher = "collect" /\ NobodyRuns
      /\ files' = Without({"id"}, group, 0) /\ launcher' = "judge"
      /\ UNCHANGED <<run, attempt, group, completed, terminated, verdict, proc, failures, timedOut>>
  BY DEF Collect, GroupGone, Is, Moves
<1>2. \A x : x \in files' <=> x \in files /\ (x.kind # "id" \/ x.of # group \/ x.rank # 0)
  BY <1>1 DEF Without
<1>3. \A f \in files' : f.kind # "id"
  BY <1>1, <1>2, LauncherKnows DEF FileFollows, Types
<1>4. \A x : x \in files' /\ x.kind \in Ordered <=> x \in files /\ x.kind \in Ordered
  BY <1>2 DEF Ordered
<1>5. ReadyMeansComplete' /\ SavedInOrder'
  BY <1>1, <1>4, ReadyKept, OrderKept
<1>6. ProcessesFollow'
  BY <1>1, SamePlaces
<1>7. (completed' => AllSucceeded') /\ NobodyRuns'
  BY <1>1, LauncherKnows DEF AllSucceeded, NobodyRuns, Running
<1>8. FilesAfterVerdict'
  BY <1>1 DEF FilesAfterVerdict
<1>9. /\ proc' \in [Ranks -> Process] /\ completed' \in BOOLEAN /\ terminated' \in 0 .. WorldSize
      /\ failures' \in 0 .. MaxFailures /\ timedOut' \in BOOLEAN
  BY <1>1, LauncherKnows DEF Types
<1> QED BY <1>1, <1>2, <1>3, <1>5, <1>6, <1>7, <1>8, <1>9, LauncherFrame

-----------------------------------------------------------------------------
(* The judgements.                                                         *)

\* A verdict on a group, which may remove files.
LEMMA JudgementInv ==
  ASSUME Inv, Is("judge"), NEW v \in {"pass", "error"}, End(v), files' \subseteq files,
         ReadyMeansComplete', SavedInOrder', failures' \in 0 .. MaxFailures, timedOut' \in BOOLEAN,
         v = "pass" => IF run.mode = "checkpoint" THEN files' = {}
                       ELSE \A f \in files' : f.kind = "params" => f.rank = 0 /\ run.retain,
         v = "error" /\ ~completed /\ run.mode # "checkpoint" => \A f \in files' : f.kind # "params"
  PROVE  Inv'
<1>1. /\ UNCHANGED <<run, attempt, launcher, group, completed, terminated, proc>> /\ verdict' = v
      /\ attempt > 0 /\ verdict = "none" /\ launcher = "judge"
  BY DEF End, Is
<1>2. \A f \in files' : f.kind # "id"
  BY <1>1, LauncherKnows DEF FileFollows
<1>3. FilesAfterVerdict'
  BY <1>1, <1>2 DEF FilesAfterVerdict
<1>4. ProcessesFollow'
  BY <1>1, SamePlaces
<1>5. (completed' => AllSucceeded') /\ NobodyRuns'
  BY <1>1, LauncherKnows DEF AllSucceeded, NobodyRuns, Running
<1>6. /\ proc' \in [Ranks -> Process] /\ completed' \in BOOLEAN /\ terminated' \in 0 .. WorldSize
  BY <1>1, LauncherKnows DEF Types
<1> QED BY <1>1, <1>2, <1>3, <1>4, <1>5, <1>6, LauncherFrame

\* Most verdicts leave the checkpoint's files alone.
LEMMA OrderedStay ==
  ASSUME Inv, Is("judge"), NEW v, End(v),
         \A x : x \in files' /\ x.kind \in Ordered <=> x \in files /\ x.kind \in Ordered
  PROVE  ReadyMeansComplete' /\ SavedInOrder'
<1>1. UNCHANGED <<attempt, group, proc>> /\ verdict # "refused"
  BY DEF End, Is
<1> QED BY <1>1, OrderKept, ReadyKept

LEMMA ParametersGone ==
  /\ NoParameters \subseteq files /\ \A f \in NoParameters : f.kind # "params"
  /\ \A x : x \in NoParameters /\ x.kind \in Ordered <=> x \in files /\ x.kind \in Ordered
BY DEF NoParameters, Ordered

LEMMA Counted ==
  ASSUME Inv, CountsFailure \/ UNCHANGED failures
  PROVE  failures' \in 0 .. MaxFailures
BY LaunchAssumption DEF Inv, Types, CountsFailure

LEMMA JudgePeerFailureInv == Inv /\ JudgePeerFailure => Inv'
<1> SUFFICES ASSUME Inv, JudgePeerFailure PROVE Inv'
  OBVIOUS
<1>1. PICK v \in {"pass", "error"} : End(v)
  BY DEF JudgePeerFailure
<1>2. /\ Is("judge") /\ run.mode = "peer-failure" /\ files' = NoParameters
      /\ UNCHANGED <<failures, timedOut>>
  BY DEF JudgePeerFailure
<1>3. failures' \in 0 .. MaxFailures /\ timedOut' \in BOOLEAN
  BY <1>2 DEF Inv, Types
<1>4. ReadyMeansComplete' /\ SavedInOrder'
  BY <1>1, <1>2, ParametersGone, OrderedStay
<1> QED BY <1>1, <1>2, <1>3, <1>4, ParametersGone, JudgementInv

LEMMA JudgeFailedGroupInv == Inv /\ JudgeFailedGroup => Inv'
<1> SUFFICES ASSUME Inv, JudgeFailedGroup PROVE Inv'
  OBVIOUS
<1>1. PICK v \in {"pass", "error"} : End(v)
  BY DEF JudgeFailedGroup
<1>2. /\ Is("judge") /\ run.mode # "checkpoint" /\ files' = NoParameters
      /\ UNCHANGED <<failures, timedOut>>
  BY DEF JudgeFailedGroup
<1>3. failures' \in 0 .. MaxFailures /\ timedOut' \in BOOLEAN
  BY <1>2 DEF Inv, Types
<1>4. ReadyMeansComplete' /\ SavedInOrder'
  BY <1>1, <1>2, ParametersGone, OrderedStay
<1> QED BY <1>1, <1>2, <1>3, <1>4, ParametersGone, JudgementInv

LEMMA RejectRecordsInv == Inv /\ RejectRecords => Inv'
<1> SUFFICES ASSUME Inv, RejectRecords PROVE Inv'
  OBVIOUS
<1>1. /\ Is("judge") /\ completed /\ CountsFailure /\ End("error") /\ UNCHANGED <<files, timedOut>>
  BY DEF RejectRecords, Trained
<1>2. failures' \in 0 .. MaxFailures /\ timedOut' \in BOOLEAN
  BY <1>1, Counted DEF Inv, Types
<1>3. ReadyMeansComplete' /\ SavedInOrder'
  BY <1>1, OrderedStay
<1> QED BY <1>1, <1>2, <1>3, JudgementInv

LEMMA GateInv == Inv /\ Gate => Inv'
<1> SUFFICES ASSUME Inv, Gate PROVE Inv'
  OBVIOUS
<1>1. /\ Is("judge") /\ completed /\ run.mode # "checkpoint" /\ UNCHANGED timedOut
      /\ CountsFailure \/ UNCHANGED failures
  BY DEF Gate, Trained
<1>2. failures' \in 0 .. MaxFailures /\ timedOut' \in BOOLEAN
  BY <1>1, Counted DEF Inv, Types
<1>3. CASE /\ files' = {f \in files : f.kind = "params" => (run.retain /\ f.rank = 0)}
           /\ End("pass")
  <2>1. \A x : x \in files' /\ x.kind \in Ordered <=> x \in files /\ x.kind \in Ordered
    BY <1>3 DEF Ordered
  <2>2. ReadyMeansComplete' /\ SavedInOrder'
    BY <1>1, <1>3, <2>1, OrderedStay
  <2>3. files' \subseteq files /\ \A f \in files' : f.kind = "params" => f.rank = 0 /\ run.retain
    BY <1>3
  <2> QED BY <1>1, <1>2, <1>3, <2>2, <2>3, JudgementInv
<1>4. CASE files' = NoParameters /\ End("error")
  <2>1. ReadyMeansComplete' /\ SavedInOrder'
    BY <1>1, <1>4, ParametersGone, OrderedStay
  <2> QED BY <1>1, <1>2, <1>4, <2>1, ParametersGone, JudgementInv
<1> QED BY <1>3, <1>4 DEF Gate

LEMMA JudgeFailedSegmentInv == Inv /\ JudgeFailedSegment => Inv'
<1> SUFFICES ASSUME Inv, JudgeFailedSegment PROVE Inv'
  OBVIOUS
<1>1. /\ Is("judge") /\ run.mode = "checkpoint"
      /\ CountsFailure \/ UNCHANGED failures
      /\ End("error") /\ UNCHANGED <<files, timedOut>>
  BY DEF JudgeFailedSegment
<1>2. failures' \in 0 .. MaxFailures /\ timedOut' \in BOOLEAN
  BY <1>1, Counted DEF Inv, Types
<1>3. ReadyMeansComplete' /\ SavedInOrder'
  BY <1>1, OrderedStay
<1> QED BY <1>1, <1>2, <1>3, JudgementInv

\* The checkpoints are removed when rank 0 has failed.
LEMMA JudgeInjectedInv == Inv /\ JudgeInjected => Inv'
<1> SUFFICES ASSUME Inv, JudgeInjected PROVE Inv'
  OBVIOUS
<1>1. /\ Is("judge") /\ run.mode = "checkpoint" /\ UNCHANGED <<failures, timedOut>>
  BY DEF JudgeInjected
<1>2. PICK v \in {"pass", "error"} : End(v) /\ (v = "pass" => files' = {})
  BY DEF JudgeInjected
<1>3. failures' \in 0 .. MaxFailures /\ timedOut' \in BOOLEAN
  BY <1>1 DEF Inv, Types
<1>4. files' \subseteq files
  BY DEF JudgeInjected
<1>5. ReadyMeansComplete' /\ SavedInOrder'
  <2>1. CASE PeerStopped
    <3>1. files' = {f \in files : f.kind \notin {"ckpt", "ready"}}
      BY <2>1 DEF JudgeInjected
    <3>2. Found("ready", group)' = {} /\ ReadyMeansComplete'
      BY <3>1 DEF Found, ReadyMeansComplete
    <3>3. proc'[0].status \notin Live
      BY <1>2, <2>1 DEF PeerStopped, End, Live
    <3> QED BY <3>2, <3>3 DEF SavedInOrder
  <2>2. CASE ~PeerStopped
    BY <1>1, <1>2, <2>2, OrderedStay DEF JudgeInjected
  <2> QED BY <2>1, <2>2
<1> QED BY <1>1, <1>2, <1>3, <1>4, <1>5, JudgementInv

\* No process of a new group has started.
LEMMA Fresh ==
  ASSUME proc' = [r \in Ranks |-> NotStarted]
  PROVE  proc' \in [Ranks -> Process] /\ ProcessesFollow' /\ NobodyRuns'
<1>1. NotStarted \in Process
  BY DEF NotStarted, Process, Places, Untrained
<1>2. \A r \in Ranks : proc'[r] = NotStarted
  OBVIOUS
<1>3. /\ NotStarted.at = "start" /\ NotStarted.id = NoFile /\ NotStarted.loaded = NoFile
      /\ NotStarted.step = 0 /\ NotStarted.status = "absent"
  BY DEF NotStarted
<1>4. ProcessesFollow'
  BY <1>2, <1>3 DEF ProcessesFollow, ProcessFollows, RankZeroPlaces, Untrained, TrainedPlaces
<1>5. NobodyRuns'
  BY <1>2, <1>3 DEF NobodyRuns, Running
<1> QED BY <1>1, <1>4, <1>5

\* The next group of an attempt finds the files of the groups before it, and no ready
\* file of its own.
LEMMA NextGroups ==
  \A g \in Groups \ {"failure", "train"} :
    NextGroup[g] \in Groups \ {"first", "train"} /\ SoFar[g] \subseteq SoFar[NextGroup[g]]
    /\ NextGroup[g] \notin SoFar[g]
BY DEF Groups, NextGroup, SoFar

LEMMA JudgeSegmentInv == Inv /\ JudgeSegment => Inv'
<1> SUFFICES ASSUME Inv, JudgeSegment PROVE Inv'
  OBVIOUS
<1>1. /\ Is("judge") /\ run.mode = "checkpoint" /\ group # "failure" /\ files' = NoParameters
      /\ UNCHANGED <<failures, timedOut>>
  BY DEF JudgeSegment
<1>2. failures' \in 0 .. MaxFailures /\ timedOut' \in BOOLEAN
  BY <1>1 DEF Inv, Types
<1>3. CASE Verified
  <2>1. /\ launcher' = "launch" /\ group' = NextGroup[group] /\ completed' = FALSE
        /\ terminated' = 0 /\ proc' = [r \in Ranks |-> NotStarted]
        /\ UNCHANGED <<run, attempt, verdict>>
    BY <1>3 DEF JudgeSegment
  <2>2. /\ Types /\ attempt \in Nat /\ attempt > 0 /\ verdict = "none" /\ launcher = "judge"
        /\ \A f \in files : FileFollows(f)
        /\ group \in Groups \ {"failure", "train"}
    BY <1>1, LauncherKnows DEF Is
  <2>3. /\ group' \in Groups \ {"first", "train"} /\ SoFar[group] \subseteq SoFar[group']
        /\ group' \notin SoFar[group]
    BY <2>1, <2>2, NextGroups
  <2>4. /\ proc' \in [Ranks -> Process] /\ ProcessesFollow' /\ proc'[0] = NotStarted
    BY <2>1, Fresh, Numbers
  <2>5. files' \subseteq files
    BY <1>1, ParametersGone
  <2>6. Types'
    <3>1. terminated' \in 0 .. WorldSize
      BY <2>1, Numbers
    <3> QED BY <1>2, <2>1, <2>2, <2>3, <2>4, <2>5, <3>1 DEF Types
  <2>7. Launcher'
    BY <1>1, <2>1, <2>2, <2>3 DEF Launcher
  <2>8. FilesFollow'
    <3> SUFFICES ASSUME NEW f \in files' PROVE FileFollows(f)'
      BY DEF FilesFollow
    <3>1. FileFollows(f)
      BY <2>2, <2>5
    <3> QED BY <2>1, <2>2, <2>3, <3>1 DEF FileFollows, Reached
  <2>9. SavedInOrder'
    <3>1. Found("ready", group)' = {}
      <4> SUFFICES ASSUME NEW f \in files', f.of = group' PROVE FALSE
        BY DEF Found
      <4> QED BY <2>2, <2>3, <2>5 DEF FileFollows
    <3>2. proc'[0].at = "start"
      BY <2>4 DEF NotStarted
    <3> QED BY <3>1, <3>2 DEF SavedInOrder
  <2>10. ReadyMeansComplete'
    BY <1>1, ParametersGone, ReadyKept
  <2>11. FilesAfterVerdict'
    BY <2>1, <2>2 DEF FilesAfterVerdict
  <2> QED BY <2>4, <2>6, <2>7, <2>8, <2>9, <2>10, <2>11 DEF Inv
<1>4. CASE ~Verified
  <2>1. End("error")
    BY <1>4 DEF JudgeSegment
  <2>2. ReadyMeansComplete' /\ SavedInOrder'
    BY <1>1, <2>1, ParametersGone, OrderedStay
  <2> QED BY <1>1, <1>2, <2>1, <2>2, ParametersGone, JudgementInv
<1> QED BY <1>3, <1>4

-----------------------------------------------------------------------------
(* An attempt, every step, and what follows.                               *)

LEMMA StartInv == Inv /\ Start => Inv'
<1> SUFFICES ASSUME Inv, NEW m \in Modes, NEW fits \in BOOLEAN, NEW retain \in BOOLEAN,
                    NEW overwrite \in BOOLEAN, Begin(m, fits, retain, overwrite)
             PROVE  Inv'
  BY DEF Start
<1>1. /\ attempt < MaxAttempts /\ NobodyRuns
      /\ attempt' = attempt + 1 /\ run' = [mode |-> m, fits |-> fits, retain |-> retain]
      /\ launcher' = "launch" /\ group' = IF m = "checkpoint" THEN "first" ELSE "train"
      /\ completed' = FALSE /\ terminated' = 0 /\ proc' = [r \in Ranks |-> NotStarted]
      /\ timedOut' = FALSE /\ UNCHANGED failures
  BY DEF Begin
<1>2. Types /\ m \in AllModes /\ MaxAttempts \in Nat /\ MaxFailures \in Nat
  BY LaunchAssumption DEF Inv
<1>3. /\ attempt' \in 0 .. MaxAttempts /\ attempt' > 0 /\ attempt' # 0
  BY <1>1, <1>2 DEF Types
<1>4. proc' \in [Ranks -> Process] /\ ProcessesFollow' /\ NobodyRuns'
  BY <1>1, Fresh
<1>5. group' \in Groups /\ (run'.mode = "checkpoint" <=> group' # "train") /\ run'.mode = m
  BY <1>1 DEF Groups
<1>6. run' \in [mode : AllModes, fits : BOOLEAN, retain : BOOLEAN]
  BY <1>1, <1>2
<1>7. \/ verdict' = "refused" /\ files' = files
      \/ verdict' = "none" /\ files' = {}
  <2>1. CASE attempt > 0 /\ ~overwrite
    BY <2>1 DEF Begin
  <2>2. CASE overwrite
    BY <2>2 DEF Begin, Wiped
  <2>3. CASE ~(attempt > 0) /\ ~overwrite
    <3>1. attempt = 0 /\ files = {}
      BY <2>3, <1>2 DEF Types, Inv, Launcher
    <3> QED BY <2>3, <3>1 DEF Begin
  <2> QED BY <2>1, <2>2, <2>3
<1>8. Types'
  <2>1. terminated' \in 0 .. WorldSize
    BY <1>1, Numbers
  <2>2. files' \subseteq File /\ \A f \in files' : f.kind # "params" => f.rank = 0
    BY <1>2, <1>7 DEF Types
  <2>3. failures' \in 0 .. MaxFailures
    BY <1>1, <1>2 DEF Types
  <2>4. launcher' = "launch" /\ verdict' \in {"none", "refused"} /\ proc' \in [Ranks -> Process]
    BY <1>1, <1>4, <1>7
  <2> QED BY <1>1, <1>3, <1>5, <1>6, <2>1, <2>2, <2>3, <2>4 DEF Types
<1>9. Launcher'
  <2>1. \A r \in Ranks : proc'[r].status = "absent"
    BY <1>1 DEF NotStarted
  <2> QED BY <1>1, <1>3, <1>4, <1>5, <1>7, <2>1 DEF Launcher
<1>10. FilesFollow' /\ FilesAfterVerdict'
  BY <1>7 DEF FilesFollow, FilesAfterVerdict
<1>11. SavedInOrder'
  <2>1. proc'[0].at = "start"
    BY <1>1, Numbers DEF NotStarted
  <2> QED BY <1>7, <2>1 DEF SavedInOrder, Found
<1>12. ReadyMeansComplete'
  BY <1>7 DEF Inv, ReadyMeansComplete
<1> QED BY <1>4, <1>8, <1>9, <1>10, <1>11, <1>12 DEF Inv

LEMMA InitInv == Init => Inv
<1> SUFFICES ASSUME Init PROVE Inv
  OBVIOUS
<1>1. /\ run = [mode |-> "none", fits |-> TRUE, retain |-> FALSE]
      /\ attempt = 0 /\ launcher = "idle" /\ group = "train"
      /\ completed = FALSE /\ terminated = 0 /\ verdict = "none"
      /\ proc = [r \in Ranks |-> NotStarted] /\ files = {}
      /\ failures = 0 /\ timedOut = FALSE
  BY DEF Init
<1>2. NotStarted \in Process
  BY DEF NotStarted, Process, Places, Untrained
<1>3. \A r \in Ranks : proc[r] = NotStarted
  BY <1>1
<1>4. /\ NotStarted.at = "start" /\ NotStarted.id = NoFile /\ NotStarted.loaded = NoFile
      /\ NotStarted.step = 0 /\ NotStarted.status = "absent"
  BY DEF NotStarted
<1>5. Types
  <2>1. proc \in [Ranks -> Process]
    BY <1>1, <1>2
  <2>2. attempt \in 0 .. MaxAttempts /\ failures \in 0 .. MaxFailures /\ terminated \in 0 .. WorldSize
    BY <1>1, LaunchAssumption, Numbers
  <2> QED BY <1>1, <2>1, <2>2 DEF Types, AllModes, Groups
<1>6. Launcher
  BY <1>1, <1>3, <1>4 DEF Launcher, NobodyRuns, Running
<1>7. ProcessesFollow
  BY <1>3, <1>4 DEF ProcessesFollow, ProcessFollows, RankZeroPlaces, Untrained, TrainedPlaces
<1>8. SavedInOrder
  BY <1>1, <1>3, <1>4, Numbers DEF SavedInOrder, Found
<1>9. FilesFollow /\ ReadyMeansComplete /\ FilesAfterVerdict
  BY <1>1 DEF FilesFollow, ReadyMeansComplete, FilesAfterVerdict
<1> QED BY <1>5, <1>6, <1>7, <1>8, <1>9 DEF Inv

LEMMA StayInv == Inv /\ UNCHANGED vars => Inv'
<1> SUFFICES ASSUME Inv, UNCHANGED vars PROVE Inv'
  OBVIOUS
<1>1. UNCHANGED <<run, attempt, launcher, group, completed, terminated, verdict, proc, files,
                  failures, timedOut>>
  BY DEF vars, launcherVars
<1>2. Types' /\ FilesAfterVerdict' /\ ReadyMeansComplete'
  BY <1>1 DEF Inv, Types, FilesAfterVerdict, ReadyMeansComplete
<1>3. Launcher'
  BY <1>1 DEF Inv, Launcher, AllSucceeded, NobodyRuns, Running
<1>4. FilesFollow'
  BY <1>1 DEF Inv, FilesFollow, FileFollows, Reached
<1>5. ProcessesFollow'
  BY <1>1 DEF Inv, ProcessesFollow, ProcessFollows, Reached
<1>6. SavedInOrder'
  BY <1>1 DEF Inv, SavedInOrder, Found, Made
<1> QED BY <1>2, <1>3, <1>4, <1>5, <1>6 DEF Inv

LEMMA StepInv == Inv /\ [Next]_vars => Inv'
<1> SUFFICES ASSUME Inv, Next PROVE Inv'
  BY StayInv
<1>1. CASE Start \/ LaunchFails \/ LauncherDies
  BY <1>1, StartInv, LaunchFailsInv, LauncherDiesInv
<1>2. CASE LauncherStep
  BY <1>2, LaunchInv, SeeSuccessInv, SeeFailureInv, DeadlineInv, EndGraceInv, CollectInv,
     CollectTimesOutInv, JudgePeerFailureInv, JudgeFailedGroupInv, RejectRecordsInv, GateInv,
     JudgeSegmentInv, JudgeFailedSegmentInv, JudgeInjectedInv
  DEF LauncherStep
<1>3. CASE RankZeroStep
  BY <1>3, WriteIdInv, PublishIdInv, SaveTemporaryInv, SaveRenameInv, AnnounceInv, PublishInv
  DEF RankZeroStep
<1>4. ASSUME NEW r \in Ranks, RankStep(r) PROVE Inv'
  BY <1>4, ParseInv, WaitForIdInv, JoinInv, CountTokensInv, RestoreInv, TrainInv, BarrierInv,
     WaitForReadyInv, VerifyInv, SaveParametersInv, ReportInv, RankDeadlineInv, DiesInv
  DEF RankStep
<1>5. ASSUME NEW r \in Ranks, Throw(r) \/ Crash(r) PROVE Inv'
  BY <1>5, ThrowInv, CrashInv
<1> QED BY <1>1, <1>2, <1>3, <1>4, <1>5 DEF Next

LEMMA InvHolds == Spec => []Inv
<1>1. Init => Inv
  BY InitInv
<1>2. Inv /\ [Next]_vars => Inv'
  BY StepInv
<1> QED BY <1>1, <1>2, PTL DEF Spec

LEMMA InvIsTyped == Inv => TypeOK
<1> SUFFICES ASSUME Inv PROVE TypeOK
  OBVIOUS
<1>1. Types /\ DOMAIN proc = Ranks
  BY DEF Inv, Types
<1>2. ASSUME NEW r \in Ranks
      PROVE  /\ proc[r].status \in {"absent", "running", "ok", "error", "crashed", "term", "kill"}
             /\ proc[r].signal \in {"none", "term", "kill"}
             /\ proc[r].step \in 0 .. FirstSteps + ResumedSteps
             /\ {proc[r].id, proc[r].loaded} \subseteq File \cup {NoFile}
  <2>1. proc[r] \in Process /\ ProcessFollows(r) /\ group \in Groups
    BY <1>1 DEF Inv, Types, ProcessesFollow
  <2>2. proc[r].at \in Untrained \cup {"train"} \cup TrainedPlaces
    BY <2>1 DEF Process, Places
  <2>3. proc[r].step \in {0, FirstSteps, Reached(group)}
    BY <2>1, <2>2 DEF ProcessFollows
  <2>4. proc[r].step \in 0 .. FirstSteps + ResumedSteps
    BY <2>1, <2>3, ReachedRange, Numbers
  <2> QED BY <2>1, <2>4 DEF Process
<1> QED BY <1>1, <1>2 DEF Types, TypeOK

\* Every variable of the launcher and the ranks keeps its type, and no rank trains past
\* the end of the whole trajectory, whatever fails.
THEOREM TypeCorrect == Spec => []TypeOK
BY InvHolds, InvIsTyped, PTL

\* wait_for_id(), --resume-file and the verification of a checkpoint take whatever file
\* has the name they wait for, and still never one of another attempt, for every number
\* of ranks and attempts in one directory and every crash of a rank or the launcher.
THEOREM AttemptsStayApart == Spec => []AttemptsDoNotMix
<1>1. Inv => AttemptsDoNotMix
  <2> SUFFICES ASSUME Inv, NEW r \in Ranks, Running(r)
               PROVE  /\ proc[r].id # NoFile => proc[r].id.by = <<attempt, group>>
                      /\ proc[r].loaded # NoFile =>
                           proc[r].loaded.by = <<attempt, IF proc[r].at \in {"params", "report"}
                                                          THEN group ELSE "first">>
    BY DEF AttemptsDoNotMix
  <2> QED BY DEF Inv, ProcessesFollow, ProcessFollows
<1> QED BY <1>1, InvHolds, PTL

\* publish_checkpoint_ready() after save_checkpoint(): a ready file is never without the
\* checkpoint it announces, wherever rank 0 stops.
THEOREM ReadyFilesAnnounce == Spec => []ReadyMeansComplete
<1>1. Inv => ReadyMeansComplete
  BY DEF Inv
<1> QED BY <1>1, InvHolds, PTL

\* What the launcher has cleaned up when it gives its verdict stays clean.
THEOREM VerdictCleans == Spec => []FilesAfterVerdict
<1>1. Inv => FilesAfterVerdict
  BY DEF Inv
<1> QED BY <1>1, InvHolds, PTL

-----------------------------------------------------------------------------
(* The promise of GroupVerdict, step by step.                              *)

Statuses == {"absent", "running", "ok", "error", "crashed", "term", "kill"}
Judgement == IF launcher # "judge" THEN "open" ELSE IF completed THEN "completed" ELSE "failed"

LEMMA OutcomeOf ==
  \A s \in Statuses :
    /\ Outcome(s) = "idle" <=> s = "absent"
    /\ Outcome(s) = "running" <=> s = "running"
    /\ Outcome(s) = "succeeded" <=> s = "ok"
    /\ s \notin {"absent", "running"} => Outcome(s) \in {"succeeded", "failed"}
BY DEF Outcome, Statuses

\* A step that neither ends a process nor judges is none of the group's.
LEMMA GroupStutters ==
  ASSUME \A r \in Ranks : proc'[r].status = proc[r].status, Judgement' = Judgement
  PROVE  UNCHANGED Group!verdictVars
BY DEF Group!verdictVars, Judgement

\* A rank's step keeps its status or ends it.
LEMMA RankOutcome ==
  ASSUME Types, NEW r \in Ranks, Running(r), UNCHANGED <<launcher, completed>>,
         \A q \in Ranks \ {r} : proc'[q].status = proc[q].status,
         proc'[r].status \in Statuses \ {"absent"}
  PROVE  [Group!Next]_(Group!verdictVars)
<1>1. proc[r].status = "running"
  BY DEF Running
<1>2. CASE proc'[r].status = "running"
  <2>1. \A q \in Ranks : proc'[q].status = proc[q].status
    BY <1>1, <1>2
  <2> QED BY <2>1, GroupStutters DEF Judgement
<1>3. CASE proc'[r].status # "running"
  <2> DEFINE how == Outcome(proc'[r].status)
  <2>1. how \in {"succeeded", "failed"} /\ Outcome(proc[r].status) = "running"
    BY <1>1, <1>3, OutcomeOf DEF Statuses
  <2>2. [q \in Ranks |-> Outcome(proc[q].status)]'
          = [[q \in Ranks |-> Outcome(proc[q].status)] EXCEPT ![r] = how]
    OBVIOUS
  <2>3. Group!Ends(r, how)
    BY <2>1, <2>2 DEF Group!Ends
  <2> QED BY <2>1, <2>3 DEF Group!Next
<1> QED BY <1>2, <1>3

\* Every action of a rank is a running process's, changes no other, and starts none.
LEMMA RankStatus ==
  ASSUME Types, NEW r \in Ranks, RankStep(r) \/ Throw(r) \/ Crash(r) \/ (r = 0 /\ RankZeroStep)
  PROVE  /\ Running(r) /\ UNCHANGED launcherVars
         /\ \A q \in Ranks \ {r} : proc'[q].status = proc[q].status
         /\ proc'[r].status \in Statuses \ {"absent"}
<1>1. Running(r) /\ UNCHANGED launcherVars
  BY DEF RankStep, Parse, WaitForId, Join, CountTokens, Restore, Train, Barrier, WaitForReady,
     Verify, SaveParameters, Report, RankDeadline, Dies, Throw, Crash, RankZeroStep, WriteId,
     PublishId, SaveTemporary, SaveRename, Announce, SaveFinished, Publish, Collective, At,
     RankOnly
<1>2. /\ proc \in [Ranks -> Process] /\ proc[r] \in Process /\ proc[r].status = "running"
      /\ proc[r].signal \in {"none", "term", "kill"}
  BY <1>1 DEF Types, Process, Running
<1> DEFINE Follows == /\ \A q \in Ranks \ {r} : proc'[q].status = proc[q].status
                      /\ proc'[r].status \in Statuses \ {"absent"}
<1>3. ASSUME NEW where, Goto(r, where) PROVE Follows
  BY <1>2, <1>3 DEF Goto, Process, Statuses
<1>4. ASSUME NEW status \in Statuses \ {"absent"}, NEW why, Exits(r, status, why) PROVE Follows
  BY <1>2, <1>4 DEF Exits, Process
<1>5. ASSUME NEW number, NEW where, Passes(r, number, where) PROVE Follows
  BY <1>2, <1>5 DEF Passes, Process, Statuses
<1>6. Follows
  <2>1. CASE Parse(r) \/ WaitForReady(r) \/ SaveParameters(r) \/ Report(r) \/ RankDeadline(r)
             \/ Throw(r) \/ Crash(r)
    BY <1>3, <1>4, <2>1 DEF Parse, WaitForReady, SaveParameters, Report, RankDeadline, Throw, Crash,
                            Statuses
  <2>2. CASE Dies(r)
    BY <1>2, <1>4, <2>2 DEF Dies, Statuses
  <2>3. CASE WaitForId(r)
    BY <1>2, <2>3 DEF WaitForId, Process, Statuses
  <2>4. CASE Join(r)
    BY <1>5, <2>4 DEF Join
  <2>5. CASE CountTokens(r)
    BY <1>2, <1>5, <2>5 DEF CountTokens, Process, Statuses
  <2>6. CASE Restore(r)
    <3>1. CASE Exits(r, "error", "other")
      BY <1>4, <3>1 DEF Statuses
    <3>2. ASSUME NEW f,
                 proc' = [proc EXCEPT ![r].at = "train", ![r].step = f.step, ![r].loaded = f]
          PROVE  Follows
      BY <1>2, <3>2 DEF Process, Statuses
    <3> QED BY <2>6, <3>1, <3>2 DEF Restore
  <2>7. CASE Train(r)
    BY <1>2, <2>7 DEF Train, Process, Statuses
  <2>8. CASE Barrier(r)
    BY <1>2, <1>5, <2>8 DEF Barrier, Process, Statuses
  <2>9. CASE Verify(r)
    <3>1. CASE Exits(r, "error", "other")
      BY <1>4, <3>1 DEF Statuses
    <3>2. ASSUME NEW f, proc' = [proc EXCEPT ![r].at = "params", ![r].loaded = f]
          PROVE  Follows
      BY <1>2, <3>2 DEF Process, Statuses
    <3> QED BY <2>9, <3>1, <3>2 DEF Verify
  <2>10. CASE r = 0 /\ WriteId
    BY <1>2, <2>10 DEF WriteId, Process, Statuses
  <2>11. CASE r = 0 /\ (PublishId \/ SaveTemporary \/ SaveRename \/ Announce \/ Publish)
    BY <1>3, <2>11 DEF PublishId, SaveTemporary, SaveRename, Announce, Publish
  <2> QED BY <2>1, <2>2, <2>3, <2>4, <2>5, <2>6, <2>7, <2>8, <2>9, <2>10, <2>11
          DEF RankStep, RankZeroStep
<1> QED BY <1>1, <1>6

LEMMA RankRefines ==
  ASSUME Types, NEW r \in Ranks, RankStep(r) \/ Throw(r) \/ Crash(r) \/ (r = 0 /\ RankZeroStep)
  PROVE  [Group!Next]_(Group!verdictVars)
BY RankStatus, RankOutcome DEF launcherVars

\* Somebody starts an attempt, or the next segment's group.
LEMMA FreshRefines ==
  ASSUME Types, NobodyRuns, proc' = [r \in Ranks |-> NotStarted], launcher' = "launch"
  PROVE  Group!Begin
<1>1. \A r \in Ranks : proc[r].status \in Statuses /\ proc[r].status # "running"
  BY DEF Types, Process, Statuses, NobodyRuns, Running
<1>2. \A r \in Ranks : Outcome(proc[r].status) # "running"
  BY <1>1, OutcomeOf
<1>3. \A r \in Ranks : Outcome(proc'[r].status) = "idle"
  BY DEF NotStarted, Outcome
<1> QED BY <1>2, <1>3 DEF Group!Begin, Group!NobodyRuns

LEMMA LaunchRefines ==
  ASSUME Types, Launch
  PROVE  Group!Next
<1>1. PICK r \in Ranks :
        /\ proc[r].status = "absent" /\ proc' = [proc EXCEPT ![r].status = "running"]
        /\ Moves(IF r = 0 THEN "wait" ELSE "launch")
  BY DEF Launch, Waiting
<1>2. launcher = "launch" /\ launcher' \in {"launch", "wait"}
  BY <1>1 DEF Launch, Is, Moves
<1>3. proc'[r].status = "running" /\ \A q \in Ranks \ {r} : proc'[q].status = proc[q].status
  BY <1>1 DEF Types, Process
<1>4. Outcome(proc[r].status) = "idle" /\ Outcome(proc'[r].status) = "running"
  BY <1>1, <1>3 DEF Outcome
<1>5. [q \in Ranks |-> Outcome(proc[q].status)]'
        = [[q \in Ranks |-> Outcome(proc[q].status)] EXCEPT ![r] = "running"]
  BY <1>3, <1>4
<1>6. Group!Starts(r)
  BY <1>2, <1>4, <1>5 DEF Group!Starts
<1> QED BY <1>6 DEF Group!Next

LEMMA CollectRefines ==
  ASSUME Inv, Collect
  PROVE  Group!Next
<1>1. /\ launcher = "collect" /\ launcher' = "judge" /\ NobodyRuns
      /\ UNCHANGED <<completed, proc>> /\ completed \in BOOLEAN
  BY DEF Collect, GroupGone, Is, Moves, Inv, Types
<1>2. \A r \in Ranks : proc[r].status \in Statuses /\ proc[r].status # "running"
  BY <1>1 DEF Inv, Types, Process, Statuses, NobodyRuns, Running
<1>3. CASE completed
  <2>1. \A r \in Ranks : Outcome(proc[r].status) = "succeeded"
    BY <1>3, OutcomeOf DEF Inv, Launcher, AllSucceeded, Outcome
  <2>2. Group!Completed
    BY <1>1, <1>3, <2>1 DEF Group!Completed
  <2> QED BY <2>2 DEF Group!Next
<1>4. CASE ~completed
  <2>1. \A r \in Ranks : Outcome(proc[r].status) # "running"
    BY <1>2, OutcomeOf
  <2>2. Group!Failed
    BY <1>1, <1>4, <2>1 DEF Group!Failed, Group!NobodyRuns
  <2> QED BY <2>2 DEF Group!Next
<1> QED BY <1>3, <1>4

\* A verdict changes no process and nothing of the judgement.
LEMMA EndRefines ==
  ASSUME NEW v, End(v)
  PROVE  UNCHANGED Group!verdictVars
BY GroupStutters DEF End, Judgement

LEMMA LauncherRefines ==
  ASSUME Inv, LauncherStep \/ LaunchFails \/ LauncherDies
  PROVE  [Group!Next]_(Group!verdictVars)
<1>1. CASE Launch \/ Collect
  BY <1>1, LaunchRefines, CollectRefines DEF Inv
<1>2. CASE SeeSuccess
  BY <1>2, GroupStutters DEF SeeSuccess, Is, Judgement
<1>3. ASSUME NEW signal, Signalled(signal), launcher \in {"wait", "grace"},
             launcher' \in {"grace", "collect"}
      PROVE  UNCHANGED Group!verdictVars
  <2>1. \A r \in Ranks : proc'[r].status = proc[r].status
    BY <1>3 DEF Inv, Types, Process, Signalled
  <2> QED BY <1>3, <2>1, GroupStutters DEF Judgement
<1>4. CASE SeeFailure \/ Deadline \/ EndGrace
  BY <1>3, <1>4 DEF SeeFailure, Deadline, DeadlinePasses, EndGrace, Terminate, Is, Moves
<1>5. CASE LaunchFails \/ LauncherDies \/ CollectTimesOut
  BY <1>5, EndRefines DEF LaunchFails, LauncherDies, CollectTimesOut
<1>6. CASE JudgePeerFailure \/ JudgeFailedGroup \/ RejectRecords \/ Gate \/ JudgeFailedSegment
           \/ JudgeInjected
  BY <1>6, EndRefines DEF JudgePeerFailure, JudgeFailedGroup, RejectRecords, Gate,
                          JudgeFailedSegment, JudgeInjected
<1>7. CASE JudgeSegment
  <2>1. CASE Verified
    <3>1. launcher = "judge" /\ proc' = [r \in Ranks |-> NotStarted] /\ launcher' = "launch"
      BY <1>7, <2>1 DEF JudgeSegment, Is
    <3>2. Group!Begin
      BY <3>1, FreshRefines DEF Inv, Launcher
    <3> QED BY <3>2 DEF Group!Next
  <2>2. CASE ~Verified
    BY <1>7, <2>2, EndRefines DEF JudgeSegment
  <2> QED BY <2>1, <2>2
<1> QED BY <1>1, <1>2, <1>4, <1>5, <1>6, <1>7 DEF LauncherStep

\* wait_group() and main(), with every rank, signal, deadline and crash, keep what their
\* callers rely on: a group is called completed only if all its processes succeeded, and
\* judged only when none runs.
THEOREM ImplementsVerdict == Spec => RefinesVerdict
<1>1. Init => Group!Init
  <2> SUFFICES ASSUME Init PROVE Group!Init
    OBVIOUS
  <2>1. \A r \in Ranks : Outcome(proc[r].status) = "idle"
    BY DEF Init, NotStarted, Outcome
  <2> QED BY <2>1 DEF Init, Group!Init
<1>2. Inv /\ [Next]_vars => [Group!Next]_(Group!verdictVars)
  <2>1. ASSUME Inv, UNCHANGED vars PROVE UNCHANGED Group!verdictVars
    BY <2>1, GroupStutters DEF vars, launcherVars, Judgement
  <2>2. ASSUME Inv, Start PROVE Group!Next
    <3>1. NobodyRuns /\ proc' = [r \in Ranks |-> NotStarted] /\ launcher' = "launch"
      BY <2>2 DEF Start, Begin
    <3>2. Group!Begin
      BY <2>2, <3>1, FreshRefines DEF Inv
    <3> QED BY <3>2 DEF Group!Next
  <2>3. ASSUME Inv, RankZeroStep PROVE [Group!Next]_(Group!verdictVars)
    BY <2>3, RankRefines, Numbers DEF Inv
  <2>4. ASSUME Inv, NEW r \in Ranks, RankStep(r) \/ Throw(r) \/ Crash(r)
        PROVE  [Group!Next]_(Group!verdictVars)
    BY <2>4, RankRefines DEF Inv
  <2> QED BY <2>1, <2>2, <2>3, <2>4, LauncherRefines DEF Next
<1> QED BY <1>1, <1>2, InvHolds, PTL DEF Spec, RefinesVerdict, Group!VerdictSpec

-----------------------------------------------------------------------------
(* The launcher gets on.  That it reaches a verdict (LauncherEnds) is a     *)
(* matter of fairness and stays with TLC; these are the two facts the       *)
(* argument rests on: whatever its ranks do, its next step has nothing to   *)
(* wait for, and every step brings it closer to the verdict.                *)

\* When the guards of the launcher's actions hold.
CanLaunch == \E r \in Waiting : \A q \in Waiting : q <= r
CanWait == AllSucceeded \/ SomeFailed \/ DeadlinePasses
CanCollect == GroupGone \/ ~NobodyRuns
CanJudge ==
  \/ run.mode = "peer-failure"
  \/ run.mode \notin {"peer-failure", "checkpoint"} /\ (~completed \/ Trained)
  \/ run.mode = "checkpoint" /\ group # "failure" /\ completed
  \/ run.mode = "checkpoint" /\ group # "failure" /\ ~completed
  \/ run.mode = "checkpoint" /\ group = "failure"
CanGoOn ==
  \/ Is("launch") /\ CanLaunch
  \/ Is("wait") /\ CanWait
  \/ Is("grace")
  \/ Is("collect") /\ CanCollect
  \/ Is("judge") /\ CanJudge
LauncherMoves == attempt > 0 /\ verdict = "none" => CanGoOn

\* An attempt has begun to launch, and rank 0 is the last one it starts.
LauncherFollows ==
  /\ attempt > 0 => launcher # "idle"
  /\ launcher = "launch" /\ verdict = "none" /\ attempt > 0 => 0 \in Waiting

\* Of the ranks that wait there is a greatest.
LEMMA GreatestWaiting == Waiting # {} => CanLaunch
<1> SUFFICES ASSUME Waiting # {} PROVE CanLaunch
  OBVIOUS
<1> DEFINE Behind == {Last - r : r \in Waiting}
<1>1. WorldSize \in Nat /\ Last \in Nat /\ \A r \in Waiting : r \in Nat /\ Last - r \in Nat
  BY Numbers DEF Waiting, Ranks, Last
<1>2. Behind \subseteq Nat /\ Behind # {}
  BY <1>1
<1>3. PICK d \in Behind : \A e \in Behind : ~ (<<e, d>> \in OpToRel(<, Nat))
  BY <1>2, NatLessThanWellFounded, WFMin
<1>4. PICK r \in Waiting : d = Last - r
  OBVIOUS
<1>5. ASSUME NEW q \in Waiting PROVE q <= r
  <2>1. Last - q \in Behind /\ Last - q \in Nat /\ d \in Nat
    BY <1>1, <1>2
  <2>2. ~ (<<Last - q, d>> \in OpToRel(<, Nat))
    BY <1>3, <2>1
  <2>3. ~ (Last - q < d)
    BY <2>1, <2>2 DEF OpToRel
  <2>4. q \in Nat /\ r \in Nat /\ Last \in Nat
    BY <1>1
  <2> QED BY <1>4, <2>3, <2>4
<1> QED BY <1>5 DEF CanLaunch

LEMMA LauncherGuards == Inv /\ LauncherFollows => LauncherMoves
<1> SUFFICES ASSUME Inv, LauncherFollows, attempt > 0, verdict = "none" PROVE CanGoOn
  BY DEF LauncherMoves
<1>1. launcher \in {"launch", "wait", "grace", "collect", "judge"} /\ Is(launcher)
  BY DEF Inv, Types, LauncherFollows, Is
<1>2. CASE launcher = "launch"
  BY <1>1, <1>2, GreatestWaiting DEF LauncherFollows, CanGoOn
<1>3. CASE launcher = "wait"
  BY <1>1, <1>3 DEF CanGoOn, CanWait, DeadlinePasses
<1>4. CASE launcher = "collect"
  BY <1>1, <1>4 DEF CanGoOn, CanCollect, GroupGone
<1>5. CASE launcher = "judge"
  <2>1. Is("judge")
    BY <1>1, <1>5
  <2> QED BY <2>1 DEF CanGoOn, CanJudge, Trained
<1>6. CASE launcher = "grace"
  BY <1>1, <1>6 DEF CanGoOn
<1> QED BY <1>1, <1>2, <1>3, <1>4, <1>5, <1>6

LEMMA AllWait ==
  ASSUME proc' = [r \in Ranks |-> NotStarted]
  PROVE  0 \in Waiting'
<1>1. proc'[0].status = "absent"
  BY Numbers DEF NotStarted
<1> QED BY <1>1, Numbers DEF Waiting

\* A rank that runs was started and does not become one that was not.
LEMMA RanksKeepWaiting ==
  ASSUME Types, NEW r \in Ranks, RankStep(r) \/ Throw(r) \/ Crash(r) \/ (r = 0 /\ RankZeroStep)
  PROVE  Waiting' = Waiting /\ UNCHANGED launcherVars
<1>1. \A q \in Ranks : proc'[q].status = "absent" <=> proc[q].status = "absent"
  BY RankStatus DEF Running
<1> QED BY <1>1, RankStatus DEF Waiting

\* What a launcher's step does to the ranks that wait.
LEMMA LaunchTakesOne ==
  ASSUME Types, Launch
  PROVE  \E r \in Waiting : /\ \A q \in Waiting : q <= r
                            /\ Waiting' = Waiting \ {r}
                            /\ Moves(IF r = 0 THEN "wait" ELSE "launch")
<1>1. PICK r \in Waiting :
        /\ \A q \in Waiting : q <= r
        /\ proc' = [proc EXCEPT ![r].status = "running"]
        /\ Moves(IF r = 0 THEN "wait" ELSE "launch")
  BY DEF Launch
<1>2. r \in Ranks /\ proc'[r].status = "running" /\ \A q \in Ranks \ {r} : proc'[q] = proc[q]
  BY <1>1 DEF Types, Process, Waiting
<1>3. Waiting' = Waiting \ {r}
  BY <1>2 DEF Waiting
<1> QED BY <1>1, <1>3

LEMMA FollowsKept == ASSUME Inv, LauncherFollows, [Next]_vars PROVE LauncherFollows'
<1>1. CASE UNCHANGED vars
  BY <1>1 DEF vars, launcherVars, LauncherFollows, Waiting
<1>2. CASE Start
  BY <1>2, AllWait DEF Start, Begin, LauncherFollows
<1>3. CASE Launch
  <2>1. PICK r \in Waiting : /\ \A q \in Waiting : q <= r /\ Waiting' = Waiting \ {r}
                             /\ Moves(IF r = 0 THEN "wait" ELSE "launch")
    BY <1>3, LaunchTakesOne DEF Inv
  <2>2. 0 \in Waiting
    BY <1>3 DEF Launch, Is, LauncherFollows
  <2>3. Waiting' = Waiting \ {r}
    BY <2>1, <2>2
  <2> QED BY <2>1, <2>2, <2>3 DEF Moves, LauncherFollows
<1>4. CASE SeeSuccess \/ SeeFailure \/ Deadline \/ EndGrace \/ Collect
  BY <1>4 DEF SeeSuccess, SeeFailure, Deadline, Terminate, EndGrace, Collect, Moves, LauncherFollows
<1>5. CASE LaunchFails \/ LauncherDies \/ CollectTimesOut
  BY <1>5 DEF LaunchFails, LauncherDies, CollectTimesOut, End, LauncherFollows
<1>6. CASE JudgePeerFailure \/ JudgeFailedGroup \/ RejectRecords \/ Gate \/ JudgeFailedSegment
           \/ JudgeInjected
  BY <1>6 DEF JudgePeerFailure, JudgeFailedGroup, RejectRecords, Gate, Trained,
              JudgeFailedSegment, JudgeInjected, End, Is, LauncherFollows
<1>7. CASE JudgeSegment
  <2>1. CASE Verified
    BY <1>7, <2>1, AllWait DEF JudgeSegment, LauncherFollows
  <2>2. CASE ~Verified
    BY <1>7, <2>2 DEF JudgeSegment, End, Is, LauncherFollows
  <2> QED BY <2>1, <2>2
<1>8. ASSUME NEW r \in Ranks, RankStep(r) \/ Throw(r) \/ Crash(r) \/ (r = 0 /\ RankZeroStep)
      PROVE  LauncherFollows'
  BY <1>8, RanksKeepWaiting DEF Inv, launcherVars, LauncherFollows
<1>9. CASE RankZeroStep
  BY <1>8, <1>9, Numbers
<1> QED BY <1>1, <1>2, <1>3, <1>4, <1>5, <1>6, <1>7, <1>8, <1>9 DEF Next, LauncherStep

LEMMA FollowsHolds == Spec => []LauncherFollows
<1>1. Init => LauncherFollows
  BY DEF Init, LauncherFollows
<1>2. Inv /\ LauncherFollows /\ [Next]_vars => LauncherFollows'
  BY FollowsKept
<1> QED BY <1>1, <1>2, InvHolds, PTL DEF Spec

-----------------------------------------------------------------------------
(* How far an attempt is from its verdict: the groups it has yet to judge,  *)
(* where it is with the group at hand, and the ranks it has yet to start.   *)

GroupsLeft == [first |-> 4, resumed |-> 3, uninterrupted |-> 2, failure |-> 1, train |-> 1]
PhasesLeft ==
  [idle |-> 6, launch |-> 5, wait |-> 4, grace |-> 3, collect |-> 2, judge |-> 1]
StagesLeft == IF verdict = "none" THEN 7 * GroupsLeft[group] + PhasesLeft[launcher] ELSE 0
Distance == <<StagesLeft, Cardinality(Waiting)>>

Smaller == OpToRel(<, Nat)
Shorter == LexPairOrdering(Smaller, Smaller, Nat, Nat)
Nearer == <<Distance', Distance>> \in Shorter
OnlyForward ==
  /\ LauncherStep \/ LaunchFails \/ LauncherDies => Nearer
  /\ attempt' = attempt => Nearer \/ Distance' = Distance

Measured ==
  /\ StagesLeft \in Nat /\ Distance \in Nat \X Nat
  /\ GroupsLeft[group] \in 1 .. 4 /\ PhasesLeft[launcher] \in 1 .. 6
  /\ IsFiniteSet(Waiting) /\ Cardinality(Waiting) \in Nat

LEMMA DistanceTypes == Types => Measured
<1> SUFFICES ASSUME Types PROVE Measured
  OBVIOUS
<1>1. GroupsLeft[group] \in 1 .. 4
  BY DEF Types, Groups, GroupsLeft
<1>2. PhasesLeft[launcher] \in 1 .. 6
  BY DEF Types, PhasesLeft
<1>3. StagesLeft \in Nat
  BY <1>1, <1>2 DEF StagesLeft
<1>4. IsFiniteSet(Ranks)
  BY Numbers, FS_Interval DEF Ranks
<1>5. IsFiniteSet(Waiting)
  BY <1>4, FS_Subset DEF Waiting
<1>6. Cardinality(Waiting) \in Nat
  BY <1>5, FS_CardinalityType
<1> QED BY <1>1, <1>2, <1>3, <1>5, <1>6 DEF Measured, Distance

LEMMA NearerIs ==
  ASSUME Measured, Measured',
         \/ StagesLeft' < StagesLeft
         \/ StagesLeft' = StagesLeft /\ Cardinality(Waiting)' < Cardinality(Waiting)
  PROVE  Nearer
BY DEF Measured, Distance, Nearer, Shorter, Smaller, LexPairOrdering, OpToRel

\* With the same group, the phases count.
LEMMA PhaseEnds ==
  ASSUME Measured, Measured', verdict = "none", UNCHANGED <<group, verdict>>,
         PhasesLeft[launcher'] < PhasesLeft[launcher]
  PROVE  Nearer
<1> DEFINE n == GroupsLeft[group]
           a == PhasesLeft[launcher]
           b == PhasesLeft[launcher']
<1>1. n \in Nat /\ a \in Nat /\ b \in Nat /\ b < a
  BY DEF Measured
<1>2. StagesLeft = 7 * n + a /\ StagesLeft' = 7 * n + b
  BY DEF StagesLeft
<1> HIDE DEF n, a, b
<1>3. StagesLeft' < StagesLeft
  BY <1>1, <1>2
<1> QED BY <1>3, NearerIs

LEMMA VerdictEnds ==
  ASSUME Measured, Measured', verdict = "none", verdict' # "none"
  PROVE  Nearer
<1> DEFINE n == GroupsLeft[group]
           a == PhasesLeft[launcher]
<1>1. n \in Nat /\ a \in Nat /\ a >= 1
  BY DEF Measured
<1>2. StagesLeft = 7 * n + a /\ StagesLeft' = 0
  BY DEF StagesLeft
<1> HIDE DEF n, a
<1>3. StagesLeft' < StagesLeft
  BY <1>1, <1>2
<1> QED BY <1>3, NearerIs

LEMMA NextGroupBegins ==
  ASSUME Measured, Measured', verdict = "none", UNCHANGED verdict,
         GroupsLeft[group'] < GroupsLeft[group]
  PROVE  Nearer
<1> DEFINE n == GroupsLeft[group]
           m == GroupsLeft[group']
           a == PhasesLeft[launcher]
           b == PhasesLeft[launcher']
<1>1. n \in Nat /\ m \in Nat /\ a \in 1 .. 6 /\ b \in 1 .. 6 /\ m < n
  BY DEF Measured
<1>2. StagesLeft = 7 * n + a /\ StagesLeft' = 7 * m + b
  BY DEF StagesLeft
<1> HIDE DEF n, m, a, b
<1>3. StagesLeft' < StagesLeft
  BY <1>1, <1>2
<1> QED BY <1>3, NearerIs

LEMMA LauncherCounts ==
  ASSUME Inv, Measured, Measured', LauncherStep \/ LaunchFails \/ LauncherDies
  PROVE  Nearer /\ attempt' = attempt
<1>1. CASE Launch
  <2>1. PICK r \in Waiting : /\ Waiting' = Waiting \ {r}
                             /\ Moves(IF r = 0 THEN "wait" ELSE "launch")
    BY <1>1, LaunchTakesOne DEF Inv
  <2>2. verdict = "none" /\ launcher = "launch" /\ UNCHANGED <<attempt, group, verdict>>
    BY <1>1, <2>1 DEF Launch, Is, Moves
  <2>3. CASE r = 0
    <3>1. PhasesLeft[launcher'] < PhasesLeft[launcher]
      BY <2>1, <2>2, <2>3 DEF Moves, PhasesLeft
    <3> QED BY <2>2, <3>1, PhaseEnds
  <2>4. CASE r # 0
    <3>1. StagesLeft' = StagesLeft
      BY <2>1, <2>2, <2>4 DEF Moves, StagesLeft
    <3>2. IsFiniteSet(Waiting) /\ Cardinality(Waiting) \in Nat
      BY DEF Measured
    <3>3. Cardinality(Waiting') = Cardinality(Waiting) - 1
      BY <2>1, <3>2, FS_RemoveElement
    <3>4. Cardinality(Waiting)' < Cardinality(Waiting)
      BY <3>2, <3>3
    <3> QED BY <2>2, <3>1, <3>4, NearerIs
  <2> QED BY <2>3, <2>4
<1>2. CASE SeeSuccess \/ SeeFailure \/ Deadline \/ EndGrace \/ Collect
  <2>1. verdict = "none" /\ UNCHANGED <<attempt, group, verdict>>
    BY <1>2 DEF SeeSuccess, SeeFailure, Deadline, DeadlinePasses, Terminate, EndGrace, Collect,
                Moves, Is
  <2>2. PhasesLeft[launcher'] < PhasesLeft[launcher]
    BY <1>2 DEF SeeSuccess, SeeFailure, Deadline, DeadlinePasses, Terminate, EndGrace, Collect,
                Moves, Is, PhasesLeft
  <2> QED BY <2>1, <2>2, PhaseEnds
<1>3. CASE LaunchFails \/ LauncherDies \/ CollectTimesOut
  <2>1. verdict = "none" /\ verdict' # "none" /\ attempt' = attempt
    BY <1>3 DEF LaunchFails, LauncherDies, CollectTimesOut, End, Is
  <2> QED BY <2>1, VerdictEnds
<1>4. CASE JudgePeerFailure \/ JudgeFailedGroup \/ RejectRecords \/ Gate \/ JudgeFailedSegment
           \/ JudgeInjected
  <2>1. verdict = "none" /\ verdict' # "none" /\ attempt' = attempt
    BY <1>4 DEF JudgePeerFailure, JudgeFailedGroup, RejectRecords, Gate, Trained,
                JudgeFailedSegment, JudgeInjected, End, Is
  <2> QED BY <2>1, VerdictEnds
<1>5. CASE JudgeSegment
  <2>1. CASE Verified
    <3>1. /\ group \in {"first", "resumed", "uninterrupted"} /\ group' = NextGroup[group]
          /\ verdict = "none" /\ UNCHANGED <<attempt, verdict>>
      BY <1>5, <2>1 DEF JudgeSegment, Is, Inv, Types, Groups, Launcher
    <3>2. GroupsLeft[group'] < GroupsLeft[group]
      BY <3>1 DEF NextGroup, GroupsLeft
    <3> QED BY <3>1, <3>2, NextGroupBegins
  <2>2. CASE ~Verified
    <3>1. verdict = "none" /\ verdict' # "none" /\ attempt' = attempt
      BY <1>5, <2>2 DEF JudgeSegment, End, Is
    <3> QED BY <3>1, VerdictEnds
  <2> QED BY <2>1, <2>2
<1> QED BY <1>1, <1>2, <1>3, <1>4, <1>5 DEF LauncherStep

LEMMA StepsCount == ASSUME Inv, Measured, Measured', [Next]_vars PROVE OnlyForward
<1>1. ASSUME LauncherStep \/ LaunchFails \/ LauncherDies PROVE Nearer
  BY <1>1, LauncherCounts
<1>2. ASSUME attempt' = attempt PROVE Nearer \/ Distance' = Distance
  <2>1. CASE UNCHANGED vars
    BY <2>1 DEF vars, launcherVars, Distance, StagesLeft, Waiting
  <2>2. CASE Start
    <3>1. attempt' = attempt + 1 /\ attempt \in Nat
      BY <2>2 DEF Start, Begin, Inv, Types
    <3> QED BY <1>2, <3>1
  <2>3. ASSUME NEW r \in Ranks, RankStep(r) \/ Throw(r) \/ Crash(r) \/ (r = 0 /\ RankZeroStep)
        PROVE  Distance' = Distance
    <3>1. Waiting' = Waiting /\ UNCHANGED launcherVars
      BY <2>3, RanksKeepWaiting DEF Inv
    <3> QED BY <3>1 DEF launcherVars, Distance, StagesLeft
  <2>4. CASE RankZeroStep
    BY <2>3, <2>4, Numbers
  <2> QED BY <1>1, <2>1, <2>2, <2>3, <2>4 DEF Next
<1> QED BY <1>1, <1>2 DEF OnlyForward

\* In every attempt without a verdict the guard of one of the launcher's actions holds, and
\* each of its steps brings the attempt nearer to the verdict, by an order in which nothing
\* comes nearer for ever, while no rank that hangs, throws or dies takes it further away:
\* no process and no pipe that nobody reads keeps wait_group() or main() forever.
THEOREM LauncherGetsOn ==
  /\ IsWellFoundedOn(Shorter, Nat \X Nat)
  /\ Spec => [](LauncherMoves /\ Distance \in Nat \X Nat)
  /\ Spec => [][OnlyForward]_vars
<1>1. IsWellFoundedOn(Shorter, Nat \X Nat)
  <2>1. IsWellFoundedOn(Smaller, Nat)
    BY NatLessThanWellFounded DEF Smaller
  <2> QED BY <2>1, WFLexPairOrdering DEF Shorter
<1>2. Inv => Measured
  BY DistanceTypes DEF Inv
<1>3. Inv /\ LauncherFollows => LauncherMoves /\ Distance \in Nat \X Nat
  BY <1>2, LauncherGuards DEF Measured
<1>4. Spec => [](LauncherMoves /\ Distance \in Nat \X Nat)
  BY <1>3, InvHolds, FollowsHolds, PTL
<1>5. Inv' => Measured'
  BY <1>2, PTL
<1>6. Inv /\ [Next]_vars => OnlyForward
  BY <1>2, <1>5, StepInv, StepsCount
<1>7. Spec => [][OnlyForward]_vars
  BY <1>6, InvHolds, PTL DEF Spec
<1> QED BY <1>1, <1>4, <1>7
=============================================================================
