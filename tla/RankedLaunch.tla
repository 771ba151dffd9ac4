---------------------------- MODULE RankedLaunch ----------------------------
(***************************************************************************)
(* The launchers of rank-per-process training and the processes they       *)
(* start, which meet only through files, collectives and signals.          *)
(*                                                                         *)
(* A user starts attempts in one output directory, one after another.      *)
(* run_ranked.py runs one group of ranks, run_ranked_checkpoint.py four:   *)
(* a first segment that ends with a checkpoint, one that resumes from it,  *)
(* one that is not interrupted, and one whose rank 0 fails to write.  Any  *)
(* process may fail at any point, the launcher included, and any wait may  *)
(* reach its deadline.                                                     *)
(***************************************************************************)
EXTENDS Integers, Sequences, FiniteSets

CONSTANTS WorldSize,      \* ranks of a group
          Modes,          \* "checkpoint", or run_ranked.py's --failure-mode
          FirstSteps, ResumedSteps,
          MaxAttempts,    \* bound: attempts in one directory
          MaxFailures     \* bound: calls and processes that fail

AllModes == {"checkpoint", "none", "peer-failure", "group-init", "uneven-input"}

ASSUME LaunchAssumption ==
  /\ WorldSize \in Nat \ {0, 1}
  /\ Modes \subseteq AllModes
  /\ "checkpoint" \in Modes => WorldSize = 2
  /\ FirstSteps \in Nat \ {0} /\ ResumedSteps \in Nat \ {0}
  /\ MaxAttempts \in Nat /\ MaxFailures \in Nat

Ranks == 0 .. WorldSize - 1
Last == WorldSize - 1
Groups == {"first", "resumed", "uninterrupted", "failure", "train"}

VARIABLES
  run,        \* the attempt's options: its mode, whether a rank's record fits into
              \* the pipe, and --retain-consensus-parameter-file
  attempt,    \* how many attempts were started
  launcher,   \* where main() is
  group,      \* the group at hand
  completed,  \* wait_group()'s two results
  terminated,
  verdict,    \* how the attempt ended
  proc,       \* the processes of the group
  files,      \* the output directory
  failures,
  timedOut    \* some deadline passed

launcherVars == <<run, attempt, launcher, group, completed, terminated, verdict>>
vars == <<launcherVars, proc, files, failures, timedOut>>

\* A file has a kind, the group and the rank in its path, and what it holds: the attempt
\* and the group that wrote it, and the training step.
File == [kind : {"id", "id.tmp", "ckpt", "ckpt.tmp", "ready", "ready.tmp", "params"},
         of : Groups, rank : Ranks, by : Nat \X Groups, step : Nat]
NoFile == [kind |-> "none"]

NotStarted == [at |-> "start", status |-> "absent", signal |-> "none", id |-> NoFile,
               step |-> 0, loaded |-> NoFile, passed |-> 0, error |-> "none"]

Init ==
  /\ run = [mode |-> "none", fits |-> TRUE, retain |-> FALSE]
  /\ attempt = 0 /\ launcher = "idle" /\ group = "train"
  /\ completed = FALSE /\ terminated = 0 /\ verdict = "none"
  /\ proc = [r \in Ranks |-> NotStarted]
  /\ files = {}
  /\ failures = 0 /\ timedOut = FALSE

-----------------------------------------------------------------------------
(* Files.                                                                  *)

Made(kind, of, r, s) ==
  [kind |-> kind, of |-> of, rank |-> r, by |-> <<attempt, group>>, step |-> s]
Without(kinds, of, r) == {f \in files : f.kind \notin kinds \/ f.of # of \/ f.rank # r}
Found(kind, of) == {f \in files : f.kind = kind /\ f.of = of}
Written(f) == Without({f.kind}, f.of, f.rank) \cup {f}
\* What was written under the temporary name replaces the file.
Renamed(temporary, kind, of) ==
  Without({temporary, kind}, of, 0) \cup {[f EXCEPT !.kind = kind] : f \in Found(temporary, of)}

-----------------------------------------------------------------------------
(* A rank: run_rank().                                                     *)

Running(r) == proc[r].status = "running"
At(r, where) == Running(r) /\ proc[r].at = where
Goto(r, where) == proc' = [proc EXCEPT ![r].at = where]
Exits(r, status, why) == proc' = [proc EXCEPT ![r].status = status, ![r].error = why]
RankOnly == UNCHANGED <<launcherVars, failures, timedOut>>

\* Mutant: --steps of a resumed group counts from the start of the trajectory.
StepsInAll(g) == IF g = "first" THEN FirstSteps ELSE FirstSteps + ResumedSteps
Steps(g) == CASE g = "resumed" -> ResumedSteps
              [] g = "uninterrupted" -> FirstSteps + ResumedSteps
              [] g = "failure" -> 1
              [] OTHER -> FirstSteps
WritesCheckpoint(g) == g # "train"

\* parse(): the rank of the peer that is to fail is out of range.
Parse(r) ==
  /\ At(r, "start")
  /\ IF run.mode = "peer-failure" /\ r = Last
     THEN Exits(r, "error", "arguments") ELSE Goto(r, "id")
  /\ UNCHANGED files /\ RankOnly

WriteId ==
  /\ At(0, "id")
  /\ files' = Written(Made("id.tmp", group, 0, 0))
  /\ proc' = [proc EXCEPT ![0].at = "publishId", ![0].id = Made("id", group, 0, 0)]
  /\ RankOnly

PublishId ==
  /\ At(0, "publishId")
  /\ files' = Renamed("id.tmp", "id", group)
  /\ Goto(0, "join") /\ RankOnly

WaitForId(r) ==
  /\ r # 0 /\ At(r, "id")
  /\ \E f \in Found("id", group) :
       proc' = [proc EXCEPT ![r].at = "join", ![r].id = f]
  /\ UNCHANGED files /\ RankOnly

\* A collective ends at a rank when every rank has come to it.
Collective(r, where, number) ==
  /\ At(r, where)
  /\ \A q \in Ranks : proc[q].passed >= number \/ At(q, where)
Passes(r, number, where) == proc' = [proc EXCEPT ![r].passed = number, ![r].at = where]

\* The communicator's ranks have one id.
Join(r) ==
  /\ Collective(r, "join", 1)
  /\ \A q \in Ranks : proc[q].id = proc[r].id
  /\ Passes(r, 1, "tokens")
  /\ UNCHANGED files /\ RankOnly

\* The average of the token counts; in equal-only mode no rank has the average of
\* uneven counts.
CountTokens(r) ==
  /\ Collective(r, "tokens", 2)
  /\ IF run.mode = "uneven-input"
     THEN proc' = [proc EXCEPT ![r].passed = 2, ![r].status = "error", ![r].error = "uneven"]
     ELSE Passes(r, 2, IF group = "resumed" THEN "restore" ELSE "train")
  /\ UNCHANGED files /\ RankOnly

\* --resume-file
Restore(r) ==
  /\ At(r, "restore")
  /\ LET saved == Found("ckpt", "first")
     IN IF saved = {} THEN Exits(r, "error", "other")
        ELSE \E f \in saved :
               proc' = [proc EXCEPT ![r].at = "train", ![r].step = f.step, ![r].loaded = f]
  /\ UNCHANGED files /\ RankOnly

Train(r) ==
  /\ Collective(r, "train", 3)
  /\ proc' = [proc EXCEPT ![r].passed = 3, ![r].step = @ + Steps(group),
                          ![r].at = IF WritesCheckpoint(group) THEN "barrier" ELSE "params"]
  /\ UNCHANGED files /\ RankOnly

\* The barrier before the checkpoint; --inject-checkpoint-failure throws behind it.
Barrier(r) ==
  /\ Collective(r, "barrier", 4)
  /\ IF r # 0 THEN Passes(r, 4, "ready")
     ELSE IF group # "failure" THEN Passes(r, 4, "save")
     ELSE proc' = [proc EXCEPT ![r].passed = 4, ![r].status = "error", ![r].error = "other"]
  /\ UNCHANGED files /\ RankOnly

\* save_checkpoint()
SaveTemporary ==
  /\ At(0, "save")
  /\ files' = Written(Made("ckpt.tmp", group, 0, proc[0].step))
  /\ Goto(0, "rename") /\ RankOnly

\* Mutant: the ready file is published before the checkpoint has its name.
AnnounceFirst == At(0, "save")
SaveFinished == At(0, "announce")

SaveRename ==
  /\ At(0, "rename")
  /\ files' = Renamed("ckpt.tmp", "ckpt", group)
  /\ Goto(0, "announce") /\ RankOnly

\* publish_checkpoint_ready()
Announce ==
  /\ SaveFinished
  /\ files' = Written(Made("ready.tmp", group, 0, proc[0].step))
  /\ Goto(0, "publish") /\ RankOnly

Publish ==
  /\ At(0, "publish")
  /\ files' = Renamed("ready.tmp", "ready", group)
  /\ Goto(0, "verify") /\ RankOnly

WaitForReady(r) ==
  /\ At(r, "ready")
  /\ \E f \in Found("ready", group) : f.step = proc[r].step
  /\ Goto(r, "verify")
  /\ UNCHANGED files /\ RankOnly

\* Every rank loads the published checkpoint and compares its steps.
Verify(r) ==
  /\ At(r, "verify")
  /\ LET published == {f \in Found("ckpt", group) : f.step = proc[r].step}
     IN IF published = {} THEN Exits(r, "error", "other")
        ELSE \E f \in published : proc' = [proc EXCEPT ![r].at = "params", ![r].loaded = f]
  /\ UNCHANGED files /\ RankOnly

SaveParameters(r) ==
  /\ At(r, "params")
  /\ files' = Written(Made("params", group, r, proc[r].step))
  /\ Goto(r, "report") /\ RankOnly

\* write_result() to a pipe nobody reads before the group has ended.
Report(r) ==
  /\ At(r, "report") /\ run.fits
  /\ Exits(r, "ok", "none")
  /\ UNCHANGED files /\ RankOnly

\* wait_for_id() and wait_for_checkpoint_ready() give up.
RankDeadline(r) ==
  /\ r # 0 /\ (At(r, "id") \/ At(r, "ready"))
  /\ Exits(r, "error", "other")
  /\ timedOut' = TRUE
  /\ UNCHANGED <<launcherVars, files, failures>>

\* An exception; save_checkpoint() removes its temporary file.
Throw(r) ==
  /\ Running(r) /\ failures < MaxFailures
  /\ failures' = failures + 1
  /\ Exits(r, "error", IF proc[r].at = "join" THEN "system" ELSE "other")
  /\ files' = IF proc[r].at = "rename" THEN Without({"ckpt.tmp"}, group, 0) ELSE files
  /\ UNCHANGED <<launcherVars, timedOut>>

Crash(r) ==
  /\ Running(r) /\ failures < MaxFailures
  /\ failures' = failures + 1
  /\ Exits(r, "crashed", "none")
  /\ UNCHANGED <<launcherVars, files, timedOut>>

\* A signal takes its time.
Dies(r) ==
  /\ Running(r) /\ proc[r].signal # "none"
  /\ Exits(r, proc[r].signal, "none")
  /\ UNCHANGED files /\ RankOnly

RankStep(r) ==
  \/ Parse(r) \/ WaitForId(r) \/ Join(r) \/ CountTokens(r) \/ Restore(r) \/ Train(r)
  \/ Barrier(r) \/ WaitForReady(r) \/ Verify(r) \/ SaveParameters(r) \/ Report(r)
  \/ RankDeadline(r) \/ Dies(r)
RankZeroStep ==
  \/ WriteId \/ PublishId \/ SaveTemporary \/ SaveRename \/ Announce \/ Publish

-----------------------------------------------------------------------------
(* The launcher: main(), until the attempt has its verdict.                *)

NobodyRuns == \A r \in Ranks : ~Running(r)
Alive == {r \in Ranks : Running(r)}
Is(where) == attempt > 0 /\ verdict = "none" /\ launcher = where
Moves(where) ==
  /\ launcher' = where
  /\ UNCHANGED <<run, attempt, group, completed, terminated, verdict>>
End(v) ==
  /\ verdict' = v
  /\ UNCHANGED <<run, attempt, launcher, group, completed, terminated, proc>>
CountsFailure == failures < MaxFailures /\ failures' = failures + 1

\* Mutant: --overwrite writes into the directory as it is.
KeptDirectory == files
Wiped == {}

\* Somebody starts an attempt; no process of the one before is left.  After the first
\* the directory is never empty.
Begin(m, fits, retain, overwrite) ==
  /\ attempt < MaxAttempts /\ (attempt > 0 => verdict # "none") /\ NobodyRuns
  /\ attempt' = attempt + 1
  /\ run' = [mode |-> m, fits |-> fits, retain |-> retain]
  /\ launcher' = "launch" /\ group' = IF m = "checkpoint" THEN "first" ELSE "train"
  /\ completed' = FALSE /\ terminated' = 0
  /\ proc' = [r \in Ranks |-> NotStarted]
  /\ timedOut' = FALSE
  /\ IF attempt > 0 /\ ~overwrite
     THEN verdict' = "refused" /\ UNCHANGED files
     ELSE verdict' = "none" /\ files' = IF overwrite THEN Wiped ELSE files
  /\ UNCHANGED failures

\* The last rank is started first and rank 0 last.
Waiting == {r \in Ranks : proc[r].status = "absent"}
Launch ==
  /\ Is("launch")
  /\ \E r \in Waiting :
       /\ \A q \in Waiting : q <= r
       /\ proc' = [proc EXCEPT ![r].status = "running"]
       /\ Moves(IF r = 0 THEN "wait" ELSE "launch")
  /\ UNCHANGED <<files, failures, timedOut>>

\* Popen() fails; the processes that are running stay.
LaunchFails ==
  /\ Is("launch") /\ CountsFailure
  /\ End("aborted") /\ UNCHANGED <<files, timedOut>>

\* Mutant: a process that is still running passes for one that ended with 0.
NoneFailed == \A r \in Ranks : proc[r].status \in {"ok", "running"}
AllSucceeded == \A r \in Ranks : proc[r].status = "ok"
SomeFailed == \E r \in Ranks : proc[r].status \notin {"ok", "running"}

SeeSuccess ==
  /\ Is("wait") /\ AllSucceeded
  /\ completed' = TRUE /\ launcher' = "collect"
  /\ UNCHANGED <<run, attempt, group, terminated, verdict, proc, files, failures, timedOut>>

Signalled(signal) ==
  proc' = [r \in Ranks |-> IF Running(r) THEN [proc[r] EXCEPT !.signal = signal] ELSE proc[r]]

Terminate ==
  /\ Signalled("term")
  /\ terminated' = Cardinality(Alive) /\ launcher' = "grace"
  /\ UNCHANGED <<run, attempt, group, completed, verdict, files, failures>>

SeeFailure == Is("wait") /\ SomeFailed /\ Terminate /\ UNCHANGED timedOut

\* Mutant: every rank has deadlines of its own, and the group has none.
NoDeadline == FALSE
DeadlinePasses == Is("wait")

\* It may pass after the last poll saw a process run that has ended since.
Deadline == DeadlinePasses /\ Terminate /\ timedOut' = TRUE

EndGrace ==
  /\ Is("grace")
  /\ Signalled("kill")
  /\ Moves("collect") /\ UNCHANGED <<files, failures, timedOut>>

\* Mutant: the group is taken for gone when it was signalled.
GroupSignalled == TRUE
GroupGone == NobodyRuns

Collect ==
  /\ Is("collect") /\ GroupGone
  /\ files' = Without({"id"}, group, 0)
  /\ Moves("judge") /\ UNCHANGED <<proc, failures, timedOut>>

\* communicate(timeout=2) raises.
CollectTimesOut ==
  /\ Is("collect") /\ ~NobodyRuns
  /\ timedOut' = TRUE
  /\ End("aborted") /\ UNCHANGED <<files, failures>>

LauncherDies ==
  /\ attempt > 0 /\ verdict = "none" /\ CountsFailure
  /\ End("died") /\ UNCHANGED <<files, timedOut>>

-----------------------------------------------------------------------------
(* What main() makes of a group that has ended.                            *)

NoParameters == {f \in files : f.kind # "params"}

\* Mutant: every rank has to report the error, though a peer may be signalled first.
ReportedByAll(why) == \A r \in Ranks : proc[r].error = why
Reported(why) == \E r \in Ranks : proc[r].error = why

JudgePeerFailure ==
  /\ Is("judge") /\ run.mode = "peer-failure"
  /\ files' = NoParameters
  /\ End(IF completed \/ terminated < 1 \/ proc[Last].status = "ok" THEN "error" ELSE "pass")
  /\ UNCHANGED <<failures, timedOut>>

ExpectedError == [m \in {"uneven-input", "group-init"} |->
                    IF m = "uneven-input" THEN "uneven" ELSE "system"]
FailedAsExpected ==
  /\ run.mode \in DOMAIN ExpectedError
  /\ Reported(ExpectedError[run.mode])
  /\ \A r \in Ranks : proc[r].status # "ok"

JudgeFailedGroup ==
  /\ Is("judge") /\ run.mode \notin {"peer-failure", "checkpoint"} /\ ~completed
  /\ files' = NoParameters
  /\ End(IF FailedAsExpected THEN "pass" ELSE "error")
  /\ UNCHANGED <<failures, timedOut>>

Trained == Is("judge") /\ run.mode \notin {"peer-failure", "checkpoint"} /\ completed

\* The reference run fails, or one of the checks of the records raises: the parameter
\* files stay.
RejectRecords ==
  /\ Trained /\ CountsFailure
  /\ End("error") /\ UNCHANGED <<files, timedOut>>

\* The gate removes the parameter files, whatever it says.
Gate ==
  /\ Trained
  /\ \/ /\ files' = {f \in files : f.kind = "params" => (run.retain /\ f.rank = 0)}
        /\ End("pass") /\ UNCHANGED failures
     \/ files' = NoParameters /\ CountsFailure /\ End("error")
  /\ UNCHANGED timedOut

FinalStep(g) == IF g = "first" THEN FirstSteps ELSE FirstSteps + ResumedSteps
NextGroup == [first |-> "resumed", resumed |-> "uninterrupted", uninterrupted |-> "failure"]

\* verify_group(); a trajectory is told by its steps, as training is deterministic.
Verified ==
  /\ \A r \in Ranks : proc[r].step = FinalStep(group)
  /\ group = "uninterrupted" =>
       {f.step : f \in Found("ckpt", group)} = {f.step : f \in Found("ckpt", "resumed")}

JudgeSegment ==
  /\ Is("judge") /\ run.mode = "checkpoint" /\ group # "failure" /\ completed
  /\ files' = NoParameters
  /\ IF Verified
     THEN /\ launcher' = "launch" /\ group' = NextGroup[group]
          /\ completed' = FALSE /\ terminated' = 0
          /\ proc' = [r \in Ranks |-> NotStarted]
          /\ UNCHANGED <<run, attempt, verdict>>
     ELSE End("error")
  /\ UNCHANGED <<failures, timedOut>>

\* A group that did not complete, or whose parameters differ.
JudgeFailedSegment ==
  /\ Is("judge") /\ run.mode = "checkpoint" /\ group # "failure"
  /\ IF completed THEN CountsFailure ELSE UNCHANGED failures
  /\ End("error") /\ UNCHANGED <<files, timedOut>>

PeerStopped ==
  /\ ~completed /\ terminated >= 1
  /\ proc[0].status = "error" /\ proc[1].status \in {"term", "kill"}
  /\ Found("ckpt", "failure") = {} /\ Found("ready", "failure") = {}

\* The injected failure; then the checkpoints are removed and nothing may be left.
JudgeInjected ==
  /\ Is("judge") /\ run.mode = "checkpoint" /\ group = "failure"
  /\ files' = IF PeerStopped THEN {f \in files : f.kind \notin {"ckpt", "ready"}} ELSE files
  /\ End(IF PeerStopped /\ files' = {} THEN "pass" ELSE "error")
  /\ UNCHANGED <<failures, timedOut>>

LauncherStep ==
  \/ Launch \/ SeeSuccess \/ SeeFailure \/ Deadline \/ EndGrace \/ Collect \/ CollectTimesOut
  \/ JudgePeerFailure \/ JudgeFailedGroup \/ RejectRecords \/ Gate
  \/ JudgeSegment \/ JudgeFailedSegment \/ JudgeInjected

Start ==
  \E m \in Modes, fits \in BOOLEAN, overwrite \in BOOLEAN :
    \E retain \in IF m \in {"none", "group-init"} THEN BOOLEAN ELSE {FALSE} :
      Begin(m, fits, retain, overwrite)

Next ==
  \/ Start \/ LauncherStep \/ LaunchFails \/ LauncherDies
  \/ RankZeroStep \/ \E r \in Ranks : RankStep(r) \/ Throw(r) \/ Crash(r)

Spec == Init /\ [][Next]_vars
\* The launcher polls, and its clocks run.
FairSpec == Spec /\ WF_vars(LauncherStep)

-----------------------------------------------------------------------------
(* Properties.                                                             *)

\* Every variable has its type; a rank is at most the steps of a whole trajectory far
\* (--steps of a resumed group counts from its checkpoint).
TypeOK ==
  /\ run \in [mode : AllModes, fits : BOOLEAN, retain : BOOLEAN]
  /\ attempt \in 0 .. MaxAttempts /\ failures \in 0 .. MaxFailures /\ timedOut \in BOOLEAN
  /\ launcher \in {"idle", "launch", "wait", "grace", "collect", "judge"}
  /\ group \in Groups /\ completed \in BOOLEAN /\ terminated \in 0 .. WorldSize
  /\ verdict \in {"none", "refused", "aborted", "died", "pass", "error"}
  /\ DOMAIN proc = Ranks
  /\ \A r \in Ranks :
       /\ proc[r].status \in {"absent", "running", "ok", "error", "crashed", "term", "kill"}
       /\ proc[r].signal \in {"none", "term", "kill"}
       /\ proc[r].step \in 0 .. FirstSteps + ResumedSteps
       /\ {proc[r].id, proc[r].loaded} \subseteq File \cup {NoFile}
  /\ files \subseteq File /\ \A f \in files : f.kind # "params" => f.rank = 0

\* A rank joins the communicator of its own group and attempt, resumes from the first
\* segment of its attempt and verifies the checkpoint of its own group, whatever an
\* earlier attempt left in the directory: wait_for_id() and wait_for_checkpoint_ready()
\* take any file that has the right name and the right step.
AttemptsDoNotMix ==
  \A r \in Ranks : Running(r) =>
    /\ proc[r].id # NoFile => proc[r].id.by = <<attempt, group>>
    /\ proc[r].loaded # NoFile =>
         proc[r].loaded.by = <<attempt, IF proc[r].at \in {"params", "report"}
                                        THEN group ELSE "first">>

\* At every moment, and so after a crash of rank 0 between any two calls, a ready file
\* stands beside the complete checkpoint of the attempt, group and step it announces.
ReadyMeansComplete ==
  \A f \in files : f.kind = "ready" => [f EXCEPT !.kind = "ckpt"] \in files

\* No process writes after the launcher has cleaned up behind it: with the verdict the
\* id file is gone; a passing checkpoint run leaves nothing and a passing training run
\* the consensus parameters at most; a training group that failed leaves no parameters.
FilesAfterVerdict ==
  /\ verdict \in {"pass", "error"} => \A f \in files : f.kind # "id"
  /\ verdict = "pass" =>
       IF run.mode = "checkpoint" THEN files = {}
       ELSE \A f \in files : f.kind = "params" => f.rank = 0 /\ run.retain
  /\ verdict = "error" /\ ~completed /\ run.mode # "checkpoint" =>
       \A f \in files : f.kind # "params"

\* An attempt in which nothing fails and no deadline passes gets the verdict of its mode,
\* also when main() expects the failure: the ranks that report it race with the signals
\* that end their peers.
HealthyAttemptPasses ==
  failures = 0 /\ ~timedOut /\ run.fits => verdict \in {"none", "refused", "pass"}

\* wait_group() calls a group completed only when every process ended with 0, and main()
\* judges a group, completed or not, only when none of its processes runs.
Outcome(status) ==
  CASE status = "absent" -> "idle"
    [] status = "running" -> "running"
    [] status = "ok" -> "succeeded"
    [] OTHER -> "failed"
Group == INSTANCE GroupVerdict
  WITH Members <- Ranks,
       outcome <- [r \in Ranks |-> Outcome(proc[r].status)],
       judgement <- IF launcher # "judge" THEN "open"
                    ELSE IF completed THEN "completed" ELSE "failed"
RefinesVerdict == Group!VerdictSpec

\* The launcher gets to a verdict, though ranks may wait for a peer that died or for a
\* pipe that nobody reads.
LauncherEnds == (attempt > 0 /\ verdict = "none") ~> (verdict # "none")
=============================================================================
