---------------------------- MODULE SealedStudy ----------------------------
(***************************************************************************)
(* The workflow that evaluates a sealed final test once for the whole      *)
(* repository: .github/workflows/sealed-btcusdt-study.yml.  Runners and    *)
(* their evidence roots are fresh for every job, so the local store        *)
(* (module FinalAccess) excludes nothing between two runs; a comment on    *)
(* an issue does.  Stages follow the jobs prepare (with validate-dataset), *)
(* authorize-final and finalize, which run one after the other.            *)
(***************************************************************************)
EXTENDS Naturals, Sequences

CONSTANTS
  Runs,        \* workflow runs that are ever dispatched
  PreFinal,    \* PreFinal[r]: what prepare computes from the inputs of run r
  PreFinalIds,
  MaxAttempts  \* attempts of a run: the first and its re-runs (a bound)

ASSUME PreFinalAssumption == PreFinal \in [Runs -> PreFinalIds]
ASSUME AttemptsAssumption == MaxAttempts \in Nat \ {0}

VARIABLES
  attempt,      \* GITHUB_RUN_ATTEMPT of each run; 0 before its dispatch
  stage,        \* the step each run is at
  succeeded,    \* jobs of each run that succeeded, in this attempt or before
  active,       \* runs of the concurrency group that execute
  pending,      \* the run of the group that waits, if any
  seals,        \* runs whose bot comment carries the marker of their pre-final
  inconclusive, \* seals edited to INCONCLUSIVE
  receipt,      \* attempt that the uploaded receipt of each run names; 0: none
  evaluated     \* evaluations of final rows so far, each as <<run, attempt>>

vars == <<attempt, stage, succeeded, active, pending, seals, inconclusive, receipt, evaluated>>
group == <<active, pending>>
evidence == <<seals, inconclusive, receipt, evaluated>>

Working == {"prepare", "attempt check", "list", "post", "authorize", "record", "upload",
            "require", "evaluate", "verify"}
Ended == {"succeeded", "failed", "cancelled"}

Sealed(id) == \E r \in seals : PreFinal[r] = id

Init ==
  /\ attempt = [r \in Runs |-> 0]
  /\ stage = [r \in Runs |-> "idle"]
  /\ succeeded = [r \in Runs |-> {}]
  /\ active = {} /\ pending = {}
  /\ seals = {} /\ inconclusive = {}
  /\ receipt = [r \in Runs |-> 0]
  /\ evaluated = <<>>

-----------------------------------------------------------------------------
(* GitHub: dispatch, re-run and the concurrency group (external).          *)

\* An attempt starts at its first job that has not succeeded.
FirstStage(jobs) ==
  IF "authorize" \in jobs THEN "require"
  ELSE IF "prepare" \in jobs THEN "attempt check" ELSE "prepare"

\* Mutant of Enter: the group does not serialize its runs.
EnterUnserialized(r, jobs) ==
  /\ active' = active \cup {r}
  /\ stage' = [stage EXCEPT ![r] = FirstStage(jobs)]
  /\ UNCHANGED pending

\* cancel-in-progress is false: a run waits for the active one, and replaces
\* the one that was waiting.
Enter(r, jobs) ==
  IF active = {}
    THEN /\ active' = {r}
         /\ stage' = [stage EXCEPT ![r] = FirstStage(jobs)]
         /\ UNCHANGED pending
    ELSE /\ pending' = {r}
         /\ stage' = [s \in Runs |-> IF s = r THEN "queued"
                                     ELSE IF s \in pending THEN "cancelled" ELSE stage[s]]
         /\ UNCHANGED active

\* Mutant of Leave: the run that waits is forgotten.
LeaveAlone(r, outcome) ==
  /\ active' = active \ {r}
  /\ stage' = [stage EXCEPT ![r] = outcome]
  /\ UNCHANGED pending

Leave(r, outcome) ==
  /\ active' = pending
  /\ pending' = {}
  /\ stage' = [s \in Runs |-> IF s = r THEN outcome
                              ELSE IF s \in pending THEN FirstStage(succeeded[s]) ELSE stage[s]]

Dispatch(r) ==
  /\ stage[r] = "idle"
  /\ attempt' = [attempt EXCEPT ![r] = 1]
  /\ Enter(r, {})
  /\ UNCHANGED <<succeeded, evidence>>

\* Re-run failed jobs, or all jobs.
Rerun(r) ==
  /\ stage[r] \in Ended /\ attempt[r] < MaxAttempts
  /\ attempt' = [attempt EXCEPT ![r] = @ + 1]
  /\ \E jobs \in {{}, succeeded[r]} :
       /\ stage[r] = "succeeded" => jobs = {}
       /\ succeeded' = [succeeded EXCEPT ![r] = jobs]
       /\ Enter(r, jobs)
  /\ UNCHANGED evidence

\* A step fails, a job times out, a runner is lost, a person cancels.
Fail(r) ==
  /\ r \in active
  /\ Leave(r, "failed")
  /\ UNCHANGED <<attempt, succeeded, evidence>>

-----------------------------------------------------------------------------
(* The steps of the three jobs. *)

At(r, step) == r \in active /\ stage[r] = step
Goto(r, step) == stage' = [stage EXCEPT ![r] = step] /\ UNCHANGED group

Prepare(r) ==
  /\ At(r, "prepare")
  /\ succeeded' = [succeeded EXCEPT ![r] = @ \cup {"prepare"}]
  /\ Goto(r, "attempt check")
  /\ UNCHANGED <<attempt, evidence>>

\* "Reject workflow reruns"
CheckAttempt(r) ==
  /\ At(r, "attempt check")
  /\ IF attempt[r] = 1 THEN Goto(r, "list") ELSE Leave(r, "failed")
  /\ UNCHANGED <<attempt, succeeded, evidence>>

\* "Acquire one-time Issue 22 repository seal": read the comments, then post.
ListComments(r) ==
  /\ At(r, "list")
  /\ IF Sealed(PreFinal[r]) THEN Leave(r, "failed") ELSE Goto(r, "post")
  /\ UNCHANGED <<attempt, succeeded, evidence>>

\* The comment may be posted although its answer is lost.
PostSeal(r) ==
  /\ At(r, "post")
  /\ seals' = seals \cup {r}
  /\ Goto(r, "authorize") \/ Leave(r, "failed")
  /\ UNCHANGED <<attempt, succeeded, inconclusive, receipt, evaluated>>

\* strategy-authorize-final, on a root that no other run shares.
Authorize(r) ==
  /\ At(r, "authorize")
  /\ receipt' = [receipt EXCEPT ![r] = attempt[r]]
  /\ Goto(r, "record")
  /\ UNCHANGED <<attempt, succeeded, seals, inconclusive, evaluated>>

RecordReceipt(r) ==
  /\ At(r, "record")
  /\ Goto(r, "upload")
  /\ UNCHANGED <<attempt, succeeded, evidence>>

\* Mutant of MarkInconclusive: the job goes on.
MarkAndContinue(r) ==
  /\ r \in active /\ stage[r] \in {"authorize", "record"}
  /\ inconclusive' = inconclusive \cup {r}
  /\ Goto(r, "upload")
  /\ UNCHANGED <<attempt, succeeded, seals, receipt, evaluated>>

\* A step after the seal failed, and the edit of the comment succeeded.
MarkInconclusive(r) ==
  /\ r \in active /\ stage[r] \in {"authorize", "record"}
  /\ inconclusive' = inconclusive \cup {r}
  /\ Leave(r, "failed")
  /\ UNCHANGED <<attempt, succeeded, seals, receipt, evaluated>>

Upload(r) ==
  /\ At(r, "upload")
  /\ succeeded' = [succeeded EXCEPT ![r] = @ \cup {"authorize"}]
  /\ Goto(r, "require")
  /\ UNCHANGED <<attempt, evidence>>

\* Mutant of RequireReceipt: any receipt of the run will do.
RequireAnyReceipt(r) ==
  /\ At(r, "require")
  /\ IF receipt[r] # 0 THEN Goto(r, "evaluate") ELSE Leave(r, "failed")
  /\ UNCHANGED <<attempt, succeeded, evidence>>

\* "Require receipt run and attempt identity"
RequireReceipt(r) ==
  /\ At(r, "require")
  /\ IF receipt[r] = attempt[r] THEN Goto(r, "evaluate") ELSE Leave(r, "failed")
  /\ UNCHANGED <<attempt, succeeded, evidence>>

\* strategy-finalize
Evaluate(r) ==
  /\ At(r, "evaluate")
  /\ evaluated' = Append(evaluated, <<r, attempt[r]>>)
  /\ Goto(r, "verify")
  /\ UNCHANGED <<attempt, succeeded, seals, inconclusive, receipt>>

\* strategy-replay, strategy-verify and the upload.
Verify(r) ==
  /\ At(r, "verify")
  /\ succeeded' = [succeeded EXCEPT ![r] = @ \cup {"finalize"}]
  /\ Leave(r, "succeeded")
  /\ UNCHANGED <<attempt, evidence>>

Step(r) ==
  \/ Prepare(r) \/ CheckAttempt(r) \/ ListComments(r) \/ PostSeal(r) \/ Authorize(r)
  \/ RecordReceipt(r) \/ MarkInconclusive(r) \/ Upload(r) \/ RequireReceipt(r)
  \/ Evaluate(r) \/ Verify(r) \/ Fail(r)
Next == \E r \in Runs : Dispatch(r) \/ Rerun(r) \/ Step(r)
Spec == Init /\ [][Next]_vars

\* Every job has a timeout-minutes: no run stays at a step forever.
FairSpec == Spec /\ \A r \in Runs : WF_vars(Step(r))

-----------------------------------------------------------------------------
TypeOK ==
  /\ attempt \in [Runs -> 0 .. MaxAttempts]
  /\ stage \in [Runs -> {"idle", "queued"} \cup Working \cup Ended]
  /\ succeeded \in [Runs -> SUBSET {"prepare", "authorize", "finalize"}]
  /\ active \in SUBSET Runs /\ pending \in SUBSET Runs
  /\ seals \in SUBSET Runs /\ inconclusive \in SUBSET Runs
  /\ receipt \in [Runs -> 0 .. MaxAttempts]
  /\ evaluated \in Seq(Runs \X (1 .. MaxAttempts))

(* "Performs the one authorized final evaluation": whoever dispatches,     *)
(* re-runs or cancels, whatever step fails, the final rows of one          *)
(* pre-final are evaluated by one attempt of one run.                      *)
EvaluatedOnce ==
  \A j, k \in DOMAIN evaluated :
    PreFinal[evaluated[j][1]] = PreFinal[evaluated[k][1]] => j = k

(* The comments are read and posted in two requests; still no two runs     *)
(* seal the same pre-final.                                                *)
SealedOnce == \A r, s \in seals : PreFinal[r] = PreFinal[s] => r = s

(* A seal that was marked INCONCLUSIVE stays without an evaluation: "fresh *)
(* final evaluation remains prohibited".                                   *)
InconclusiveStaysSealed ==
  \A k \in DOMAIN evaluated, r \in inconclusive : PreFinal[evaluated[k][1]] # PreFinal[r]

(* Final rows are evaluated by the run that holds the seal, and never      *)
(* after that run has ended once.                                          *)
OnlyTheSealerEvaluates ==
  [][evaluated' # evaluated =>
       \E r \in active \cap seals : evaluated' = Append(evaluated, <<r, 1>>)]_vars

(* A run that was dispatched ends, whatever the group makes it wait for.   *)
RunsEnd == \A r \in Runs : stage[r] \notin Ended \cup {"idle"} ~> stage[r] \in Ended
=============================================================================
