--------------------------- MODULE Qualification ---------------------------
(***************************************************************************)
(* The commands of a development-only candidate: handoff, qualify, verify  *)
(* and seal (cli/candidate_v0_3.py and candidate_v0_2.py), run by workflow *)
(* jobs over one artifact root while the repository's head may move, a     *)
(* concurrent ingestion leaves a temporary file in the dataset's directory *)
(* and time passes.  Any job may be killed between two file operations.    *)
(*                                                                         *)
(* The report of a run is a function of the case (Evaluation), computed    *)
(* once per case.  Files that are written by the immutable store hold      *)
(* either nothing or the whole content.                                    *)
(***************************************************************************)
EXTENDS Evaluation

CONSTANTS Jobs,          \* workflow runs, one process each
          Cases,         \* a function from names to cases
          Commits, None,
          MonthTicks,    \* clock ticks in a month
          Cutoff,        \* the development cutoff, a month boundary
          MaxClock       \* the bound of the clock

AccountType == [open : Int, middle : Int, close : Int, trades : Nat, profit : Int, largest : Int]
ASSUME CaseAssumption ==
  \A name \in DOMAIN Cases :
    /\ Cases[name].version \in {"v01", "v02", "v03"}
    /\ Cases[name].history \in DOMAIN Histories
    /\ {"primary", "cost_1_5x", "shuffled"} \subseteq DOMAIN Cases[name].accounts
    /\ \A id \in DOMAIN Cases[name].accounts :
         Cases[name].accounts[id] \in [0 .. 12 -> AccountType]
HandoffType ==
  [commit : Commits, job : Jobs, inventory : SUBSET {"dataset", "temporary"}]
ASSUME NoneAssumption == None \notin Jobs \cup HandoffType
ASSUME ClockAssumption == MonthTicks \in Nat \ {0} /\ {Cutoff, MaxClock} \subseteq Nat

VARIABLES case,        \* what this market and these models make of the study
          head,        \* the clean commit of the checkout
          temporary,   \* the temporary file of a concurrent ingestion
          clock,
          handoff,     \* dataset-handoff.json
          published,   \* the complete files of qualification bundles
          marker,      \* active-seal/, by the job that made it
          seals,       \* the published seal files
          sealId,      \* active-seal/seal-id.txt
          promotion,   \* the classification in v0.1's report, once there is one
          pc, mind

study == <<case, promotion>>
environment == <<head, temporary, clock>>
files == <<handoff, published, marker, seals, sealId>>
local == <<pc, mind>>
vars == <<study, environment, files, local>>

\* What the executor and the replay make of each case.
PerCase(Result(_)) == Tabulated([name \in DOMAIN Cases |-> Result(name)])

RunOf(name) == IF Cases[name].version = "v01" THEN {} ELSE Execute(Cases[name])
Runs == PerCase(RunOf)
ReplayOf(name) == {Replay(Cases[name], run) : run \in Runs[name]}
Replays == PerCase(ReplayOf)
PromotionOf(name) == IF Cases[name].version = "v01" THEN PromotionReport(Cases[name]) ELSE {}
Promotions == PerCase(PromotionOf)

Init ==
  /\ case \in DOMAIN Cases
  /\ promotion = {}
  /\ head \in Commits
  /\ temporary = "none"
  /\ clock = 0
  /\ handoff = None
  /\ published = {}
  /\ marker = None
  /\ seals = {}
  /\ sealId = None
  /\ pc = [j \in Jobs |-> "idle"]
  /\ mind = [j \in Jobs |-> None]

Go(j, label, thought) ==
  /\ pc' = [pc EXCEPT ![j] = label]
  /\ mind' = [mind EXCEPT ![j] = thought]
Stop(j) == Go(j, "idle", None)

-----------------------------------------------------------------------------
\* handoff: list the dataset's files, hash them, publish, and only then verify.
Present == {"dataset"} \cup (IF temporary = "present" THEN {"temporary"} ELSE {})

ListDataset(j) ==
  /\ pc[j] = "idle"
  /\ Go(j, "listed", [commit |-> head, job |-> j, inventory |-> Present])
  /\ UNCHANGED <<study, environment, files>>

HashDataset(j) ==
  /\ pc[j] = "listed"
  /\ IF mind[j].inventory \subseteq Present THEN Go(j, "hashed", mind[j]) ELSE Stop(j)
  /\ UNCHANGED <<study, environment, files>>

PublishHandoff(j) ==
  /\ pc[j] = "hashed"
  /\ handoff' = IF handoff = None THEN mind[j] ELSE handoff
  /\ IF handoff \in {None, mind[j]} THEN Go(j, "handed", mind[j]) ELSE Stop(j)
  /\ UNCHANGED <<study, environment, published, marker, seals, sealId>>

HandoffHolds(commit) ==
  /\ handoff # None
  /\ handoff.commit = commit
  /\ handoff.inventory \subseteq Present

\* The command ends either way; the published handoff stays.
VerifyHandoff(j) ==
  /\ pc[j] = "handed"
  /\ Stop(j)
  /\ UNCHANGED <<study, environment, files>>

-----------------------------------------------------------------------------
\* qualify: execute the fixed study, then write the bundle, its result last.
BundleId(j) ==
  [job |-> j, commit |-> head, dataset |-> handoff.job, inventory |-> handoff.inventory]

ExecuteQualification(j) ==
  /\ pc[j] = "idle"
  /\ HandoffHolds(head)
  /\ Runs[case] # {}
  /\ Go(j, "executed", BundleId(j))
  /\ UNCHANGED <<study, environment, files>>

\* Experiments are addressed by dataset, commit and case, not by the job.
WriteExperiments(j) ==
  /\ pc[j] = "executed"
  /\ published' = published \cup {<<mind[j].commit, "experiments">>}
  /\ Go(j, "ran", mind[j])
  /\ UNCHANGED <<study, environment, handoff, marker, seals, sealId>>

WritePayload(j) ==
  /\ pc[j] = "ran"
  /\ published' = published \cup {<<mind[j], "payload">>}
  /\ Go(j, "written", mind[j])
  /\ UNCHANGED <<study, environment, handoff, marker, seals, sealId>>

WriteResult(j) ==
  /\ pc[j] = "written"
  /\ published' = published \cup {<<mind[j], "result">>}
  /\ Stop(j)
  /\ UNCHANGED <<study, environment, handoff, marker, seals, sealId>>

-----------------------------------------------------------------------------
\* verify: the bundle, the locked configuration, the handoff, the experiments
\* and the whole report again, from the published files.
Bundles == {f[1] : f \in {g \in published : g[2] = "result"}}
Readable(id) == <<id, "result">> \in published /\ <<id, "payload">> \in published

HandoffIsOf(id) ==
  /\ HandoffHolds(id.commit)
  /\ handoff.job = id.dataset
  /\ handoff.inventory = id.inventory

\* The replay accepts only the canonical spelling of the configuration, though
\* the executor compared its numbers.
LockedSpelling == Cases[case].spelling = "canonical"
MatchOf(name) ==
  \A run \in Runs[name], again \in Replays[name] :
    /\ again.plan = run.plan
    /\ again.evidence.bootstrap = run.evidence.bootstrap
    /\ GatesV03(again.evidence) = GatesV03(run.evidence)
    /\ again.classification = run.classification
ReplayMatches == PerCase(MatchOf)

Verifies(id) ==
  /\ Readable(id)
  /\ id.commit = head
  /\ HandoffIsOf(id)
  /\ <<id.commit, "experiments">> \in published
  /\ Cases[case].version = "v03" => LockedSpelling /\ ReplayMatches[case]

Classification == {run.classification : run \in Runs[case]}

\* Mutant of VerifyForSeal: any verified qualification may be sealed.
VerifyAnyForSeal(j, id) ==
  /\ pc[j] = "idle"
  /\ Verifies(id)
  /\ Go(j, "verified", [id |-> id])
  /\ UNCHANGED <<study, environment, files>>

VerifyForSeal(j, id) ==
  /\ pc[j] = "idle"
  /\ Verifies(id)
  /\ Classification = {"QUALIFIED"}
  /\ Go(j, "verified", [id |-> id])
  /\ UNCHANGED <<study, environment, files>>

-----------------------------------------------------------------------------
\* seal: read the clock, take the candidate, publish the seal, then its name.
\* The first month boundary strictly after the verification.
FinalStart(now) == (now \div MonthTicks + 1) * MonthTicks

ReadClock(j) ==
  /\ pc[j] = "verified"
  /\ IF clock >= Cutoff
       THEN Go(j, "timed", [id |-> mind[j].id, at |-> clock, start |-> FinalStart(clock)])
       ELSE Stop(j)
  /\ UNCHANGED <<study, environment, files>>

\* Mutant of TakeCandidate: the marker directory may exist already.
TakeCandidateAgain(j) ==
  /\ pc[j] = "timed"
  /\ marker' = j
  /\ Go(j, "taken", mind[j])
  /\ UNCHANGED <<study, environment, handoff, published, seals, sealId>>

TakeCandidate(j) ==
  /\ pc[j] = "timed"
  /\ marker' = IF marker = None THEN j ELSE marker
  /\ IF marker = None THEN Go(j, "taken", mind[j]) ELSE Stop(j)
  /\ UNCHANGED <<study, environment, handoff, published, seals, sealId>>

WriteSeal(j) ==
  /\ pc[j] = "taken"
  /\ seals' = seals \cup {mind[j]}
  /\ Go(j, "sealed", mind[j])
  /\ UNCHANGED <<study, environment, handoff, published, marker, sealId>>

WriteSealId(j) ==
  /\ pc[j] = "sealed"
  /\ sealId' = mind[j]
  /\ Stop(j)
  /\ UNCHANGED <<study, environment, handoff, published, marker, seals>>

Kill(j) ==
  /\ pc[j] # "idle"
  /\ Stop(j)
  /\ UNCHANGED <<study, environment, files>>

-----------------------------------------------------------------------------
\* v0.1 reports on its study; nothing of it is sealed here.
ReportPromotion ==
  /\ promotion = {}
  /\ Promotions[case] # {}
  /\ promotion' = {report.classification : report \in Promotions[case]}
  /\ UNCHANGED <<case, environment, files, local>>

MoveHead ==
  /\ \E c \in Commits : head' = c
  /\ UNCHANGED <<study, temporary, clock, files, local>>

Reingest ==
  /\ temporary' \in CASE temporary = "none" -> {"present"} [] temporary = "present" -> {"gone"}
                      [] OTHER -> {}
  /\ UNCHANGED <<study, head, clock, files, local>>

Tick ==
  /\ clock < MaxClock
  /\ clock' = clock + 1
  /\ UNCHANGED <<study, head, temporary, files, local>>

Next ==
  \/ \E j \in Jobs :
       \/ ListDataset(j) \/ HashDataset(j) \/ PublishHandoff(j) \/ VerifyHandoff(j)
       \/ ExecuteQualification(j) \/ WriteExperiments(j) \/ WritePayload(j) \/ WriteResult(j)
       \/ \E id \in Bundles : VerifyForSeal(j, id)
       \/ ReadClock(j) \/ TakeCandidate(j) \/ WriteSeal(j) \/ WriteSealId(j)
       \/ Kill(j)
  \/ ReportPromotion
  \/ MoveHead \/ Reingest \/ Tick

Spec == Init /\ [][Next]_vars

-----------------------------------------------------------------------------
\* What an experiment gained over the folds, from its accounts alone.
Gain(c, id) ==
  NetReturn(Equities(FlattenSeq([n \in 1 .. 12 |-> << c.accounts[id][n].open,
                                   c.accounts[id][n].middle, c.accounts[id][n].close >>])))

\* What a sealed candidate must have done, whatever the gates are.
Earned(c) ==
  /\ Gain(c, "cost_1_5x") > 0
  /\ Gain(c, "primary") >= Gain(c, "cost_1_5x")
  /\ ~ Gain(c, "shuffled") > 0
  /\ Total([n \in 1 .. 12 |-> c.accounts["primary"][n].trades]) >= 60
  /\ Cardinality({n \in 1 .. 12 : c.accounts["primary"][n].profit > 0}) >= 2
  /\ \A n \in 1 .. 12 : c.fits[n].same
EarnedBy == Tabulated([name \in DOMAIN Cases |-> Earned(Cases[name])])

\* A published seal names a complete bundle of the dataset that was handed
\* over at the same commit, its window begins after the verification and after
\* the development data, and the study behind it made money also under
\* stressed costs and on true labels only (qualification_v0_3.py:527,
\* prospective_seal_v0_3.py:171, cli/candidate_v0_3.py:237).
SealsAreEarned ==
  \A seal \in seals :
    /\ Readable(seal.id)
    /\ <<seal.id.commit, "experiments">> \in published
    /\ handoff # None
    /\ seal.id.commit = handoff.commit
    /\ seal.id.dataset = handoff.job
    /\ seal.id.inventory = handoff.inventory
    /\ Cutoff <= seal.at /\ seal.at < seal.start /\ seal.start <= seal.at + MonthTicks
    /\ EarnedBy[case]

\* One job takes a candidate and only that job publishes, once: no interleaving
\* or kill gives a second seal (prospective_seal_v0_3.py:249-262).
BundleIds ==
  [job : Jobs, commit : Commits, dataset : Jobs, inventory : SUBSET {"dataset", "temporary"}]
Sealing ==
  INSTANCE SealOnce WITH
    Nobody <- None, holder <- marker, sealed <- seals,
    Seals <- [id : BundleIds, at : 0 .. MaxClock, start : 0 .. MaxClock + MonthTicks]
ImplementsSealOnce == Sealing!Spec

\* A bundle that was completed on this commit, from a dataset that is still as
\* it was handed over and under the canonical spelling of the configuration,
\* verifies: the independent replay of the report reaches the executor's
\* outcomes (qualification_verification_v0_3.py:208, qualification_replay_v0_3.py:356).
ReplayAgrees ==
  \A id \in Bundles :
    (id.commit = head /\ HandoffIsOf(id) /\ LockedSpelling) => Verifies(id)

-----------------------------------------------------------------------------
\* No decision of a fold is fitted or calibrated on a candle that its label or
\* its features share with a later window, no fold's test overlaps another's,
\* and nothing reaches over a closure (splits.py:149-264, v0_3_splits.py:120-190).
Reach(part) == {j : j \in UNION {i .. i + LabelExitOffset : i \in part}}
FoldIsCausal(h, fold) ==
  /\ Max(Reach(fold.training)) + Embargo < Min(fold.calibration)
  /\ Max(Reach(fold.calibration)) + Embargo < Min(fold.test)
  /\ \A i \in fold.training \cup fold.calibration \cup fold.test :
       \A b \in h.boundaries : ~ (i - Lookback < b /\ b <= i + LabelExitOffset)
PlanIsCausalFor(h, plan) ==
  plan.status = "plan" =>
    /\ \A n \in DOMAIN plan.folds : FoldIsCausal(h, plan.folds[n])
    /\ \A n, m \in DOMAIN plan.folds :
         n < m => Max(Reach(plan.folds[n].test)) < Min(plan.folds[m].test)
    /\ "final" \in DOMAIN plan =>
         \A n \in DOMAIN plan.folds :
           Max(Reach(plan.folds[n].test)) + Embargo < Min(plan.final.test)
CausalFor(name) ==
  /\ PlanIsCausalFor(Histories[name], Plans[name].v02)
  /\ PlanIsCausalFor(Histories[name], Plans[name].v03)
  /\ PlanIsCausalFor(Histories[name], Plans[name].study.plan)
CausalPlans == Tabulated([name \in DOMAIN Histories |-> CausalFor(name)])
PlanIsCausal == CausalPlans[Cases[case].history]

-----------------------------------------------------------------------------
\* The evidence without one of its optional fields, without one fold's
\* comparator, without one neighbor, without one receipt.
Optional(e) == {field \in DOMAIN e \ {"version", "folds"} : ~ Missing(e[field])}
Weakened(e) ==
  {[e EXCEPT ![field] = {}] :
     field \in Optional(e) \ (IF e.version = "v02"
                                THEN {"selectivity", "ablationRtd", "ablationDd", "primaryRtd",
                                      "primaryDd"}
                                ELSE {"disagreement"})}
  \cup {[e EXCEPT !.folds[n].rtd = {}] : n \in DOMAIN e.folds}
  \cup {[e EXCEPT !.folds[n].baseline = {}] : n \in DOMAIN e.folds}
  \cup {[e EXCEPT !.folds = Tail(@)], [e EXCEPT !.neighbors = {Tail(The(@))}]}
  \cup {[e EXCEPT !.determinism = {Tail(The(@))}]}
  \cup (IF e.version = "v02" THEN {}
        ELSE {[e EXCEPT !.selectivity = {The(@) \ {r}}] :
                r \in {r \in The(e.selectivity) : r.fold = 12}})
WeakenedFinal(e) ==
  {[e EXCEPT !.final.rtd = {}], [e EXCEPT !.final.simpleRtd = {}],
   [e EXCEPT !.final.specialistRtd = {}], [e EXCEPT !.delayedRtd = {}],
   [e EXCEPT !.final.regimes = {}], [e EXCEPT !.folds = << Head(@) >>]}
ClosedFor(name) ==
  /\ \A run \in Runs[name] :
       \A weak \in Weakened(run.evidence) : Qualify(weak) # "QUALIFIED"
  /\ \A report \in Promotions[name] :
       \A weak \in WeakenedFinal(report.evidence) : Promote(weak) # "PASS"
ClosedFails == PerCase(ClosedFor)

\* Evidence that is missing never promotes: taking away one optional piece, one
\* fold's comparator, one neighbor or one receipt leaves no qualified candidate
\* (qualification_v0_3.py:129-527, qualification.py:402, evaluation.py:358).
FailClosed == ClosedFails[case]

\* A fold in which the candidate gained, ended above every simple baseline and
\* lost less on the way than each of them.
Outshines(c, n) ==
  LET path(id) ==
        PathMetrics(<< c.accounts[id][n].open, c.accounts[id][n].middle, c.accounts[id][n].close >>)
      primary == path("primary")
  IN  /\ primary.net > 0 /\ primary.dd > 0
      /\ \A id \in Range(SimpleCases) : path(id).net < primary.net /\ path(id).dd > primary.dd
WinsFor(name) ==
  \A run \in Runs[name], n \in 1 .. 12 :
    Outshines(Cases[name], n) =>
      Exceeds(The(run.evidence.folds[n].rtd), The(run.evidence.folds[n].baseline))
WinningFolds == PerCase(WinsFor)

\* In a completed bundle such a fold beats the strongest baseline on
\* return-to-drawdown: an annualized return that is compounded over the year,
\* as documented, keeps the order of the returns (research/metrics.py:192).
WinsAreCounted == Bundles # {} => WinningFolds[case]
=============================================================================
