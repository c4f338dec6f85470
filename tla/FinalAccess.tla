---------------------------- MODULE FinalAccess ----------------------------
(***************************************************************************)
(* One evidence root from the dataset's handoff to the verified study:     *)
(* the commands strategy-handoff, -prepare, -authorize-final, -finalize    *)
(* and -resume of cli/historical_validation.py and strategy-verify of      *)
(* cli/strategy.py, over strategy/handoff.py, pre_final.py,                *)
(* final_access.py, sealed_evaluator.py, artifacts.py, replay.py,          *)
(* verification.py and sealed_verification.py.  Every invocation is a      *)
(* process that reads git's head when it needs the code commit; any of     *)
(* them may raise or be killed between two system calls, and its place is  *)
(* free for another one.                                                   *)
(*                                                                         *)
(* A file written by write_immutable appears whole at once and never       *)
(* changes (module ImmutableStore), so the checks a command makes of such  *)
(* files before its first write are one step, and a command they refuse    *)
(* does not start.  Policy, configuration and split plan are functions of  *)
(* the dataset, and the pre-final and the study of a dataset are too; the  *)
(* experiments beside them are module ArtifactSet.                         *)
(***************************************************************************)
EXTENDS Naturals

CONSTANTS
  Invocations,  \* places for commands that run at the same time
  Commits,      \* code commits that are ever checked out or named
  Datasets,     \* verified v4 datasets of the root
  WorkflowRuns, \* workflow run and attempt that a command is told it runs in
  None

\* FinalAccessIdentity, which a receipt is the digest of; and what stays of it
\* in final_access_seal_id: all but the workflow run and attempt.
Identities == [commit : Commits, dataset : Datasets, run : WorkflowRuns]
SealIds == [commit : Commits, dataset : Datasets]
Seal(i) == [commit |-> i.commit, dataset |-> i.dataset]

\* DatasetHandoffManifest: its source commit, which stands for the workflow run
\* it names too, and whether its inventory lists the temporary file.
Handoffs == [commit : Commits, temporary : BOOLEAN]

ASSUME NoneAssumption == None \notin Identities \cup Handoffs \cup Commits

VARIABLES
  pc,          \* what the command in each place does next
  asked,       \* the commit, dataset and run of its arguments or of its receipt
  head,        \* the commit that is checked out
  temporary,   \* a temporary file of a concurrent ingestion: none, present, gone
  listed,      \* invocations whose inventory lists it
  handoff,     \* the handoff of each dataset
  preFinal,    \* the files of its pre-final directory: none, partial, complete
  sealDirs,    \* seal directories that exist
  seals,       \* the receipt that each seal file records
  receiptDirs, \* receipt directories that exist
  receipts,    \* receipt files that exist
  experiments, \* the commit that a study's experiments.jsonl is bound to
  named,       \* the receipt that a study's study-manifest.json names
  complete,    \* datasets whose study has all its files
  granted,     \* history: how often the seal of an identity was granted
  abandoned,   \* history: seals whose authorization was interrupted
  opened       \* history: the receipts under which final rows were materialized

evidence == <<temporary, listed, handoff, preFinal>>
access == <<sealDirs, seals, receiptDirs, receipts>>
study == <<experiments, named, complete>>
history == <<granted, abandoned, opened>>
vars == <<pc, asked, head, evidence, access, study, history>>

Authorizing == {"seal dir", "seal file", "receipt dir", "receipt file"}
Finalizing == {"evaluate", "experiments", "manifest", "result"}
Running == {"publish handoff", "first pre-final files", "last pre-final file",
            "resume replay", "resume experiments", "verify experiments", "verify chain"}
           \cup Authorizing \cup Finalizing
Ready == {"idle", "verified", "unreconstructed"}

Init ==
  /\ pc = [c \in Invocations |-> "idle"]
  /\ asked = [c \in Invocations |-> None]
  /\ head \in Commits
  /\ temporary = "none" /\ listed = {}
  /\ handoff = [d \in Datasets |-> None]
  /\ preFinal = [d \in Datasets |-> "none"]
  /\ sealDirs = {} /\ seals = [s \in SealIds |-> None]
  /\ receiptDirs = {} /\ receipts = {}
  /\ complete = {}
  /\ experiments = [d \in Datasets |-> None]
  /\ named = [d \in Datasets |-> None]
  /\ granted = [s \in SealIds |-> 0] /\ abandoned = {} /\ opened = {}

Goto(c, step) == pc' = [pc EXCEPT ![c] = step] /\ UNCHANGED asked
Leave(c) == pc' = [pc EXCEPT ![c] = "idle"] /\ asked' = [asked EXCEPT ![c] = None]
SealOf(c) == Seal(asked[c])
DatasetOf(c) == asked[c].dataset

Begin(c, step, i) ==
  /\ pc[c] \in Ready
  /\ pc' = [pc EXCEPT ![c] = step]
  /\ asked' = [asked EXCEPT ![c] = i]

-----------------------------------------------------------------------------
(* strategy-handoff *)

\* The inventory is of what rglob finds in the directories of the dataset,
\* the temporary file of a write_immutable at work (or killed) included.
BeginHandoff(c) ==
  /\ \E i \in Identities : Begin(c, "publish handoff", i)
  /\ listed' = IF temporary = "present" THEN listed \cup {c} ELSE listed
  /\ UNCHANGED <<head, temporary, handoff, preFinal, access, study, history>>

HandoffOf(c) == [commit |-> asked[c].commit, temporary |-> c \in listed]

\* One handoff for each dataset and root: another one conflicts.  The command
\* verifies what it has published, and reports; the file stays either way.
PublishHandoff(c) ==
  /\ pc[c] = "publish handoff"
  /\ handoff' = [handoff EXCEPT ![DatasetOf(c)] = IF @ = None THEN HandoffOf(c) ELSE @]
  /\ Leave(c)
  /\ listed' = listed \ {c}
  /\ UNCHANGED <<head, temporary, preFinal, access, study, history>>

\* verify_dataset_handoff: every listed file is there, with its bytes.
HandoffHolds(d) ==
  /\ handoff[d] # None
  /\ handoff[d].temporary => temporary = "present"

-----------------------------------------------------------------------------
(* strategy-prepare *)

BeginPrepare(c) ==
  /\ \E d \in Datasets :
       /\ HandoffHolds(d)
       /\ handoff[d].commit = head
       /\ \E r \in WorkflowRuns :
            Begin(c, "first pre-final files", [commit |-> head, dataset |-> d, run |-> r])
  /\ UNCHANGED <<head, evidence, access, study, history>>

\* LocalPreFinalStore.write: the bytes follow from dataset and handoff, so
\* whoever writes them again finds them identical.
WritePreFinal(c) ==
  /\ \/ /\ pc[c] = "first pre-final files"
        /\ Goto(c, "last pre-final file")
        /\ preFinal' = [preFinal EXCEPT ![DatasetOf(c)] =
                          IF @ = "none" THEN "partial" ELSE @]
     \/ /\ pc[c] = "last pre-final file"
        /\ Leave(c)
        /\ preFinal' = [preFinal EXCEPT ![DatasetOf(c)] = "complete"]
  /\ UNCHANGED <<head, temporary, listed, handoff, access, study, history>>

-----------------------------------------------------------------------------
(* strategy-authorize-final *)

\* The commit of the identity is the head's, whatever the pre-final's is.
BeginAuthorize(c) ==
  /\ \E d \in Datasets, r \in WorkflowRuns :
       /\ preFinal[d] = "complete"
       /\ Begin(c, "seal dir", [commit |-> head, dataset |-> d, run |-> r])
  /\ UNCHANGED <<head, evidence, access, study, history>>

\* Mutant of MakeSealDir: a second request gets the receipt of the first.
MakeSealDirIdempotent(c) ==
  /\ pc[c] = "seal dir"
  /\ IF SealOf(c) \in sealDirs
       THEN /\ Leave(c)
            /\ granted' = [granted EXCEPT ![SealOf(c)] = IF asked[c] \in receipts THEN @ + 1 ELSE @]
            /\ UNCHANGED sealDirs
       ELSE /\ Goto(c, "seal file")
            /\ sealDirs' = sealDirs \cup {SealOf(c)}
            /\ UNCHANGED granted
  /\ UNCHANGED <<head, evidence, seals, receiptDirs, receipts, study, abandoned, opened>>

MakeSealDir(c) ==
  /\ pc[c] = "seal dir"
  /\ IF SealOf(c) \in sealDirs
       THEN Leave(c) /\ UNCHANGED sealDirs
       ELSE Goto(c, "seal file") /\ sealDirs' = sealDirs \cup {SealOf(c)}
  /\ UNCHANGED <<head, evidence, seals, receiptDirs, receipts, study, history>>

\* write_immutable: what another invocation wrote stays, and conflicts.
WriteSeal(c) ==
  /\ pc[c] = "seal file"
  /\ IF seals[SealOf(c)] \in {None, asked[c]}
       THEN seals' = [seals EXCEPT ![SealOf(c)] = asked[c]] /\ Goto(c, "receipt dir")
       ELSE Leave(c) /\ UNCHANGED seals
  /\ UNCHANGED <<head, evidence, sealDirs, receiptDirs, receipts, study, history>>

\* Mutant of MakeReceiptDir: the directory of all receipts is made exclusively.
ReceiptDirShared(c) ==
  /\ pc[c] = "receipt dir"
  /\ IF receiptDirs # {}
       THEN Leave(c) /\ UNCHANGED receiptDirs
       ELSE Goto(c, "receipt file") /\ receiptDirs' = {asked[c]}
  /\ UNCHANGED <<head, evidence, sealDirs, seals, receipts, study, history>>

MakeReceiptDir(c) ==
  /\ pc[c] = "receipt dir"
  /\ IF asked[c] \in receiptDirs
       THEN Leave(c) /\ UNCHANGED receiptDirs
       ELSE Goto(c, "receipt file") /\ receiptDirs' = receiptDirs \cup {asked[c]}
  /\ UNCHANGED <<head, evidence, sealDirs, seals, receipts, study, history>>

WriteReceipt(c) ==
  /\ pc[c] = "receipt file"
  /\ receipts' = receipts \cup {asked[c]}
  /\ granted' = [granted EXCEPT ![SealOf(c)] = @ + 1]
  /\ Leave(c)
  /\ UNCHANGED <<head, evidence, sealDirs, seals, receiptDirs, study, abandoned, opened>>

-----------------------------------------------------------------------------
(* strategy-finalize *)

\* FinalAccessStore.load: the receipt, and the seal that records it.
Loads(i) == i \in receipts /\ seals[Seal(i)] = i

\* Mutant of BeginFinalize: the seal is checked, and vouches for the receipt.
FinalizeSealed(c) ==
  /\ \E i \in Identities :
       /\ preFinal[i.dataset] = "complete"
       /\ HandoffHolds(i.dataset)
       /\ handoff[i.dataset].commit = head
       /\ seals[Seal(i)] = i /\ i.commit = head
       /\ Begin(c, "evaluate", i)
  /\ UNCHANGED <<head, evidence, access, study, history>>

\* verify_pre_final_artifacts and the comparison with the receipt's identity:
\* dataset, handoff, pre-final, head and receipt are of one commit.
BeginFinalize(c) ==
  /\ \E i \in Identities :
       /\ preFinal[i.dataset] = "complete"
       /\ HandoffHolds(i.dataset)
       /\ handoff[i.dataset].commit = head
       /\ Loads(i) /\ i.commit = head
       /\ Begin(c, "evaluate", i)
  /\ UNCHANGED <<head, evidence, access, study, history>>

\* build_candidate_preparation(include_final=True), the development cases
\* again, which come out as the pre-final's, and the final cases.
Evaluate(c) ==
  /\ pc[c] = "evaluate"
  /\ opened' = opened \cup {asked[c]}
  /\ Goto(c, "experiments")
  /\ UNCHANGED <<head, evidence, access, study, granted, abandoned>>

\* LocalStrategyStudyStore.write, in the order of the names: the experiments
\* are bound to the commit, the manifest names the receipt, the result
\* manifest is the last of the files whose bytes tell two studies apart.
WriteExperiments(c) ==
  /\ pc[c] = "experiments"
  /\ IF experiments[DatasetOf(c)] \in {None, asked[c].commit}
       THEN /\ experiments' = [experiments EXCEPT ![DatasetOf(c)] = asked[c].commit]
            /\ Goto(c, "manifest")
       ELSE Leave(c) /\ UNCHANGED experiments
  /\ UNCHANGED <<head, evidence, access, named, complete, history>>

WriteManifest(c) ==
  /\ pc[c] = "manifest"
  /\ IF named[DatasetOf(c)] \in {None, asked[c]}
       THEN named' = [named EXCEPT ![DatasetOf(c)] = asked[c]] /\ Goto(c, "result")
       ELSE Leave(c) /\ UNCHANGED named
  /\ UNCHANGED <<head, evidence, access, experiments, complete, history>>

WriteResult(c) ==
  /\ pc[c] = "result"
  /\ complete' = complete \cup {DatasetOf(c)}
  /\ Leave(c)
  /\ UNCHANGED <<head, evidence, access, experiments, named, history>>

-----------------------------------------------------------------------------
(* strategy-resume and strategy-verify *)

\* The stored study has to name the receipt that resume is given.
BeginResume(c) ==
  /\ \E i \in Identities : Loads(i) /\ named[i.dataset] = i /\ Begin(c, "resume replay", i)
  /\ UNCHANGED <<head, evidence, access, study, history>>

\* StrategyStudyReplayService.replay: every file is there, and the head is the
\* manifest's commit.
Replays(d) == d \in complete /\ head = named[d].commit

ResumeReplay(c) ==
  /\ pc[c] = "resume replay"
  /\ IF Replays(DatasetOf(c)) THEN Goto(c, "resume experiments") ELSE Leave(c)
  /\ UNCHANGED <<head, evidence, access, study, history>>

\* Mutant of BeginVerify: a study is verified as far as it is there.
VerifyClaimed(c) ==
  /\ \E d \in Datasets : named[d] # None /\ head = named[d].commit
                         /\ Begin(c, "verify experiments", named[d])
  /\ UNCHANGED <<head, evidence, access, study, history>>

BeginVerify(c) ==
  /\ \E d \in Datasets : Replays(d) /\ Begin(c, "verify experiments", named[d])
  /\ UNCHANGED <<head, evidence, access, study, history>>

\* Every experiment is replayed at the head with a strategy that the command's
\* reconstructor makes of its manifest.  strategy-verify passes
\* reconstruct_study_strategy; strategy-resume passes none, and the default
\* knows the strategies of test fixtures only.
VerifyExperiments(c) ==
  /\ \/ /\ pc[c] = "resume experiments"
        /\ IF head = asked[c].commit THEN Goto(c, "unreconstructed") ELSE Leave(c)
     \/ /\ pc[c] = "verify experiments"
        /\ IF head = asked[c].commit THEN Goto(c, "verify chain") ELSE Leave(c)
  /\ UNCHANGED <<head, evidence, access, study, history>>

\* verify_sealed_evidence_chain, and assess_exact_resume in it.
VerifyChain(c) ==
  /\ pc[c] = "verify chain"
  /\ IF /\ preFinal[DatasetOf(c)] = "complete"
        /\ HandoffHolds(DatasetOf(c))
        /\ handoff[DatasetOf(c)].commit = asked[c].commit
        /\ Loads(asked[c])
       THEN Goto(c, "verified") ELSE Leave(c)
  /\ UNCHANGED <<head, evidence, access, study, history>>

-----------------------------------------------------------------------------
(* Around the commands *)

Checkout ==
  /\ head' \in Commits \ {head}
  /\ UNCHANGED <<pc, asked, evidence, access, study, history>>

\* mkstemp and unlink of write_immutable in a dataset-ingest of the same run.
Ingest ==
  /\ \/ temporary = "none" /\ temporary' = "present"
     \/ temporary = "present" /\ temporary' = "gone"
  /\ UNCHANGED <<pc, asked, head, listed, handoff, preFinal, access, study, history>>

\* An exception, or the end of the process, between two steps.
Interrupt(c) ==
  /\ pc[c] \in Running
  /\ abandoned' = IF pc[c] \in Authorizing \ {"seal dir"}
                    THEN abandoned \cup {SealOf(c)} ELSE abandoned
  /\ listed' = listed \ {c}
  /\ Leave(c)
  /\ UNCHANGED <<head, temporary, handoff, preFinal, access, study, granted, opened>>

Starts(c) ==
  \/ BeginHandoff(c) \/ BeginPrepare(c) \/ BeginAuthorize(c)
  \/ BeginFinalize(c) \/ BeginResume(c) \/ BeginVerify(c)
Step(c) ==
  \/ PublishHandoff(c) \/ WritePreFinal(c)
  \/ MakeSealDir(c) \/ WriteSeal(c) \/ MakeReceiptDir(c) \/ WriteReceipt(c)
  \/ Evaluate(c) \/ WriteExperiments(c) \/ WriteManifest(c) \/ WriteResult(c)
  \/ ResumeReplay(c) \/ VerifyExperiments(c) \/ VerifyChain(c)
Next ==
  \/ \E c \in Invocations : Starts(c) \/ Step(c) \/ Interrupt(c)
  \/ Checkout \/ Ingest
Spec == Init /\ [][Next]_vars

-----------------------------------------------------------------------------
TypeOK ==
  /\ pc \in [Invocations -> Ready \cup Running]
  /\ asked \in [Invocations -> Identities \cup {None}]
  /\ \A c \in Invocations : pc[c] # "idle" => asked[c] \in Identities
  /\ head \in Commits
  /\ temporary \in {"none", "present", "gone"}
  /\ listed \in SUBSET Invocations
  /\ handoff \in [Datasets -> Handoffs \cup {None}]
  /\ preFinal \in [Datasets -> {"none", "partial", "complete"}]
  /\ sealDirs \in SUBSET SealIds
  /\ seals \in [SealIds -> Identities \cup {None}]
  /\ receiptDirs \in SUBSET Identities
  /\ receipts \in SUBSET Identities
  /\ experiments \in [Datasets -> Commits \cup {None}]
  /\ named \in [Datasets -> Identities \cup {None}]
  /\ complete \in SUBSET Datasets
  /\ granted \in [SealIds -> Nat]
  /\ abandoned \in SUBSET SealIds
  /\ opened \in SUBSET Identities

(* One authorization for each stable identity (final_access.py:301): under *)
(* any race, and whatever workflow run or attempt the callers name, only   *)
(* one of them is ever told that it holds a seal.                          *)
GrantedOnce == \A s \in SealIds : granted[s] <= 1

(* Final rows are only ever materialized under a granted receipt and at    *)
(* the commit of the dataset's handoff, after the development evidence is  *)
(* complete (sealed_evaluator.py:620-648): whatever commits are checked    *)
(* out meanwhile and whichever receipts they were granted, every           *)
(* evaluation of a dataset in this root is under one receipt.              *)
OpenedUnderSeal ==
  /\ \A i \in opened :
       /\ i \in receipts
       /\ preFinal[i.dataset] = "complete"
       /\ handoff[i.dataset].commit = i.commit
  /\ \A i, j \in opened : i.dataset = j.dataset => i = j

(* What strategy-verify verified was evaluated under the receipt that the  *)
(* study names, at the commit of the handoff; the study's files are all of *)
(* that evaluation, and stay.                                              *)
VerifiedWasEvaluated ==
  \A c \in Invocations : pc[c] = "verified" =>
    /\ DatasetOf(c) \in complete
    /\ named[DatasetOf(c)] = asked[c]
    /\ experiments[DatasetOf(c)] = asked[c].commit
    /\ handoff[DatasetOf(c)].commit = asked[c].commit
    /\ asked[c] \in opened

(* A race for a seal has a winner: the directory of a seal belongs to a    *)
(* command that is about to grant it, or it has been granted, unless the   *)
(* command that made it was interrupted; losers alone never leave a seal   *)
(* without its receipt.                                                    *)
SealIsWon ==
  \A s \in sealDirs :
    \/ granted[s] # 0
    \/ s \in abandoned
    \/ \E c \in Invocations : pc[c] \in Authorizing \ {"seal dir"} /\ SealOf(c) = s

(* "Exact resume occurs only through the provider-free strategy-resume     *)
(* command after complete immutable final outputs exist" (the plan of      *)
(* 2026-07-25, line 1026): a study that is complete can be resumed.        *)
CompleteResumes ==
  \A c \in Invocations : pc[c] = "unreconstructed" => DatasetOf(c) \notin complete
=============================================================================
