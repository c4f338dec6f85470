------------------------ MODULE QualificationProofs ------------------------
(***************************************************************************)
(* The qualification commands and the report that they write and verify,   *)
(* for every set of jobs, commits, histories and cases.                    *)
(*                                                                         *)
(* QInv is inductive: what a published file says of the files before it,   *)
(* and what a command in the middle of its work has read.  The other       *)
(* theorems read what a seal, a plan or a classification stands for off    *)
(* the operators that compute it: a plan from the rows where its windows   *)
(* begin and end, a classification from the gates it judged, and the       *)
(* totals of the gates by induction over the subsets of the folds.         *)
(***************************************************************************)
EXTENDS Qualification, FiniteSetTheorems, WellFoundedInduction, TLAPS

-----------------------------------------------------------------------------
(***************************************************************************)
(* Files and jobs: what a published file says of the files before it.      *)
(***************************************************************************)

SealType == [id : BundleIds, at : 0 .. MaxClock, start : 0 .. MaxClock + MonthTicks]

\* The identity of a bundle names the handoff that is published.
Named(id) ==
  /\ handoff # None
  /\ id.commit = handoff.commit /\ id.dataset = handoff.job /\ id.inventory = handoff.inventory
Complete(id) ==
  /\ id \in BundleIds /\ Named(id) /\ Readable(id)
  /\ <<id.commit, "experiments">> \in published
Sealable(id) == Complete(id) /\ Classification = {"QUALIFIED"}
Timely(seal) ==
  Cutoff <= seal.at /\ seal.at < seal.start /\ seal.start <= seal.at + MonthTicks

Handing == {"listed", "hashed", "handed"}
Qualifying == {"executed", "ran", "written"}
Sealers == {"timed", "taken", "sealed"}

Typed ==
  /\ case \in DOMAIN Cases
  /\ head \in Commits
  /\ clock \in 0 .. MaxClock
  /\ handoff \in {None} \cup HandoffType
  /\ marker \in {None} \cup Jobs
  /\ DOMAIN pc = Jobs /\ DOMAIN mind = Jobs

\* What a job has in mind is what it has published so far.
Thinks(j) ==
  /\ pc[j] \in {"idle", "verified"} \cup Handing \cup Qualifying \cup Sealers
  /\ pc[j] \in Handing => mind[j] \in HandoffType
  /\ pc[j] \in Qualifying => mind[j] \in BundleIds /\ Named(mind[j])
  /\ pc[j] \in {"ran", "written"} => <<mind[j].commit, "experiments">> \in published
  /\ pc[j] = "written" => <<mind[j], "payload">> \in published
  /\ pc[j] = "verified" => Sealable(mind[j].id)
  /\ pc[j] \in Sealers => mind[j] \in SealType /\ Timely(mind[j]) /\ Sealable(mind[j].id)
Thoughts == \A j \in Jobs : Thinks(j)

\* A result is written after everything it stands for.
ResultsLast == \A id \in Bundles : Complete(id)

Taking ==
  /\ \A j \in Jobs : pc[j] = "taken" => marker = j /\ seals = {}
  /\ \A j \in Jobs : pc[j] = "sealed" => marker = j
  /\ marker = None => seals = {}

SealsKnown ==
  \A seal \in seals : seal \in SealType /\ Timely(seal) /\ Sealable(seal.id)

QInv == Typed /\ Thoughts /\ ResultsLast /\ Taking /\ SealsKnown

LEMMA InitQ == Init => QInv
<1> SUFFICES ASSUME Init PROVE QInv
  OBVIOUS
<1>1. Typed
  BY ClockAssumption DEF Init, Typed
<1>2. Thoughts
  BY DEF Init, Thoughts, Thinks, Handing, Qualifying, Sealers
<1>3. ResultsLast /\ Taking /\ SealsKnown
  BY DEF Init, ResultsLast, Bundles, Taking, SealsKnown
<1> QED BY <1>1, <1>2, <1>3 DEF QInv

(* No step takes a published file back, or changes the study.              *)
Lasting ==
  /\ handoff # None => handoff' = handoff
  /\ published \subseteq published'
  /\ case' = case

LEMMA NextLasts ==
  ASSUME [Next]_vars
  PROVE  Lasting
BY DEF Next, vars, study, environment, files, local, Lasting, ListDataset, HashDataset,
       PublishHandoff, VerifyHandoff, ExecuteQualification, WriteExperiments, WritePayload,
       WriteResult, VerifyForSeal, ReadClock, TakeCandidate, WriteSeal, WriteSealId, Kill,
       ReportPromotion, MoveHead, Reingest, Tick

LEMMA Kept ==
  ASSUME Lasting, NEW id
  PROVE  /\ Named(id) => Named(id)'
         /\ Readable(id) => Readable(id)'
         /\ Complete(id) => Complete(id)'
         /\ Sealable(id) => Sealable(id)'
<1>1. (Named(id) => Named(id)') /\ (Readable(id) => Readable(id)')
  BY DEF Lasting, Named, Readable
<1>2. Complete(id) => Complete(id)'
  BY <1>1 DEF Lasting, Complete
<1>3. Classification' = Classification
  BY DEF Lasting, Classification
<1> QED BY <1>1, <1>2, <1>3 DEF Sealable

LEMMA OthersThink ==
  ASSUME Lasting, NEW k, Thinks(k), pc'[k] = pc[k], mind'[k] = mind[k]
  PROVE  Thinks(k)'
<1>1. /\ pc[k] \in {"ran", "written"} => <<mind'[k].commit, "experiments">> \in published'
      /\ pc[k] = "written" => <<mind'[k], "payload">> \in published'
  BY DEF Thinks, Lasting
<1>2. /\ pc[k] \in Qualifying => mind[k] \in BundleIds /\ Named(mind[k])'
      /\ pc[k] = "verified" => Sealable(mind[k].id)'
      /\ pc[k] \in Sealers => Sealable(mind[k].id)'
  BY Kept DEF Thinks
<1> QED BY <1>1, <1>2 DEF Thinks, Timely

(* The job that moves is the only one whose thoughts change.               *)
LEMMA OneMoves ==
  ASSUME Typed, NEW j \in Jobs, NEW label, NEW thought, Go(j, label, thought)
  PROVE  /\ pc'[j] = label /\ mind'[j] = thought
         /\ \A k \in Jobs : k # j => pc'[k] = pc[k] /\ mind'[k] = mind[k]
         /\ DOMAIN pc' = Jobs /\ DOMAIN mind' = Jobs
BY DEF Typed, Go

LEMMA ThoughtsMove ==
  ASSUME Typed, Thoughts, Lasting, NEW j \in Jobs, Thinks(j)',
         \A k \in Jobs : k # j => pc'[k] = pc[k] /\ mind'[k] = mind[k]
  PROVE  Thoughts'
BY OthersThink DEF Thoughts

LEMMA BundlesKept ==
  ASSUME Lasting, ResultsLast, Bundles' = Bundles
  PROVE  ResultsLast'
BY Kept DEF ResultsLast

LEMMA SealsKept ==
  ASSUME Lasting, SealsKnown, seals' = seals
  PROVE  SealsKnown'
BY Kept DEF SealsKnown, Timely

(* A step that publishes nothing: what the job has in mind is all there is *)
(* to look at.                                                             *)
LEMMA QuietStep ==
  ASSUME QInv, Lasting, NEW j \in Jobs, NEW label, NEW thought, Go(j, label, thought),
         label \notin {"taken", "sealed"}, UNCHANGED <<study, environment, files>>, Thinks(j)'
  PROVE  QInv'
<1>1. /\ pc'[j] = label /\ mind'[j] = thought
      /\ \A k \in Jobs : k # j => pc'[k] = pc[k] /\ mind'[k] = mind[k]
      /\ DOMAIN pc' = Jobs /\ DOMAIN mind' = Jobs
  BY OneMoves DEF QInv
<1>2. Typed'
  BY <1>1 DEF QInv, Typed, study, environment, files
<1>3. Thoughts'
  BY <1>1, ThoughtsMove DEF QInv
<1>4. ResultsLast' /\ SealsKnown'
  BY BundlesKept, SealsKept DEF QInv, files, Bundles
<1>5. Taking'
  BY <1>1 DEF QInv, Taking, files
<1> QED BY <1>2, <1>3, <1>4, <1>5 DEF QInv

LEMMA StopThinks ==
  ASSUME Typed, NEW j \in Jobs, Stop(j)
  PROVE  Thinks(j)'
<1>1. pc'[j] = "idle"
  BY OneMoves DEF Stop
<1> QED BY <1>1 DEF Thinks, Handing, Qualifying, Sealers

LEMMA StopStep ==
  ASSUME QInv, Lasting, NEW j \in Jobs, Stop(j), UNCHANGED <<study, environment, files>>
  PROVE  QInv'
<1>1. Thinks(j)'
  BY StopThinks DEF QInv
<1> QED BY <1>1, QuietStep DEF Stop

(* Copies of handoff: what is published is what the listing found.         *)
LEMMA HandingThinks ==
  ASSUME Typed, NEW j \in Jobs, NEW label \in Handing, NEW thought \in HandoffType,
         Go(j, label, thought)
  PROVE  Thinks(j)'
<1>1. pc'[j] = label /\ mind'[j] = thought
  BY OneMoves
<1> QED BY <1>1 DEF Thinks, Handing, Qualifying, Sealers

LEMMA ListStep ==
  ASSUME QInv, Lasting, NEW j \in Jobs, ListDataset(j)
  PROVE  QInv'
<1> DEFINE thought == [commit |-> head, job |-> j, inventory |-> Present]
<1>1. thought \in HandoffType
  BY DEF QInv, Typed, HandoffType, Present
<1>2. Go(j, "listed", thought) /\ UNCHANGED <<study, environment, files>>
  BY DEF ListDataset
<1> HIDE DEF thought
<1>3. Thinks(j)'
  BY <1>1, <1>2, HandingThinks DEF QInv, Handing
<1> QED BY <1>2, <1>3, QuietStep

LEMMA HashStep ==
  ASSUME QInv, Lasting, NEW j \in Jobs, HashDataset(j)
  PROVE  QInv'
<1>1. mind[j] \in HandoffType
  BY DEF QInv, Thoughts, Thinks, HashDataset, Handing
<1>2. UNCHANGED <<study, environment, files>>
  BY DEF HashDataset
<1>3. CASE Go(j, "hashed", mind[j])
  BY <1>1, <1>2, <1>3, HandingThinks, QuietStep DEF QInv, Handing
<1>4. CASE Stop(j)
  BY <1>2, <1>4, StopStep
<1> QED BY <1>3, <1>4 DEF HashDataset

LEMMA PublishStep ==
  ASSUME QInv, Lasting, NEW j \in Jobs, PublishHandoff(j)
  PROVE  QInv'
<1>1. mind[j] \in HandoffType
  BY DEF QInv, Thoughts, Thinks, PublishHandoff, Handing
<1>2. PICK label \in {"handed", "idle"}, thought \in {mind[j], None} :
        Go(j, label, thought) /\ (label = "handed" => thought = mind[j])
  BY DEF PublishHandoff, Stop
<1>3. /\ pc'[j] = label /\ mind'[j] = thought
      /\ \A k \in Jobs : k # j => pc'[k] = pc[k] /\ mind'[k] = mind[k]
      /\ DOMAIN pc' = Jobs /\ DOMAIN mind' = Jobs
  BY <1>2, OneMoves DEF QInv
<1>4. Thinks(j)'
  BY <1>1, <1>2, <1>3 DEF Thinks, Handing, Qualifying, Sealers
<1>5. Typed'
  BY <1>1, <1>3 DEF QInv, Typed, PublishHandoff, study, environment
<1>6. Thoughts'
  BY <1>3, <1>4, ThoughtsMove DEF QInv
<1>7. ResultsLast' /\ SealsKnown'
  BY BundlesKept, SealsKept DEF QInv, PublishHandoff, Bundles
<1>8. Taking'
  BY <1>2, <1>3 DEF QInv, Taking, PublishHandoff
<1> QED BY <1>5, <1>6, <1>7, <1>8 DEF QInv

-----------------------------------------------------------------------------
(* The steps of qualify add files in their order.                          *)
LEMMA ExecuteStep ==
  ASSUME QInv, Lasting, NEW j \in Jobs, ExecuteQualification(j)
  PROVE  QInv'
<1>1. handoff \in HandoffType /\ handoff.commit = head /\ handoff # None
  BY DEF QInv, Typed, ExecuteQualification, HandoffHolds
<1>2. BundleId(j) \in BundleIds /\ Named(BundleId(j))
  BY <1>1 DEF BundleId, BundleIds, Named, HandoffType, QInv, Typed
<1>3. Go(j, "executed", BundleId(j)) /\ UNCHANGED <<study, environment, files>>
  BY DEF ExecuteQualification
<1>4. pc'[j] = "executed" /\ mind'[j] = BundleId(j)
  BY <1>3, OneMoves DEF QInv
<1>5. Named(BundleId(j))'
  BY <1>2, <1>3 DEF Named, BundleId, files, environment
<1>6. Thinks(j)'
  <2>1. mind'[j] \in BundleIds /\ Named(mind[j])'
    BY <1>2, <1>3, <1>4 DEF Named, files
  <2> QED BY <1>4, <2>1 DEF Thinks, Handing, Qualifying, Sealers
<1> QED BY <1>3, <1>6, QuietStep

(* One more file, which is not a result, of an identity that the job has   *)
(* in mind.                                                                *)
LEMMA WriteStep ==
  ASSUME QInv, Lasting, NEW j \in Jobs, pc[j] \in Qualifying, NEW label \in {"ran", "written"},
         NEW name, NEW part, part # "result",
         published' = published \cup {<<name, part>>}, Go(j, label, mind[j]),
         <<mind[j].commit, "experiments">> \in published',
         label = "written" => <<mind[j], "payload">> \in published',
         UNCHANGED <<study, environment, handoff, marker, seals, sealId>>
  PROVE  QInv'
<1>1. /\ pc'[j] = label /\ mind'[j] = mind[j]
      /\ \A k \in Jobs : k # j => pc'[k] = pc[k] /\ mind'[k] = mind[k]
      /\ DOMAIN pc' = Jobs /\ DOMAIN mind' = Jobs
  BY OneMoves DEF QInv
<1>2. mind[j] \in BundleIds /\ Named(mind[j])
  BY DEF QInv, Thoughts, Thinks
<1>3. Thinks(j)'
  <2>1. Named(mind[j])'
    BY <1>1, <1>2 DEF Named
  <2> QED BY <1>1, <1>2, <2>1 DEF Thinks, Handing, Qualifying, Sealers
<1>4. Typed'
  BY <1>1 DEF QInv, Typed, study, environment
<1>5. Thoughts'
  BY <1>1, <1>3, ThoughtsMove DEF QInv
<1>6. Bundles' = Bundles
  <2>1. {g \in published' : g[2] = "result"} = {g \in published : g[2] = "result"}
    <3>1. <<name, part>>[2] # "result"
      OBVIOUS
    <3> QED BY <3>1
  <2> QED BY <2>1 DEF Bundles
<1>7. ResultsLast' /\ SealsKnown'
  BY <1>6, BundlesKept, SealsKept DEF QInv
<1>8. Taking'
  BY <1>1 DEF QInv, Taking
<1> QED BY <1>4, <1>5, <1>7, <1>8 DEF QInv

LEMMA ExperimentsStep ==
  ASSUME QInv, Lasting, NEW j \in Jobs, WriteExperiments(j)
  PROVE  QInv'
<1>1. /\ published' = published \cup {<<mind[j].commit, "experiments">>}
      /\ pc[j] = "executed" /\ Go(j, "ran", mind[j])
      /\ UNCHANGED <<study, environment, handoff, marker, seals, sealId>>
  BY DEF WriteExperiments
<1> QED BY <1>1, WriteStep DEF Qualifying

LEMMA PayloadStep ==
  ASSUME QInv, Lasting, NEW j \in Jobs, WritePayload(j)
  PROVE  QInv'
<1>1. /\ published' = published \cup {<<mind[j], "payload">>}
      /\ pc[j] = "ran" /\ Go(j, "written", mind[j])
      /\ UNCHANGED <<study, environment, handoff, marker, seals, sealId>>
  BY DEF WritePayload
<1>2. <<mind[j].commit, "experiments">> \in published
  BY <1>1 DEF QInv, Thoughts, Thinks
<1> QED BY <1>1, <1>2, WriteStep DEF Qualifying

LEMMA ResultStep ==
  ASSUME QInv, Lasting, NEW j \in Jobs, WriteResult(j)
  PROVE  QInv'
<1>1. /\ published' = published \cup {<<mind[j], "result">>} /\ pc[j] = "written" /\ Stop(j)
      /\ UNCHANGED <<study, environment, handoff, marker, seals, sealId>>
  BY DEF WriteResult
<1>2. /\ pc'[j] = "idle" /\ \A k \in Jobs : k # j => pc'[k] = pc[k] /\ mind'[k] = mind[k]
      /\ DOMAIN pc' = Jobs /\ DOMAIN mind' = Jobs
  BY <1>1, OneMoves DEF QInv, Stop
<1>3. /\ mind[j] \in BundleIds /\ Named(mind[j])
      /\ <<mind[j].commit, "experiments">> \in published /\ <<mind[j], "payload">> \in published
  BY <1>1 DEF QInv, Thoughts, Thinks, Qualifying
<1>4. ResultsLast'
  <2> SUFFICES ASSUME NEW id \in Bundles' PROVE Complete(id)'
    BY DEF ResultsLast
  <2>1. id \in Bundles \/ id = mind[j]
    BY <1>1 DEF Bundles
  <2>2. CASE id \in Bundles
    BY <2>2, Kept DEF QInv, ResultsLast
  <2>3. CASE id = mind[j]
    BY <1>1, <1>3, <2>3, Kept DEF Complete, Readable
  <2> QED BY <2>1, <2>2, <2>3
<1>5. Thoughts'
  BY <1>1, <1>2, StopThinks, ThoughtsMove DEF QInv
<1>6. Typed' /\ SealsKnown' /\ Taking'
  BY <1>1, <1>2, SealsKept DEF QInv, Typed, Taking, study, environment
<1> QED BY <1>4, <1>5, <1>6 DEF QInv

-----------------------------------------------------------------------------
(* The steps of seal.                                                      *)
LEMMA VerifyStep ==
  ASSUME QInv, Lasting, NEW j \in Jobs, NEW id \in Bundles, VerifyForSeal(j, id)
  PROVE  QInv'
<1>1. Go(j, "verified", [id |-> id]) /\ UNCHANGED <<study, environment, files>>
  BY DEF VerifyForSeal
<1>2. Sealable(id)'
  <2>1. Sealable(id)
    BY DEF QInv, ResultsLast, Sealable, VerifyForSeal
  <2> QED BY <2>1, Kept
<1>3. pc'[j] = "verified" /\ mind'[j].id = id
  <2>1. pc'[j] = "verified" /\ mind'[j] = [id |-> id]
    BY <1>1, OneMoves DEF QInv
  <2> QED BY <2>1
<1>4. Thinks(j)'
  BY <1>2, <1>3 DEF Thinks, Handing, Qualifying, Sealers
<1> QED BY <1>1, <1>4, QuietStep

(* The window begins with the first month after the verification.          *)
LEMMA NextMonth ==
  ASSUME NEW now \in Nat
  PROVE  FinalStart(now) \in Nat /\ now < FinalStart(now) /\ FinalStart(now) <= now + MonthTicks
<1> DEFINE q == now \div MonthTicks
<1>1. MonthTicks \in Nat \ {0}
  BY ClockAssumption
<1>2. q \in Nat /\ q * MonthTicks <= now /\ now < (q + 1) * MonthTicks
  BY <1>1, Z3
<1> HIDE DEF q
<1>3. (q + 1) * MonthTicks = q * MonthTicks + MonthTicks /\ (q + 1) * MonthTicks \in Nat
  BY <1>1, <1>2
<1>4. q * MonthTicks \in Nat
  BY <1>1, <1>2
<1> QED BY <1>1, <1>2, <1>3, <1>4 DEF FinalStart, q

LEMMA ReadStep ==
  ASSUME QInv, Lasting, NEW j \in Jobs, ReadClock(j)
  PROVE  QInv'
<1> DEFINE thought == [id |-> mind[j].id, at |-> clock, start |-> FinalStart(clock)]
<1>1. UNCHANGED <<study, environment, files>> /\ pc[j] = "verified" /\ Sealable(mind[j].id)
  BY DEF ReadClock, QInv, Thoughts, Thinks
<1>2. CASE Stop(j)
  BY <1>1, <1>2, StopStep
<1>3. CASE clock >= Cutoff /\ Go(j, "timed", thought)
  <2>1. thought \in SealType /\ Timely(thought)
    <3>1. /\ clock \in Nat /\ clock <= MaxClock
          /\ Cutoff \in Nat /\ MaxClock \in Nat /\ MonthTicks \in Nat
      BY ClockAssumption DEF QInv, Typed
    <3>2. FinalStart(clock) \in 0 .. MaxClock + MonthTicks
      BY <3>1, NextMonth
    <3>3. mind[j].id \in BundleIds
      BY <1>1 DEF Sealable, Complete
    <3>4. thought \in SealType
      BY <3>1, <3>2, <3>3 DEF SealType
    <3>5. Timely(thought)
      BY <1>3, <3>1, NextMonth DEF Timely
    <3> QED BY <3>4, <3>5
  <2>2. thought.id = mind[j].id
    OBVIOUS
  <2> HIDE DEF thought
  <2>3. pc'[j] = "timed" /\ mind'[j] = thought
    BY <1>3, OneMoves DEF QInv
  <2>4. PICK id : id = mind[j].id
    OBVIOUS
  <2>5. Sealable(id)' /\ mind'[j].id = id
    BY <1>1, <2>2, <2>3, <2>4, Kept
  <2>6. Sealable(mind[j].id)'
    BY <2>5
  <2>7. mind'[j] \in SealType /\ Timely(mind'[j])
    BY <2>1, <2>3
  <2>8. Thinks(j)'
    BY <2>3, <2>6, <2>7 DEF Thinks, Handing, Qualifying, Sealers, Timely
  <2> QED BY <1>1, <1>3, <2>8, QuietStep
<1> QED BY <1>2, <1>3 DEF ReadClock

(* A job that goes on with the seal it has in mind.                        *)
LEMMA SealerThinks ==
  ASSUME QInv, Lasting, NEW j \in Jobs, pc[j] \in Sealers, NEW label \in Sealers,
         Go(j, label, mind[j])
  PROVE  Thinks(j)'
<1>1. pc'[j] = label /\ mind'[j] = mind[j]
  BY OneMoves DEF QInv
<1>2. mind[j] \in SealType /\ Timely(mind[j]) /\ Sealable(mind[j].id)
  BY DEF QInv, Thoughts, Thinks
<1>3. Sealable(mind[j].id)'
  <2>1. \A id : Sealable(id) => Sealable(id)'
    BY Kept
  <2>2. mind'[j].id = mind[j].id
    BY <1>1
  <2>3. PICK id : id = mind[j].id
    OBVIOUS
  <2>4. Sealable(id)'
    BY <1>2, <2>1, <2>3
  <2> QED BY <2>2, <2>3, <2>4 DEF Sealable, Complete, Named, Readable
<1> QED BY <1>1, <1>2, <1>3 DEF Thinks, Handing, Qualifying, Sealers, Timely

LEMMA TakeStep ==
  ASSUME QInv, Lasting, NEW j \in Jobs, TakeCandidate(j)
  PROVE  QInv'
<1>1. /\ pc[j] = "timed" /\ marker' = IF marker = None THEN j ELSE marker
      /\ UNCHANGED <<study, environment, handoff, published, seals, sealId>>
  BY DEF TakeCandidate
<1>2. CASE marker = None
  <2>1. Go(j, "taken", mind[j]) /\ marker' = j
    BY <1>2 DEF TakeCandidate
  <2>2. /\ pc'[j] = "taken" /\ \A k \in Jobs : k # j => pc'[k] = pc[k] /\ mind'[k] = mind[k]
        /\ DOMAIN pc' = Jobs /\ DOMAIN mind' = Jobs
    BY <2>1, OneMoves DEF QInv
  <2>3. Thoughts'
    BY <1>1, <2>1, <2>2, SealerThinks, ThoughtsMove DEF QInv, Sealers
  <2>4. Taking'
    <3>1. \A k \in Jobs : pc[k] \notin {"taken", "sealed"}
      BY <1>2, NoneAssumption DEF QInv, Taking
    <3>2. seals' = {}
      BY <1>1, <1>2 DEF QInv, Taking
    <3> QED BY <2>1, <2>2, <3>1, <3>2 DEF Taking
  <2>5. Typed' /\ ResultsLast' /\ SealsKnown'
    BY <1>1, <2>1, <2>2, BundlesKept, SealsKept DEF QInv, Typed, study, environment, Bundles
  <2> QED BY <2>3, <2>4, <2>5 DEF QInv
<1>3. CASE marker # None
  <2>1. Stop(j) /\ UNCHANGED <<study, environment, files>>
    BY <1>1, <1>3 DEF TakeCandidate, files
  <2> QED BY <2>1, StopStep
<1> QED BY <1>2, <1>3

LEMMA SealStep ==
  ASSUME QInv, Lasting, NEW j \in Jobs, WriteSeal(j)
  PROVE  QInv'
<1>1. /\ pc[j] = "taken" /\ seals' = seals \cup {mind[j]} /\ Go(j, "sealed", mind[j])
      /\ UNCHANGED <<study, environment, handoff, published, marker, sealId>>
  BY DEF WriteSeal
<1>2. /\ pc'[j] = "sealed" /\ mind'[j] = mind[j]
      /\ \A k \in Jobs : k # j => pc'[k] = pc[k] /\ mind'[k] = mind[k]
      /\ DOMAIN pc' = Jobs /\ DOMAIN mind' = Jobs
  BY <1>1, OneMoves DEF QInv
<1>3. Thinks(j)'
  BY <1>1, SealerThinks DEF Sealers
<1>4. Thoughts'
  BY <1>2, <1>3, ThoughtsMove DEF QInv
<1>5. SealsKnown'
  <2>1. mind[j] \in SealType /\ Timely(mind[j]) /\ Sealable(mind[j].id)
    BY <1>1 DEF QInv, Thoughts, Thinks, Sealers
  <2> SUFFICES ASSUME NEW seal \in seals'
               PROVE  seal \in SealType /\ Timely(seal) /\ Sealable(seal.id)'
    BY DEF SealsKnown, Timely
  <2>2. seal \in SealType /\ Timely(seal) /\ Sealable(seal.id)
    BY <1>1, <2>1 DEF QInv, SealsKnown
  <2> QED BY <2>2, Kept
<1>6. Taking'
  BY <1>1, <1>2, NoneAssumption DEF QInv, Taking
<1>7. Typed' /\ ResultsLast'
  BY <1>1, <1>2, BundlesKept DEF QInv, Typed, study, environment, Bundles
<1> QED BY <1>4, <1>5, <1>6, <1>7 DEF QInv

LEMMA SealIdStep ==
  ASSUME QInv, Lasting, NEW j \in Jobs, WriteSealId(j)
  PROVE  QInv'
<1>1. Stop(j) /\ UNCHANGED <<study, environment, handoff, published, marker, seals>>
  BY DEF WriteSealId
<1>2. /\ pc'[j] = "idle" /\ \A k \in Jobs : k # j => pc'[k] = pc[k] /\ mind'[k] = mind[k]
      /\ DOMAIN pc' = Jobs /\ DOMAIN mind' = Jobs
  BY <1>1, OneMoves DEF QInv, Stop
<1>3. Thoughts'
  BY <1>1, <1>2, StopThinks, ThoughtsMove DEF QInv
<1>4. Typed' /\ ResultsLast' /\ SealsKnown' /\ Taking'
  BY <1>1, <1>2, BundlesKept, SealsKept DEF QInv, Typed, Taking, study, environment, Bundles
<1> QED BY <1>3, <1>4 DEF QInv

(* The world around the jobs.                                              *)
LEMMA WorldStep ==
  ASSUME QInv, Lasting, UNCHANGED <<files, local>>, head' \in Commits, clock' \in 0 .. MaxClock
  PROVE  QInv'
<1>1. Thoughts'
  BY OthersThink DEF QInv, Thoughts, local
<1>2. Typed' /\ ResultsLast' /\ SealsKnown' /\ Taking'
  BY BundlesKept, SealsKept DEF QInv, Typed, Taking, files, local, Bundles, Lasting
<1> QED BY <1>1, <1>2 DEF QInv

LEMMA StepQ == QInv /\ [Next]_vars => QInv'
<1> SUFFICES ASSUME QInv, [Next]_vars PROVE QInv'
  OBVIOUS
<1>1. Lasting
  BY NextLasts
<1>2. head \in Commits /\ clock \in 0 .. MaxClock /\ MaxClock \in Nat
  BY ClockAssumption DEF QInv, Typed
<1>3. ASSUME NEW j \in Jobs, Kill(j) \/ VerifyHandoff(j) PROVE QInv'
  BY <1>1, <1>3, StopStep DEF Kill, VerifyHandoff
<1>4. CASE ReportPromotion
  BY <1>1, <1>2, <1>4, WorldStep DEF ReportPromotion, environment
<1>5. CASE MoveHead
  BY <1>1, <1>2, <1>5, WorldStep DEF MoveHead
<1>6. CASE Reingest
  BY <1>1, <1>2, <1>6, WorldStep DEF Reingest
<1>7. CASE Tick
  <2>1. clock' \in 0 .. MaxClock
    BY <1>2, <1>7 DEF Tick
  <2> QED BY <1>1, <1>2, <1>7, <2>1, WorldStep DEF Tick
<1>8. CASE UNCHANGED vars
  BY <1>1, <1>2, <1>8, WorldStep DEF vars, environment
<1> QED BY <1>1, <1>3, <1>4, <1>5, <1>6, <1>7, <1>8, ListStep, HashStep, PublishStep,
           ExecuteStep, ExperimentsStep, PayloadStep, ResultStep, VerifyStep, ReadStep,
           TakeStep, SealStep, SealIdStep DEF Next

THEOREM CommandsHold == Spec => []QInv
BY InitQ, StepQ, PTL DEF Spec

(* Only the job that took the candidate publishes, once, whatever jobs are *)
(* killed and however they interleave (prospective_seal_v0_3.py:249-262).  *)
THEOREM SealsOnce == Spec => ImplementsSealOnce
<1>1. Init => Sealing!Init
  BY DEF Init, Sealing!Init
<1>2. QInv /\ [Next]_vars => [Sealing!Next]_(Sealing!vars)
  <2> SUFFICES ASSUME QInv, [Next]_vars PROVE [Sealing!Next]_(Sealing!vars)
    OBVIOUS
  <2>1. ASSUME NEW j \in Jobs, TakeCandidate(j) PROVE [Sealing!Next]_(Sealing!vars)
    BY <2>1 DEF TakeCandidate, Sealing!Next, Sealing!Take, Sealing!vars
  <2>2. ASSUME NEW j \in Jobs, WriteSeal(j) PROVE [Sealing!Next]_(Sealing!vars)
    <3>1. marker = j /\ seals = {}
      BY <2>2 DEF WriteSeal, QInv, Taking
    <3>2. mind[j] \in SealType
      BY <2>2 DEF WriteSeal, QInv, Thoughts, Thinks, Sealers
    <3>3. seals' = {mind[j]} /\ marker' = marker
      BY <2>2, <3>1 DEF WriteSeal
    <3> QED BY <3>1, <3>2, <3>3 DEF Sealing!Next, Sealing!Seal, SealType
  <2>3. ASSUME UNCHANGED <<marker, seals>> PROVE [Sealing!Next]_(Sealing!vars)
    BY <2>3 DEF Sealing!vars
  <2> QED BY <2>1, <2>2, <2>3 DEF Next, vars, files, ListDataset, HashDataset,
       PublishHandoff, VerifyHandoff, ExecuteQualification, WriteExperiments, WritePayload,
       WriteResult, VerifyForSeal, ReadClock, WriteSealId, Kill, ReportPromotion, MoveHead,
       Reingest, Tick
<1> QED BY <1>1, <1>2, CommandsHold, PTL DEF Spec, ImplementsSealOnce, Sealing!Spec

-----------------------------------------------------------------------------
(***************************************************************************)
(* The report: the replay from the artifacts of a run reaches the same     *)
(* evidence.                                                               *)
(***************************************************************************)

\* Tabulated is for TLC.
LEMMA TabulatedIs == \A f : Tabulated(f) = f
BY DEF Tabulated

LEMMA SelectivityReplays ==
  ASSUME NEW case_
  PROVE  ReplayedSelectivity(Thresholds(case_)) = ExecutedSelectivity(Thresholds(case_))
<1> DEFINE threshold == [key \in Specialists \X Percentiles |-> Threshold(case_.scores[key[1]], key[2])]
           all == [key \in (1 .. 12) \X Specialists \X Percentiles |-> threshold[<<key[2], key[3]>>]]
<1>1. Thresholds(case_) = all
  BY TabulatedIs DEF Thresholds
<1>2. \A key \in DOMAIN all : Threshold(all[key].scores, all[key].percentile) = all[key]
  <2> SUFFICES ASSUME NEW key \in (1 .. 12) \X Specialists \X Percentiles
               PROVE  Threshold(all[key].scores, all[key].percentile) = all[key]
    OBVIOUS
  <2> DEFINE scores == case_.scores[key[2]]
             percentile == key[3]
  <2>1. all[key] = Threshold(scores, percentile)
    OBVIOUS
  <2>2. Threshold(scores, percentile).scores = scores
        /\ Threshold(scores, percentile).percentile = percentile
    BY DEF Threshold
  <2> QED BY <2>1, <2>2
<1> HIDE DEF all
<1>3. ReplayedSelectivity(all) = ExecutedSelectivity(all)
  BY <1>2 DEF ReplayedSelectivity, ExecutedSelectivity
<1> QED BY <1>1, <1>3

LEMMA ReplayIsExecution ==
  ASSUME NEW c, NEW run \in Execute(c)
  PROVE  Replay(c, run) = run
<1> DEFINE plan == Plans[c.history][c.version]
<1>1. run = ExecutedOn(c, plan, Thresholds(c))
  BY DEF Execute, ExecuteOn
<1>2. run.thresholds = Thresholds(c)
  BY <1>1 DEF ExecutedOn, Report
<1>3. ReplayedEnds(Histories[c.history], plan) = ExecutedEnds(Histories[c.history], plan)
  BY DEF ReplayedEnds, ExecutedEnds, ReplayedEnd, ExecutedEnd, EvaluationEnd
<1> HIDE DEF plan
<1>4. ReplayOn(c, plan, Thresholds(c)) = ExecutedOn(c, plan, Thresholds(c))
  BY <1>3, SelectivityReplays DEF ReplayOn, ExecutedOn
<1> QED BY <1>1, <1>2, <1>4 DEF Replay, plan

LEMMA RunsAre ==
  ASSUME NEW name \in DOMAIN Cases
  PROVE  /\ Runs[name] = RunOf(name)
         /\ Replays[name] = ReplayOf(name)
         /\ ReplayMatches[name] = MatchOf(name)
         /\ Promotions[name] = PromotionOf(name)
         /\ ClosedFails[name] = ClosedFor(name)
         /\ EarnedBy[name] = Earned(Cases[name])
BY TabulatedIs DEF Runs, Replays, ReplayMatches, Promotions, ClosedFails, EarnedBy, PerCase

LEMMA ReplaysMatch ==
  ASSUME NEW name \in DOMAIN Cases
  PROVE  ReplayMatches[name]
<1>1. \A run \in Runs[name] : Replay(Cases[name], run) = run
  BY ReplayIsExecution, RunsAre DEF RunOf
<1>2. Replays[name] = Runs[name]
  BY <1>1, RunsAre DEF ReplayOf
<1>3. \A run, again \in Runs[name] : again = run
  BY RunsAre DEF RunOf, Execute, ExecuteOn
<1>4. MatchOf(name)
  BY <1>2, <1>3 DEF MatchOf
<1> QED BY <1>4, RunsAre

(* A complete bundle of this commit, whose dataset is as it was handed     *)
(* over, verifies, in every interleaving and for every study: the          *)
(* verification never refuses what the executor wrote                      *)
(* (qualification_verification_v0_3.py:208).                               *)
THEOREM BundlesVerify == Spec => []ReplayAgrees
<1>1. QInv => ReplayAgrees
  <2> SUFFICES ASSUME QInv, NEW id \in Bundles, id.commit = head, HandoffIsOf(id), LockedSpelling
               PROVE  Verifies(id)
    BY DEF ReplayAgrees
  <2>1. Readable(id) /\ <<id.commit, "experiments">> \in published
    BY DEF QInv, ResultsLast, Complete
  <2>2. ReplayMatches[case]
    BY ReplaysMatch DEF QInv, Typed
  <2> QED BY <2>1, <2>2 DEF Verifies
<1> QED BY <1>1, CommandsHold, PTL

-----------------------------------------------------------------------------
(***************************************************************************)
(* The gates: one that fails, or has nothing to judge, keeps the           *)
(* classification from being the best one.                                 *)
(***************************************************************************)

Spoils(gates) == \E gate \in DOMAIN gates : gates[gate] \in {"missing", "fail"}

LEMMA SpoiledIsNotBest ==
  ASSUME NEW gates, Spoils(gates), NEW best, best \notin {"REJECTED", "INCONCLUSIVE"}
  PROVE  Classify(gates, best) # best
BY DEF Spoils, Classify, Range

LEMMA SpoiledTogether ==
  ASSUME NEW f, NEW g, DOMAIN f \cap DOMAIN g = {}, Spoils(f) \/ Spoils(g)
  PROVE  Spoils(f ++ g)
<1>1. \A x \in DOMAIN f : x \in DOMAIN (f ++ g) /\ (f ++ g)[x] = f[x]
  BY DEF ++
<1>2. \A x \in DOMAIN g : x \in DOMAIN (f ++ g) /\ (f ++ g)[x] = g[x]
  BY DEF ++
<1> QED BY <1>1, <1>2 DEF Spoils

LEMMA DomainTogether == \A f, g : DOMAIN (f ++ g) = DOMAIN f \cup DOMAIN g
BY DEF ++

\* The names of the gates.
BooleanNames ==
  {"integrity", "determinism", "calibration", "shuffled", "delayed", "noVolume", "noProtection",
   "replay", "independent"}
DevelopmentNames == {"foldCount", "positiveFolds", "baselineFolds", "concentration", "tradeCount"}
CostNames == {"halfReturn", "halfDrawdown", "doubleReturn", "doubleDrawdown", "monotonicity"}
SensitivityNames == {"positiveNeighbors", "medianReturn", "neighborDrawdown", "stability"}
BootstrapNames == {"bootstrapMedian", "bootstrapLower"}
CommonNames == BooleanNames \cup DevelopmentNames \cup CostNames \cup BootstrapNames

LEMMA PartDomains ==
  /\ \A folds, enough : DOMAIN Development(folds, enough) = DevelopmentNames
  /\ \A net, half, double : DOMAIN CostGates(net, half, double) = CostNames
  /\ \A net, neighbors, enough : DOMAIN SensitivityGates(net, neighbors, enough) = SensitivityNames
  /\ \A bootstrap : DOMAIN BootstrapGates(bootstrap) = BootstrapNames
  /\ DOMAIN NoSensitivity = SensitivityNames
<1>1. \A folds, enough : DOMAIN Development(folds, enough) = DevelopmentNames
  BY DEF Development, DevelopmentNames
<1>2. \A net, half, double : DOMAIN CostGates(net, half, double) = CostNames
  BY DEF CostGates, CostNames
<1>3. \A net, neighbors, enough : DOMAIN SensitivityGates(net, neighbors, enough) = SensitivityNames
  BY DEF SensitivityGates, SensitivityNames
<1>4. \A bootstrap : DOMAIN BootstrapGates(bootstrap) = BootstrapNames
  BY DEF BootstrapGates, BootstrapNames
<1>5. DOMAIN NoSensitivity = SensitivityNames
  BY DEF NoSensitivity, SensitivityNames
<1> QED BY <1>1, <1>2, <1>3, <1>4, <1>5

\* A fold without one of its two ratios, or folds that are not twelve.
FoldsLack(folds) ==
  \/ \E n \in DOMAIN folds : Missing(folds[n].rtd) \/ Missing(folds[n].baseline)

LEMMA DevelopmentSpoils ==
  ASSUME NEW folds, NEW enough, FoldsLack(folds) \/ ~ enough
  PROVE  Spoils(Development(folds, enough))
<1> DEFINE gates == Development(folds, enough)
<1>1. "baselineFolds" \in DOMAIN gates /\ "foldCount" \in DOMAIN gates
  BY PartDomains DEF DevelopmentNames
<1>2. CASE FoldsLack(folds)
  <2>1. gates["baselineFolds"] = "missing"
    BY <1>2 DEF Development, FoldsLack
  <2> QED BY <1>1, <2>1 DEF Spoils
<1>3. CASE ~ enough
  <2>1. gates["foldCount"] = "fail"
    BY <1>3 DEF Development, Judge
  <2> QED BY <1>1, <2>1 DEF Spoils
<1> QED BY <1>2, <1>3

LEMMA CostSpoils ==
  ASSUME NEW net, NEW half, NEW double, Missing(net) \/ Missing(half) \/ Missing(double)
  PROVE  Spoils(CostGates(net, half, double))
<1>1. "monotonicity" \in DOMAIN CostGates(net, half, double)
  BY PartDomains DEF CostNames
<1>2. CostGates(net, half, double)["monotonicity"] = "missing"
  BY DEF CostGates
<1> QED BY <1>1, <1>2 DEF Spoils

LEMMA BootstrapSpoils ==
  ASSUME NEW bootstrap, Missing(bootstrap)
  PROVE  Spoils(BootstrapGates(bootstrap))
<1>1. "bootstrapMedian" \in DOMAIN BootstrapGates(bootstrap)
  BY PartDomains DEF BootstrapNames
<1>2. BootstrapGates(bootstrap)["bootstrapMedian"] = "missing"
  BY DEF BootstrapGates
<1> QED BY <1>1, <1>2 DEF Spoils

LEMMA SensitivitySpoils ==
  /\ Spoils(NoSensitivity)
  /\ \A net, neighbors : Spoils(SensitivityGates(net, neighbors, FALSE))
<1>1. Spoils(NoSensitivity)
  BY DEF Spoils, NoSensitivity
<1>2. ASSUME NEW net, NEW neighbors PROVE Spoils(SensitivityGates(net, neighbors, FALSE))
  <2>1. "positiveNeighbors" \in DOMAIN SensitivityGates(net, neighbors, FALSE)
    BY PartDomains DEF SensitivityNames
  <2>2. SensitivityGates(net, neighbors, FALSE)["positiveNeighbors"] = "fail"
    BY DEF SensitivityGates, Judge
  <2> QED BY <2>1, <2>2 DEF Spoils
<1> QED BY <1>1, <1>2

\* What the gates of v0.2 and v0.3 have in common, lacking.
CommonLack(e) ==
  \/ Missing(e.integrity) \/ Missing(e.calibration) \/ Missing(e.shuffled) \/ Missing(e.delayed)
  \/ Missing(e.volume) \/ Missing(e.protection) \/ Missing(e.replay) \/ Missing(e.independent)
  \/ Missing(e.determinism) \/ DOMAIN The(e.determinism) # 1 .. 12
  \/ FoldsLack(e.folds) \/ Len(e.folds) # 12
  \/ Missing(e.primaryNet) \/ Missing(e.half) \/ Missing(e.double)
  \/ Missing(e.bootstrap)

LEMMA DeterminismSpoils ==
  ASSUME NEW receipts, Missing(receipts) \/ DOMAIN The(receipts) # 1 .. 12
  PROVE  TrendDeterminism(receipts) \in {"missing", "fail"}
<1>1. CASE Missing(receipts)
  BY <1>1 DEF TrendDeterminism
<1>2. CASE ~ Missing(receipts) /\ DOMAIN The(receipts) # 1 .. 12
  <2> DEFINE r == The(receipts)
             folds == [n \in DOMAIN r |-> r[n].fold]
             wanted == [n \in 1 .. 12 |-> n]
  <2>1. DOMAIN folds # DOMAIN wanted
    BY <1>2
  <2>2. folds # wanted
    BY <2>1
  <2> QED BY <1>2, <2>2 DEF TrendDeterminism, Judge
<1> QED BY <1>1, <1>2

LEMMA CommonSpoils ==
  ASSUME NEW e
  PROVE  /\ DOMAIN CommonGates(e) = CommonNames
         /\ CommonLack(e) => Spoils(CommonGates(e))
         /\ \/ Boolean(e.shuffled) = "fail"
            \/ Spoils(Development(e.folds, Len(e.folds) = 12))
            \/ Spoils(CostGates(e.primaryNet, e.half, e.double))
            => Spoils(CommonGates(e))
<1> DEFINE R == [integrity |-> Boolean(e.integrity),
                 determinism |-> TrendDeterminism(e.determinism),
                 calibration |-> Boolean(e.calibration),
                 shuffled |-> Boolean(e.shuffled),
                 delayed |-> Boolean(e.delayed),
                 noVolume |-> Boolean(e.volume),
                 noProtection |-> Boolean(e.protection),
                 replay |-> Boolean(e.replay),
                 independent |-> Boolean(e.independent)]
           D == Development(e.folds, Len(e.folds) = 12)
           C == CostGates(e.primaryNet, e.half, e.double)
           B == BootstrapGates(e.bootstrap)
<1>1. CommonGates(e) = ((R ++ D) ++ C) ++ B
  BY DEF CommonGates
<1>2. DOMAIN R = BooleanNames
  BY DEF BooleanNames
<1>3. DOMAIN D = DevelopmentNames /\ DOMAIN C = CostNames /\ DOMAIN B = BootstrapNames
  BY PartDomains
<1>4. CommonLack(e) => Spoils(R) \/ Spoils(D) \/ Spoils(C) \/ Spoils(B)
  <2>1. Missing(e.determinism) \/ DOMAIN The(e.determinism) # 1 .. 12 => Spoils(R)
    <3>1. "determinism" \in DOMAIN R /\ R["determinism"] = TrendDeterminism(e.determinism)
      OBVIOUS
    <3> QED BY <3>1, DeterminismSpoils DEF Spoils
  <2>2. \/ Missing(e.integrity) \/ Missing(e.calibration) \/ Missing(e.shuffled)
        \/ Missing(e.delayed) \/ Missing(e.volume) \/ Missing(e.protection)
        \/ Missing(e.replay) \/ Missing(e.independent)
        => Spoils(R)
    <3>1. \A option : Missing(option) => Boolean(option) \in {"missing", "fail"}
      BY DEF Boolean
    <3>2. /\ R["integrity"] = Boolean(e.integrity) /\ R["calibration"] = Boolean(e.calibration)
          /\ R["shuffled"] = Boolean(e.shuffled) /\ R["delayed"] = Boolean(e.delayed)
          /\ R["noVolume"] = Boolean(e.volume) /\ R["noProtection"] = Boolean(e.protection)
          /\ R["replay"] = Boolean(e.replay) /\ R["independent"] = Boolean(e.independent)
      OBVIOUS
    <3> HIDE DEF R
    <3> QED BY <1>2, <3>1, <3>2 DEF Spoils, BooleanNames
  <2>3. FoldsLack(e.folds) \/ Len(e.folds) # 12 => Spoils(D)
    BY DevelopmentSpoils
  <2>4. Missing(e.primaryNet) \/ Missing(e.half) \/ Missing(e.double) => Spoils(C)
    BY CostSpoils
  <2>5. Missing(e.bootstrap) => Spoils(B)
    BY BootstrapSpoils
  <2> HIDE DEF R, D, C, B
  <2> QED BY <2>1, <2>2, <2>3, <2>4, <2>5 DEF CommonLack
<1>4a. Boolean(e.shuffled) = "fail" => Spoils(R)
  <2>1. "shuffled" \in DOMAIN R /\ R["shuffled"] = Boolean(e.shuffled)
    OBVIOUS
  <2> HIDE DEF R
  <2> QED BY <2>1 DEF Spoils
<1>4b. /\ Development(e.folds, Len(e.folds) = 12) = D
      /\ CostGates(e.primaryNet, e.half, e.double) = C
  OBVIOUS
<1> HIDE DEF R, D, C, B
<1>5. /\ DOMAIN (R ++ D) = BooleanNames \cup DevelopmentNames
      /\ DOMAIN ((R ++ D) ++ C) = BooleanNames \cup DevelopmentNames \cup CostNames
      /\ DOMAIN (((R ++ D) ++ C) ++ B) = CommonNames
  <2>1. DOMAIN (R ++ D) = BooleanNames \cup DevelopmentNames
    BY <1>2, <1>3, DomainTogether
  <2>2. DOMAIN ((R ++ D) ++ C) = DOMAIN (R ++ D) \cup DOMAIN C
    BY DomainTogether
  <2>3. DOMAIN (((R ++ D) ++ C) ++ B) = DOMAIN ((R ++ D) ++ C) \cup DOMAIN B
    BY DomainTogether
  <2> QED BY <1>3, <2>1, <2>2, <2>3 DEF CommonNames
<1>6. /\ BooleanNames \cap DevelopmentNames = {}
      /\ (BooleanNames \cup DevelopmentNames) \cap CostNames = {}
      /\ (BooleanNames \cup DevelopmentNames \cup CostNames) \cap BootstrapNames = {}
  BY DEF BooleanNames, DevelopmentNames, CostNames, BootstrapNames
<1>7. /\ Spoils(R) \/ Spoils(D) => Spoils(R ++ D)
      /\ Spoils(R ++ D) \/ Spoils(C) => Spoils((R ++ D) ++ C)
      /\ Spoils((R ++ D) ++ C) \/ Spoils(B) => Spoils(((R ++ D) ++ C) ++ B)
  BY <1>2, <1>3, <1>5, <1>6, SpoiledTogether
<1> QED BY <1>1, <1>4, <1>4a, <1>4b, <1>5, <1>7

\* The gates of v0.3 and of v0.2 on top of those, lacking.
SelectivityLack(receipts) ==
  Missing(receipts) \/ ~ Inventoried(receipts, {75}) \/ ~ Inventoried(receipts, Percentiles \ {75})
NeighborsLack(neighbors) == Missing(neighbors) \/ Len(The(neighbors)) # 10
AblationLack(e) ==
  Missing(e.primaryRtd) \/ Missing(e.primaryDd) \/ Missing(e.ablationRtd) \/ Missing(e.ablationDd)

LEMMA AblationSpoils ==
  ASSUME NEW e, AblationLack(e)
  PROVE  NoPercentileSelectivity(e) \in {"missing", "fail"}
<1>1. CASE Missing(e.primaryDd) \/ Missing(e.ablationDd)
  BY <1>1 DEF NoPercentileSelectivity
<1>2. CASE ~ (Missing(e.primaryDd) \/ Missing(e.ablationDd))
  <2> DEFINE primary == [rtd |-> e.primaryRtd, dd |-> The(e.primaryDd)]
             ablation == [rtd |-> e.ablationRtd, dd |-> The(e.ablationDd)]
  <2>1. primary.rtd = e.primaryRtd /\ ablation.rtd = e.ablationRtd
    OBVIOUS
  <2>2. Missing(e.primaryRtd) \/ Missing(e.ablationRtd)
    BY <1>2 DEF AblationLack
  <2> HIDE DEF primary, ablation
  <2>3. ComponentSupported(primary, ablation, FALSE) = FALSE
    BY <2>1, <2>2 DEF ComponentSupported
  <2>4. NoPercentileSelectivity(e) = Judge(ComponentSupported(primary, ablation, FALSE))
    BY <1>2 DEF NoPercentileSelectivity, primary, ablation
  <2> QED BY <2>3, <2>4 DEF Judge
<1> QED BY <1>1, <1>2

LEMMA SpoilsV03 ==
  ASSUME NEW e,
         \/ Spoils(CommonGates(e)) \/ SelectivityLack(e.selectivity) \/ NeighborsLack(e.neighbors)
         \/ AblationLack(e)
  PROVE  Spoils(GatesV03(e))
<1> DEFINE R == [selectivity |-> SelectivityReplay(e.selectivity),
                 noSelectivity |-> NoPercentileSelectivity(e)]
           S == IF SensitivitySelectivityComplete(e.selectivity) /\ ~ Missing(e.neighbors)
                  THEN SensitivityGates(e.primaryNet, The(e.neighbors), Len(The(e.neighbors)) = 10)
                  ELSE NoSensitivity
           C == CommonGates(e)
<1>1. GatesV03(e) = (R ++ S) ++ C
  BY DEF GatesV03
<1>2. DOMAIN R = {"selectivity", "noSelectivity"} /\ DOMAIN S = SensitivityNames
      /\ DOMAIN C = CommonNames
  BY PartDomains, CommonSpoils
<1>3. Spoils(CommonGates(e)) => Spoils(C)
  OBVIOUS
<1>4. SelectivityLack(e.selectivity) => Spoils(R) \/ Spoils(S)
  <2>1. CASE Missing(e.selectivity) \/ ~ Inventoried(e.selectivity, {75})
    <3>1. "selectivity" \in DOMAIN R /\ R["selectivity"] = SelectivityReplay(e.selectivity)
      OBVIOUS
    <3>2. SelectivityReplay(e.selectivity) = "missing"
      BY <2>1 DEF SelectivityReplay
    <3> QED BY <3>1, <3>2 DEF Spoils
  <2>2. CASE ~ Inventoried(e.selectivity, Percentiles \ {75})
    <3>1. S = NoSensitivity
      BY <2>2 DEF SensitivitySelectivityComplete
    <3> QED BY <3>1, SensitivitySpoils
  <2> QED BY <2>1, <2>2 DEF SelectivityLack
<1>5. NeighborsLack(e.neighbors) => Spoils(S)
  <2>1. ASSUME NeighborsLack(e.neighbors)
        PROVE  \/ S = NoSensitivity
               \/ S = SensitivityGates(e.primaryNet, The(e.neighbors), FALSE)
    BY <2>1 DEF NeighborsLack
  <2> HIDE DEF S
  <2> QED BY <2>1, SensitivitySpoils
<1>6. AblationLack(e) => Spoils(R)
  <2>1. "noSelectivity" \in DOMAIN R /\ R["noSelectivity"] = NoPercentileSelectivity(e)
    OBVIOUS
  <2> QED BY <2>1, AblationSpoils DEF Spoils
<1> HIDE DEF R, S, C
<1>7. DOMAIN (R ++ S) = DOMAIN R \cup DOMAIN S
  BY DomainTogether
<1>8. DOMAIN R \cap DOMAIN S = {} /\ DOMAIN (R ++ S) \cap DOMAIN C = {}
  BY <1>2, <1>7 DEF SensitivityNames, CommonNames, BooleanNames, DevelopmentNames, CostNames,
     BootstrapNames
<1>9. Spoils(R ++ S) \/ Spoils(C) => Spoils((R ++ S) ++ C)
  BY <1>8, SpoiledTogether
<1>10. Spoils(R) \/ Spoils(S) => Spoils(R ++ S)
  BY <1>8, SpoiledTogether
<1> QED BY <1>1, <1>3, <1>4, <1>5, <1>6, <1>9, <1>10

LEMMA SpoilsV02 ==
  ASSUME NEW e, Spoils(CommonGates(e)) \/ Missing(e.disagreement) \/ NeighborsLack(e.neighbors)
  PROVE  Spoils(GatesV02(e))
<1> DEFINE R == [noDisagreement |-> Boolean(e.disagreement)]
           S == IF Missing(e.neighbors) THEN NoSensitivity
                ELSE SensitivityGates(e.primaryNet, The(e.neighbors), Len(The(e.neighbors)) = 10)
           C == CommonGates(e)
<1>1. GatesV02(e) = (R ++ S) ++ C
  BY DEF GatesV02
<1>2. DOMAIN R = {"noDisagreement"} /\ DOMAIN S = SensitivityNames /\ DOMAIN C = CommonNames
  BY PartDomains, CommonSpoils
<1>3. Spoils(CommonGates(e)) => Spoils(C)
  OBVIOUS
<1>4. Missing(e.disagreement) => Spoils(R)
  <2>1. "noDisagreement" \in DOMAIN R /\ R["noDisagreement"] = Boolean(e.disagreement)
    OBVIOUS
  <2> QED BY <2>1 DEF Spoils, Boolean
<1>5. NeighborsLack(e.neighbors) => Spoils(S)
  <2>1. ASSUME NeighborsLack(e.neighbors)
        PROVE  \/ S = NoSensitivity
               \/ S = SensitivityGates(e.primaryNet, The(e.neighbors), FALSE)
    BY <2>1 DEF NeighborsLack
  <2> HIDE DEF S
  <2> QED BY <2>1, SensitivitySpoils
<1> HIDE DEF R, S, C
<1>6. DOMAIN (R ++ S) = DOMAIN R \cup DOMAIN S
  BY DomainTogether
<1>7. DOMAIN R \cap DOMAIN S = {} /\ DOMAIN (R ++ S) \cap DOMAIN C = {}
  BY <1>2, <1>6 DEF SensitivityNames, CommonNames, BooleanNames, DevelopmentNames, CostNames,
     BootstrapNames
<1>8. Spoils(R ++ S) \/ Spoils(C) => Spoils((R ++ S) ++ C)
  BY <1>7, SpoiledTogether
<1>9. Spoils(R) \/ Spoils(S) => Spoils(R ++ S)
  BY <1>7, SpoiledTogether
<1> QED BY <1>1, <1>3, <1>4, <1>5, <1>8, <1>9

\* The gates of v0.1, lacking.
FinalLack(e) ==
  \/ Missing(e.final.rtd) \/ Missing(e.final.simpleRtd) \/ Missing(e.final.specialistRtd)
  \/ e.final.regimes = {}

LEMMA FinalSpoils ==
  ASSUME NEW e, FinalLack(e)
  PROVE  Spoils(FinalGates(e.final))
<1> DEFINE Against(best, percent) ==
             IF Missing(e.final.rtd) \/ Missing(best) THEN "missing"
             ELSE Judge(AtLeastTimes(The(e.final.rtd), percent, The(best)))
           F == [finalReturn |-> Judge(e.final.net > 0),
                 finalTrades |-> Judge(e.final.trades >= 30),
                 finalDrawdown |-> Judge(e.final.dd <= 250),
                 finalBuyHold |-> Judge(10 * e.final.dd <= 8 * e.final.buyHoldDd),
                 finalRtd |-> Against({[num |-> 1, den |-> 2]}, 100),
                 simpleRtd |-> Against(e.final.simpleRtd, 110),
                 specialistRtd |-> Against(e.final.specialistRtd, 105),
                 simpleReturn |-> Judge(e.final.net >= e.final.simpleNet - 20),
                 tradeConcentration |->
                   IF e.final.profit = 0 THEN "missing"
                   ELSE Judge(4 * e.final.largestTrade <= e.final.profit)]
           G == RegimeGates(e.final)
<1>1. FinalGates(e.final) = F ++ G
  BY DEF FinalGates
<1>2. /\ Missing(e.final.rtd) => F["simpleRtd"] = "missing"
      /\ Missing(e.final.simpleRtd) => F["simpleRtd"] = "missing"
      /\ Missing(e.final.specialistRtd) => F["specialistRtd"] = "missing"
      /\ "simpleRtd" \in DOMAIN F /\ "specialistRtd" \in DOMAIN F
  OBVIOUS
<1>3. ~ e.final.regimes = {} \/ Spoils(G)
  <2> SUFFICES ASSUME e.final.regimes = {} PROVE Spoils(G)
    OBVIOUS
  <2> DEFINE seen == {r \in e.final.regimes : r.periods > 0}
             gained == {r \in seen : r.net >= 0}
  <2>1. gained = {}
    OBVIOUS
  <2>2. Cardinality(gained) = 0
    BY <2>1, FS_EmptySet
  <2>3. G["regimeCount"] = Judge(Cardinality(gained) >= 2) /\ "regimeCount" \in DOMAIN G
    BY DEF RegimeGates
  <2> QED BY <2>2, <2>3 DEF Spoils, Judge
<1>4. DOMAIN F \cap DOMAIN G = {}
  BY DEF RegimeGates
<1> HIDE DEF F, G
<1>5. Spoils(F) \/ Spoils(G)
  BY <1>2, <1>3 DEF FinalLack, Spoils
<1> QED BY <1>1, <1>4, <1>5, SpoiledTogether

-----------------------------------------------------------------------------
(***************************************************************************)
(* The evidence that a run hands to the gates, and the same with something *)
(* taken away.                                                             *)
(***************************************************************************)

EvidenceFields ==
  {"version", "integrity", "determinism", "calibration", "selectivity", "folds", "shuffled",
   "delayed", "primaryRtd", "primaryNet", "primaryDd", "ablationRtd", "ablationDd",
   "disagreement", "volume", "protection", "half", "double", "neighbors", "bootstrap", "replay",
   "independent"}

\* A sequence of so many, which may have anything in it.
Long(s, n) == \E S : s \in Seq(S) /\ Len(s) = n

Inventory(receipts) ==
  /\ \A r \in receipts : Key(r) \in ExpectedKeys(Percentiles)
  /\ \A r, s \in receipts : Key(r) = Key(s) => r = s

Gathered(e) ==
  /\ DOMAIN e = EvidenceFields
  /\ e.version \in {"v02", "v03"}
  /\ Long(e.folds, 12)
  /\ \A n \in DOMAIN e.folds : {"rtd", "baseline"} \subseteq DOMAIN e.folds[n]
  /\ e.determinism # {} /\ Long(The(e.determinism), 12)
  /\ e.neighbors # {} /\ Long(The(e.neighbors), 10)
  /\ e.selectivity # {} /\ Inventory(The(e.selectivity))

LEMMA TheOne == \A x : The({x}) = x
BY DEF The

LEMMA LongIs == \A s, n : Long(s, n) => Len(s) = n /\ DOMAIN s = 1 .. n
BY DEF Long

LEMMA TailIsShorter ==
  ASSUME NEW n \in Nat \ {0}
  PROVE  \A s : Long(s, n) => Long(Tail(s), n - 1)
<1> SUFFICES ASSUME NEW s, Long(s, n) PROVE Long(Tail(s), n - 1)
  OBVIOUS
<1>1. PICK S : s \in Seq(S) /\ Len(s) = n
  BY DEF Long
<1> DEFINE R == UNION {{s[i]} : i \in 1 .. n}
<1>2. s \in Seq(R)
  <2>1. \A i \in 1 .. n : s[i] \in R
    OBVIOUS
  <2>2. s \in [1 .. n -> R]
    BY <1>1, <2>1
  <2> QED BY <1>1, <2>2
<1>3. s # << >>
  BY <1>1
<1> HIDE DEF R
<1>4. Tail(s) \in Seq(R) /\ Len(Tail(s)) = Len(s) - 1
  BY <1>2, <1>3
<1> QED BY <1>1, <1>4 DEF Long

LEMMA CommonSpoilsOne ==
  ASSUME NEW e, CommonLack(e)
  PROVE  Qualify(e) # "QUALIFIED"
BY CommonSpoils, SpoilsV02, SpoilsV03, SpoiledIsNotBest DEF Qualify

\* One field emptied.
LEMMA EmptiedSpoils ==
  ASSUME NEW e, Gathered(e), NEW field \in EvidenceFields \ {"version", "folds"},
         e.version = "v02" =>
           field \notin {"selectivity", "ablationRtd", "ablationDd", "primaryRtd", "primaryDd"},
         e.version # "v02" => field # "disagreement"
  PROVE  Qualify([e EXCEPT ![field] = {}]) # "QUALIFIED"
<1> DEFINE weak == [e EXCEPT ![field] = {}]
<1>1. weak.version = e.version /\ weak[field] = {}
  BY DEF Gathered, EvidenceFields
<1> HIDE DEF weak
<1>2. CASE field \in {"integrity", "calibration", "shuffled", "delayed", "volume", "protection",
                      "replay", "independent", "determinism", "primaryNet", "half", "double",
                      "bootstrap"}
  <2>1. CommonLack(weak)
    BY <1>1, <1>2 DEF CommonLack, Missing
  <2> QED BY <2>1, CommonSpoilsOne DEF weak
<1>3. CASE field = "neighbors"
  <2>1. NeighborsLack(weak.neighbors)
    BY <1>1, <1>3 DEF NeighborsLack, Missing
  <2>2. Qualify(weak) # "QUALIFIED"
    BY <2>1, SpoilsV02, SpoilsV03, SpoiledIsNotBest DEF Qualify
  <2> QED BY <2>2 DEF weak
<1>4. CASE field = "disagreement"
  <2>1. weak.version = "v02" /\ Missing(weak.disagreement)
    BY <1>1, <1>4 DEF Gathered, Missing
  <2>2. Qualify(weak) # "QUALIFIED"
    BY <2>1, SpoilsV02, SpoiledIsNotBest DEF Qualify
  <2> QED BY <2>2 DEF weak
<1>5. CASE field \in {"selectivity", "ablationRtd", "ablationDd", "primaryRtd", "primaryDd"}
  <2>1. weak.version # "v02"
    BY <1>1, <1>5
  <2>2. SelectivityLack(weak.selectivity) \/ AblationLack(weak)
    BY <1>1, <1>5 DEF SelectivityLack, AblationLack, Missing
  <2>3. Qualify(weak) # "QUALIFIED"
    BY <2>1, <2>2, SpoilsV03, SpoiledIsNotBest DEF Qualify
  <2> QED BY <2>3 DEF weak
<1>6. EvidenceFields \ {"version", "folds"} =
        {"integrity", "calibration", "shuffled", "delayed", "volume", "protection",
         "replay", "independent", "determinism", "primaryNet", "half", "double", "bootstrap"}
        \cup {"neighbors"} \cup {"disagreement"}
        \cup {"selectivity", "ablationRtd", "ablationDd", "primaryRtd", "primaryDd"}
  BY DEF EvidenceFields
<1> QED BY <1>2, <1>3, <1>4, <1>5, <1>6

\* One fold without a ratio of its own or without a comparator.
LEMMA FoldSpoils ==
  ASSUME NEW e, Gathered(e), NEW n \in DOMAIN e.folds
  PROVE  /\ Qualify([e EXCEPT !.folds[n].rtd = {}]) # "QUALIFIED"
         /\ Qualify([e EXCEPT !.folds[n].baseline = {}]) # "QUALIFIED"
<1>1. "folds" \in DOMAIN e /\ "rtd" \in DOMAIN e.folds[n] /\ "baseline" \in DOMAIN e.folds[n]
  BY DEF Gathered, EvidenceFields
<1>2. ASSUME NEW weak, n \in DOMAIN weak.folds,
             weak.folds[n].rtd = {} \/ weak.folds[n].baseline = {}
      PROVE  Qualify(weak) # "QUALIFIED"
  <2>1. CommonLack(weak)
    BY <1>2 DEF CommonLack, FoldsLack, Missing
  <2> QED BY <2>1, CommonSpoilsOne
<1>3. Qualify([e EXCEPT !.folds[n].rtd = {}]) # "QUALIFIED"
  <2> DEFINE weak == [e EXCEPT !.folds[n].rtd = {}]
  <2>1. weak.folds = [e.folds EXCEPT ![n].rtd = {}]
    BY <1>1
  <2>2. n \in DOMAIN weak.folds /\ weak.folds[n].rtd = {}
    BY <1>1, <2>1
  <2> HIDE DEF weak
  <2>3. Qualify(weak) # "QUALIFIED"
    BY <1>2, <2>2
  <2> QED BY <2>3 DEF weak
<1>4. Qualify([e EXCEPT !.folds[n].baseline = {}]) # "QUALIFIED"
  <2> DEFINE weak == [e EXCEPT !.folds[n].baseline = {}]
  <2>1. weak.folds = [e.folds EXCEPT ![n].baseline = {}]
    BY <1>1
  <2>2. n \in DOMAIN weak.folds /\ weak.folds[n].baseline = {}
    BY <1>1, <2>1
  <2> HIDE DEF weak
  <2>3. Qualify(weak) # "QUALIFIED"
    BY <1>2, <2>2
  <2> QED BY <2>3 DEF weak
<1> QED BY <1>3, <1>4

\* One fold, neighbor or receipt short.
LEMMA ShortSpoils ==
  ASSUME NEW e, Gathered(e)
  PROVE  /\ Qualify([e EXCEPT !.folds = Tail(@)]) # "QUALIFIED"
         /\ Qualify([e EXCEPT !.neighbors = {Tail(The(@))}]) # "QUALIFIED"
         /\ Qualify([e EXCEPT !.determinism = {Tail(The(@))}]) # "QUALIFIED"
<1>1. {"folds", "neighbors", "determinism"} \subseteq DOMAIN e
  BY DEF Gathered, EvidenceFields
<1>2. ASSUME NEW weak, weak.folds = Tail(e.folds) PROVE Qualify(weak) # "QUALIFIED"
  <2>1. Len(weak.folds) # 12
    <3>1. Long(e.folds, 12) /\ 12 \in Nat \ {0} /\ 12 - 1 = 11
      BY DEF Gathered
    <3>2. Long(weak.folds, 11)
      BY <1>2, <3>1, TailIsShorter
    <3>3. Len(weak.folds) = 11
      BY <3>2, LongIs
    <3> QED BY <3>3
  <2> QED BY <2>1, CommonSpoilsOne DEF CommonLack
<1>3. ASSUME NEW weak, weak.neighbors = {Tail(The(e.neighbors))} PROVE Qualify(weak) # "QUALIFIED"
  <2>1. Len(The(weak.neighbors)) # 10
    <3>1. Long(The(e.neighbors), 10) /\ 10 \in Nat \ {0} /\ 10 - 1 = 9
      BY DEF Gathered
    <3>2. Long(Tail(The(e.neighbors)), 9)
      BY <3>1, TailIsShorter
    <3>3. The(weak.neighbors) = Tail(The(e.neighbors))
      BY <1>3, TheOne
    <3>4. Len(The(weak.neighbors)) = 9
      BY <3>2, <3>3, LongIs
    <3> QED BY <3>4
  <2>2. NeighborsLack(weak.neighbors)
    BY <2>1 DEF NeighborsLack
  <2> QED BY <2>2, SpoilsV02, SpoilsV03, SpoiledIsNotBest DEF Qualify
<1>4. ASSUME NEW weak, weak.determinism = {Tail(The(e.determinism))}
      PROVE  Qualify(weak) # "QUALIFIED"
  <2> DEFINE short == Tail(The(e.determinism))
  <2>1. Long(short, 11)
    <3>1. Long(The(e.determinism), 12) /\ 12 \in Nat \ {0} /\ 12 - 1 = 11
      BY DEF Gathered
    <3> QED BY <3>1, TailIsShorter
  <2>2. The(weak.determinism) = short
    BY <1>4, TheOne
  <2> HIDE DEF short
  <2>3. DOMAIN short # 1 .. 12
    <3>1. DOMAIN short = 1 .. 11
      BY <2>1, LongIs
    <3> QED BY <3>1
  <2>4. CommonLack(weak)
    BY <2>2, <2>3 DEF CommonLack
  <2> QED BY <2>4, CommonSpoilsOne
<1>5. [e EXCEPT !.folds = Tail(@)].folds = Tail(e.folds)
  BY <1>1
<1>6. [e EXCEPT !.neighbors = {Tail(The(@))}].neighbors = {Tail(The(e.neighbors))}
  BY <1>1
<1>7. [e EXCEPT !.determinism = {Tail(The(@))}].determinism = {Tail(The(e.determinism))}
  BY <1>1
<1> QED BY <1>2, <1>3, <1>4, <1>5, <1>6, <1>7

LEMMA ReceiptSpoils ==
  ASSUME NEW e, Gathered(e), e.version = "v03", NEW r \in The(e.selectivity)
  PROVE  Qualify([e EXCEPT !.selectivity = {The(@) \ {r}}]) # "QUALIFIED"
<1> DEFINE weak == [e EXCEPT !.selectivity = {The(@) \ {r}}]
           rest == The(e.selectivity) \ {r}
           percentiles == IF r.percentile = 75 THEN {75} ELSE Percentiles \ {75}
<1>1. weak.version = "v03" /\ The(weak.selectivity) = rest
  <2>1. "selectivity" \in DOMAIN e /\ "version" \in DOMAIN e
    BY DEF Gathered, EvidenceFields
  <2>2. weak.version = "v03" /\ weak.selectivity = {rest}
    BY <2>1
  <2> QED BY <2>2, TheOne
<1>2. /\ Key(r) \in ExpectedKeys(Percentiles)
      /\ \A s \in rest : Key(s) # Key(r)
  BY DEF Gathered, Inventory
<1> HIDE DEF rest
<1>3. Key(r) \in ExpectedKeys(percentiles)
  BY <1>2 DEF ExpectedKeys, Key
<1> HIDE DEF weak, percentiles
<1>4. ~ Inventoried(weak.selectivity, percentiles)
  <2>1. \A s \in Of(weak.selectivity, percentiles) : s \in rest
    BY <1>1 DEF Of
  <2>2. Key(r) \notin {Key(s) : s \in Of(weak.selectivity, percentiles)}
    BY <1>2, <2>1
  <2> QED BY <1>3, <2>2 DEF Inventoried
<1>5. SelectivityLack(weak.selectivity)
  BY <1>4 DEF SelectivityLack, percentiles
<1>6. Qualify(weak) # "QUALIFIED"
  BY <1>1, <1>5, SpoilsV03, SpoiledIsNotBest DEF Qualify
<1> QED BY <1>6 DEF weak

LEMMA WeakenedSpoils ==
  ASSUME NEW e, Gathered(e), NEW weak \in Weakened(e)
  PROVE  Qualify(weak) # "QUALIFIED"
<1>1. ASSUME NEW field \in Optional(e) \ (IF e.version = "v02"
                 THEN {"selectivity", "ablationRtd", "ablationDd", "primaryRtd", "primaryDd"}
                 ELSE {"disagreement"}),
             weak = [e EXCEPT ![field] = {}]
      PROVE  Qualify(weak) # "QUALIFIED"
  <2>1. field \in EvidenceFields \ {"version", "folds"}
    BY DEF Optional, Gathered
  <2>2. /\ e.version = "v02" =>
             field \notin {"selectivity", "ablationRtd", "ablationDd", "primaryRtd", "primaryDd"}
        /\ e.version # "v02" => field # "disagreement"
    OBVIOUS
  <2> QED BY <1>1, <2>1, <2>2, EmptiedSpoils
<1>2. ASSUME NEW n \in DOMAIN e.folds,
             weak \in {[e EXCEPT !.folds[n].rtd = {}], [e EXCEPT !.folds[n].baseline = {}]}
      PROVE  Qualify(weak) # "QUALIFIED"
  BY <1>2, FoldSpoils
<1>3. ASSUME weak \in {[e EXCEPT !.folds = Tail(@)], [e EXCEPT !.neighbors = {Tail(The(@))}]}
                      \cup {[e EXCEPT !.determinism = {Tail(The(@))}]}
      PROVE  Qualify(weak) # "QUALIFIED"
  BY <1>3, ShortSpoils
<1>4. ASSUME e.version # "v02",
             NEW r \in The(e.selectivity), weak = [e EXCEPT !.selectivity = {The(@) \ {r}}]
      PROVE  Qualify(weak) # "QUALIFIED"
  <2>1. e.version = "v03"
    BY <1>4 DEF Gathered
  <2> QED BY <1>4, <2>1, ReceiptSpoils
<1>5. \/ \E field \in Optional(e) \ (IF e.version = "v02"
              THEN {"selectivity", "ablationRtd", "ablationDd", "primaryRtd", "primaryDd"}
              ELSE {"disagreement"}) : weak = [e EXCEPT ![field] = {}]
      \/ \E n \in DOMAIN e.folds :
           weak \in {[e EXCEPT !.folds[n].rtd = {}], [e EXCEPT !.folds[n].baseline = {}]}
      \/ weak \in {[e EXCEPT !.folds = Tail(@)], [e EXCEPT !.neighbors = {Tail(The(@))}]}
                  \cup {[e EXCEPT !.determinism = {Tail(The(@))}]}
      \/ e.version # "v02" /\ \E r \in The(e.selectivity) :
                                weak = [e EXCEPT !.selectivity = {The(@) \ {r}}]
  BY Zenon DEF Weakened
<1> QED BY <1>1, <1>2, <1>3, <1>4, <1>5

-----------------------------------------------------------------------------
(***************************************************************************)
(* The plans: the rows at which their folds begin and end.                 *)
(***************************************************************************)

History(h) ==
  /\ IsFiniteSet(Rows(h)) /\ Count(h) > 0
  /\ Rows(h) = 0 .. (Count(h) - 1)
  /\ h.opens \in [Rows(h) -> Nat]
  /\ h.boundaries \in SUBSET (Rows(h) \ {0})

PolicyType ==
  [history : Nat, final : Nat, training : Nat, calibration : Nat, test : Nat, step : Nat \ {0},
   minimumFolds : Nat]
RawType == [calibration : Nat, test : Nat, end : Nat]

\* Where the n-th fold begins, and its three rows.
FoldStart(policy, n) == Month(policy.training + (n - 1) * policy.step)
RawOf(h, policy, n) ==
  [calibration |-> FirstFrom(h, FoldStart(policy, n)),
   test |-> FirstFrom(h, FoldStart(policy, n) + Month(policy.calibration)),
   end |-> FirstFrom(h, FoldStart(policy, n) + Month(policy.calibration + policy.test))]

LEMMA HistoriesAre == \A name \in DOMAIN Histories : History(Histories[name])
BY HistoryAssumption DEF History

LEMMA CountIs ==
  ASSUME NEW h, History(h)
  PROVE  /\ Count(h) \in Nat /\ IsFiniteSet(Rows(h))
         /\ EndExclusive(h) \in Nat
<1>1. Count(h) \in Nat
  BY FS_CardinalityType DEF History, Count
<1>2. Count(h) - 1 \in Rows(h)
  BY <1>1 DEF History
<1>3. h.opens[Count(h) - 1] \in Nat
  BY <1>2 DEF History
<1> QED BY <1>1, <1>3 DEF History, EndExclusive

LEMMA FirstFromGrows ==
  ASSUME NEW h, History(h), NEW s \in Int, NEW t \in Int, s <= t
  PROVE  /\ FirstFrom(h, s) \in Nat /\ FirstFrom(h, t) \in Nat
         /\ FirstFrom(h, s) <= FirstFrom(h, t)
         /\ FirstFrom(h, t) <= Count(h)
<1> DEFINE A == {i \in Rows(h) : h.opens[i] < s}
           B == {i \in Rows(h) : h.opens[i] < t}
<1>1. A \subseteq B /\ B \subseteq Rows(h)
  <2>1. \A i \in Rows(h) : h.opens[i] \in Nat
    BY DEF History
  <2> QED BY <2>1
<1>2. IsFiniteSet(Rows(h))
  BY DEF History
<1>3. FirstFrom(h, s) = Cardinality(A) /\ FirstFrom(h, t) = Cardinality(B)
  BY DEF FirstFrom
<1> HIDE DEF A, B
<1>4. IsFiniteSet(B) /\ Cardinality(B) <= Count(h)
  BY <1>1, <1>2, FS_Subset DEF Count
<1>5. IsFiniteSet(A) /\ Cardinality(A) <= Cardinality(B)
  BY <1>1, <1>4, FS_Subset
<1> QED BY <1>3, <1>4, <1>5, FS_CardinalityType

LEMMA MonthIs ==
  /\ MonthLength \in Nat \ {0}
  /\ \A n \in Int : Month(n) \in Int
  /\ \A m, n \in Int : Month(m + n) = Month(m) + Month(n)
  /\ \A m, n \in Int : m <= n => Month(m) <= Month(n)
  /\ \A n \in Nat : Month(n) \in Nat
<1>1. MonthLength \in Nat \ {0}
  BY SplitAssumption
<1>2. \A n \in Int : n * MonthLength \in Int
  BY <1>1
<1>3. ASSUME NEW m \in Int, NEW n \in Int
      PROVE  (m + n) * MonthLength = m * MonthLength + n * MonthLength
  BY <1>1
<1>4. ASSUME NEW m \in Int, NEW n \in Int, m <= n PROVE m * MonthLength <= n * MonthLength
  <2>1. PICK k \in Nat : n = m + k
    <3>1. n - m \in Nat /\ n = m + (n - m)
      BY <1>4
    <3> QED BY <3>1
  <2>2. n * MonthLength = m * MonthLength + k * MonthLength
    BY <1>3, <2>1
  <2>3. k * MonthLength \in Nat
    BY <1>1
  <2> QED BY <1>2, <2>2, <2>3
<1>5. \A n \in Nat : n * MonthLength \in Nat
  BY <1>1
<1> QED BY <1>1, <1>2, <1>3, <1>4, <1>5 DEF Month

\* The folds, as many as end by the limit.
LEMMA RawFoldsAre ==
  ASSUME NEW h, History(h), NEW policy \in PolicyType, NEW limit \in Int
  PROVE  LET raw == RawFolds(h, policy, limit)
         IN  /\ raw \in Seq(RawType)
             /\ DOMAIN raw = 1 .. Len(raw)
             /\ \A n \in 1 .. Len(raw) :
                  /\ raw[n] = RawOf(h, policy, n)
                  /\ FoldStart(policy, n) + Month(policy.calibration + policy.test) <= limit
<1> DEFINE whole == policy.training + policy.calibration + policy.test
           count == (limit - Month(whole)) \div Month(policy.step) + 1
           raw == [n \in 1 .. count |-> RawOf(h, policy, n)]
<1>1. /\ policy.training \in Nat /\ policy.calibration \in Nat /\ policy.test \in Nat
      /\ policy.step \in Nat \ {0} /\ whole \in Nat
  BY DEF PolicyType
<1>2. RawFolds(h, policy, limit) = raw
  BY TabulatedIs DEF RawFolds, RawOf, FoldStart
<1>3. \A n \in Int : FoldStart(policy, n) \in Int
  <2>1. \A n \in Int : policy.training + (n - 1) * policy.step \in Int
    BY <1>1
  <2> QED BY <2>1, MonthIs DEF FoldStart
<1>4. \A n \in 1 .. count : RawOf(h, policy, n) \in RawType
  <2> SUFFICES ASSUME NEW n \in 1 .. count PROVE RawOf(h, policy, n) \in RawType
    OBVIOUS
  <2> DEFINE start == FoldStart(policy, n)
  <2>1. start \in Int
    BY <1>3
  <2>2. start + Month(policy.calibration) \in Int
        /\ start + Month(policy.calibration + policy.test) \in Int
    <3>1. policy.calibration + policy.test \in Int /\ policy.calibration \in Int
      BY <1>1
    <3>2. /\ Month(policy.calibration) \in Int
          /\ Month(policy.calibration + policy.test) \in Int
      BY <3>1, MonthIs
    <3> HIDE DEF start
    <3> QED BY <2>1, <3>2
  <2> HIDE DEF start
  <2>3. \A t \in Int : FirstFrom(h, t) \in Nat
    BY FirstFromGrows
  <2> QED BY <2>1, <2>2, <2>3 DEF RawOf, RawType, start
<1>5. /\ Month(whole) \in Int /\ Month(policy.step) \in Nat \ {0}
  <2>1. policy.step * MonthLength \in Nat \ {0}
    <3>1. \A a, b \in Nat \ {0} : a * b \in Nat \ {0}
      BY Z3
    <3> QED BY <1>1, <3>1, MonthIs
  <2> QED BY <1>1, <2>1, MonthIs DEF Month
<1> DEFINE q == (limit - Month(whole)) \div Month(policy.step)
<1>6. q \in Int /\ q * Month(policy.step) <= limit - Month(whole)
  <2> DEFINE a == limit - Month(whole)
             d == Month(policy.step)
  <2>1. a \in Int /\ d \in Nat \ {0}
    BY <1>5
  <2> HIDE DEF a, d
  <2>2. a \div d \in Int /\ (a \div d) * d <= a
    BY <2>1, Z3
  <2> QED BY <2>2 DEF a, d
<1> HIDE DEF q
<1>7. count = q + 1 /\ count \in Int
  BY <1>6 DEF q
<1>8. ASSUME NEW n \in 1 .. count
      PROVE  FoldStart(policy, n) + Month(policy.calibration + policy.test) <= limit
  <2>1. n - 1 <= q /\ n \in Int
    BY <1>6, <1>7
  <2>2. (n - 1) * policy.step <= q * policy.step
        /\ (n - 1) * policy.step \in Int /\ q * policy.step \in Int
    BY <1>1, <1>6, <2>1, Z3
  <2>3. Month(q * policy.step) = q * Month(policy.step)
    BY <1>1, <1>5, <1>6, MonthIs, Z3 DEF Month
  <2>4. Month((n - 1) * policy.step) <= q * Month(policy.step)
    BY <2>2, <2>3, MonthIs
  <2>5. FoldStart(policy, n) = Month(policy.training) + Month((n - 1) * policy.step)
    <3>1. policy.training \in Int
      BY <1>1
    <3> DEFINE later == (n - 1) * policy.step
    <3>2. later \in Int
      BY <2>2
    <3> HIDE DEF later
    <3>3. Month(policy.training + later) = Month(policy.training) + Month(later)
      BY <3>1, <3>2, MonthIs
    <3> QED BY <3>3 DEF FoldStart, later
  <2>6. Month(whole) = Month(policy.training) + Month(policy.calibration + policy.test)
    <3> DEFINE rest == policy.calibration + policy.test
    <3>1. whole = policy.training + rest /\ rest \in Int /\ policy.training \in Int
      BY <1>1
    <3> HIDE DEF rest, whole
    <3>2. Month(policy.training + rest) = Month(policy.training) + Month(rest)
      BY <3>1, MonthIs
    <3> QED BY <3>1, <3>2 DEF rest
  <2>7. /\ Month(policy.training) \in Int /\ Month((n - 1) * policy.step) \in Int
        /\ Month(policy.calibration + policy.test) \in Int /\ q * Month(policy.step) \in Int
    <3>1. policy.training \in Int /\ policy.calibration + policy.test \in Int
      BY <1>1
    <3>2. q * Month(policy.step) \in Int
      BY <1>5, <1>6
    <3> QED BY <2>2, <3>1, <3>2, MonthIs
  <2> QED BY <1>5, <1>6, <2>4, <2>5, <2>6, <2>7
<1>9. raw \in Seq(RawType) /\ DOMAIN raw = 1 .. Len(raw) /\ 1 .. Len(raw) = 1 .. count
  <2>1. CASE count \in Nat
    BY <1>4, <2>1
  <2>2. CASE count \notin Nat
    <3>1. 1 .. count = {} /\ 1 .. 0 = {}
      BY <1>7, <2>2
    <3>2. raw \in [1 .. 0 -> RawType]
      BY <3>1
    <3>3. raw = << >>
      BY <3>1
    <3>4. \A s \in Seq(RawType) : s = << >> => Len(s) = 0
      OBVIOUS
    <3> HIDE DEF raw
    <3>5. raw \in Seq(RawType) /\ Len(raw) = 0
      BY <3>3, <3>4
    <3> QED BY <3>1, <3>2, <3>5
  <2> QED BY <2>1, <2>2
<1>10. \A n \in 1 .. Len(raw) : raw[n] = RawOf(h, policy, n)
  BY <1>9
<1> HIDE DEF raw, count
<1> QED BY <1>2, <1>8, <1>9, <1>10

\* A plan that is not refused has the folds, and no window of them is empty.
FoldsOfPlan(raw, eligible, boundaries) ==
  [n \in DOMAIN raw |-> Fold(raw[n], eligible, boundaries)]

LEMMA FoldsOrIs ==
  ASSUME NEW raw, NEW eligible, NEW boundaries,
         PlanFolds(raw, eligible, boundaries).status = "plan"
  PROVE  /\ FoldProblem(raw, eligible, boundaries) = "plan"
         /\ PlanFolds(raw, eligible, boundaries) =
              [status |-> "plan", folds |-> FoldsOfPlan(raw, eligible, boundaries),
               boundaries |-> boundaries]
<1> DEFINE problem == FoldProblem(raw, eligible, boundaries)
<1>1. problem = "plan"
  <2>1. problem # "plan" => PlanFolds(raw, eligible, boundaries) = Refused(problem)
    BY DEF PlanFolds, FoldsOr
  <2> HIDE DEF problem
  <2>2. Refused(problem).status = problem
    BY DEF Refused
  <2> QED BY <2>1, <2>2
<1> QED BY <1>1, TabulatedIs DEF PlanFolds, FoldsOr, FoldsOfPlan

LEMMA RefusedIs == \A reason : Refused(reason).status = reason
BY DEF Refused

LEMMA PolicyIs == LockedV01 \in PolicyType /\ Diagnostic \in PolicyType
BY DEF LockedV01, Diagnostic, PolicyType

LEMMA DevelopmentPlanIs ==
  ASSUME NEW h, NEW eligible, NEW version, DevelopmentPlan(h, eligible, version).status = "plan"
  PROVE  LET raw == RawFolds(h, LockedV01, EndExclusive(h))
             boundaries == h.boundaries \cup FoldBoundaries(raw)
         IN  /\ Continuous(h) /\ eligible # {} /\ Len(raw) = 12
             /\ FoldProblem(raw, eligible, boundaries) = "plan"
             /\ DevelopmentPlan(h, eligible, version) =
                  [status |-> "plan", folds |-> FoldsOfPlan(raw, eligible, boundaries),
                   boundaries |-> boundaries]
<1> DEFINE raw == RawFolds(h, LockedV01, EndExclusive(h))
           boundaries == h.boundaries \cup FoldBoundaries(raw)
           plan == DevelopmentPlan(h, eligible, version)
<1>1. plan # Refused("boundary") /\ plan # Refused("history")
  BY RefusedIs
<1> HIDE DEF raw
<1>2. /\ Continuous(h) /\ eligible # {} /\ Len(raw) = 12
      /\ plan = PlanFolds(raw, eligible, boundaries)
  BY <1>1 DEF DevelopmentPlan, DevelopmentPlanOf, DevelopmentFolds, raw
<1> HIDE DEF boundaries, plan
<1>3. /\ FoldProblem(raw, eligible, boundaries) = "plan"
      /\ plan = [status |-> "plan", folds |-> FoldsOfPlan(raw, eligible, boundaries),
                 boundaries |-> boundaries]
  BY <1>2, FoldsOrIs DEF plan
<1> QED BY <1>2, <1>3 DEF plan, boundaries, raw

LEMMA PlansAre ==
  ASSUME NEW name \in DOMAIN Histories
  PROVE  /\ Plans[name].v02 =
              DevelopmentPlan(Histories[name], LabelRows(Histories[name]), "v02")
         /\ Plans[name].v03 =
              DevelopmentPlan(Histories[name], LabelRows(Histories[name]), "v03")
         /\ Plans[name].study = StudyPlan(Histories[name], LabelRows(Histories[name]))
BY TabulatedIs DEF Plans

\* Twelve folds, twelve receipts, ten neighbors, one receipt of each threshold.
LEMMA TwelveFolds ==
  ASSUME NEW h, History(h), NEW eligible, NEW version,
         DevelopmentPlan(h, eligible, version).status = "plan"
  PROVE  DOMAIN DevelopmentPlan(h, eligible, version).folds = 1 .. 12
<1> DEFINE raw == RawFolds(h, LockedV01, EndExclusive(h))
           boundaries == h.boundaries \cup FoldBoundaries(raw)
           plan == DevelopmentPlan(h, eligible, version)
<1>1. EndExclusive(h) \in Int
  BY CountIs
<1>2. DOMAIN raw = 1 .. Len(raw)
  BY <1>1, RawFoldsAre, PolicyIs
<1>3. Len(raw) = 12 /\ plan.folds = FoldsOfPlan(raw, eligible, boundaries)
  BY DevelopmentPlanIs
<1> HIDE DEF raw, plan, boundaries
<1>4. DOMAIN plan.folds = 1 .. 12
  BY <1>2, <1>3 DEF FoldsOfPlan
<1> QED BY <1>4 DEF plan

LEMMA InventoryIs ==
  ASSUME NEW c
  PROVE  Inventory(ExecutedSelectivity(Thresholds(c)))
<1> DEFINE K == (1 .. 12) \X Specialists \X Percentiles
           receipt(key) == [fold |-> key[1], specialist |-> key[2], percentile |-> key[3],
                            exact |-> TRUE]
<1>1. DOMAIN Thresholds(c) = K
  BY TabulatedIs DEF Thresholds
<1>2. ExecutedSelectivity(Thresholds(c)) = {receipt(key) : key \in K}
  BY <1>1 DEF ExecutedSelectivity
<1>3. \A key \in K : Key(receipt(key)) = key
  BY DEF Key
<1>4. ExpectedKeys(Percentiles) = K
  BY DEF ExpectedKeys
<1> HIDE DEF K, receipt
<1> QED BY <1>2, <1>3, <1>4 DEF Inventory

LEMMA LongFunction ==
  ASSUME NEW n \in Nat, NEW f, f = [i \in DOMAIN f |-> f[i]], DOMAIN f = 1 .. n
  PROVE  Long(f, n)
<1> DEFINE S == {f[i] : i \in 1 .. n}
<1>1. f \in [1 .. n -> S]
  BY Zenon
<1> HIDE DEF S
<1>2. f \in Seq(S) /\ Len(f) = n
  BY <1>1
<1> QED BY <1>2 DEF Long

LEMMA ExecutedEvidence ==
  ASSUME NEW c, c.version \in {"v02", "v03"}, c.history \in DOMAIN Histories, NEW run \in Execute(c)
  PROVE  Gathered(run.evidence)
<1> DEFINE h == Histories[c.history]
           plan == Plans[c.history][c.version]
           ends == ExecutedEnds(h, plan)
           path == PathsOf(c, plan.folds, ends)
           folds == FoldEvaluations(c, plan)
           selectivity == ExecutedSelectivity(Thresholds(c))
           e == EvidenceOf(c, path, folds, selectivity)
<1>1. run.evidence = e /\ plan.status = "plan"
  <2>1. run = ExecutedOn(c, plan, Thresholds(c)) /\ plan.status = "plan"
    BY DEF Execute, ExecuteOn, Refuses
  <2> HIDE DEF plan, h
  <2>2. run.evidence = QualificationEvidence(c, plan, selectivity, ends)
    BY <2>1 DEF ExecutedOn, Report, h
  <2> QED BY <2>1, <2>2 DEF QualificationEvidence
<1>2. DOMAIN plan.folds = 1 .. 12
  <2>1. History(h)
    BY HistoriesAre
  <2>2. plan = DevelopmentPlan(h, LabelRows(h), c.version)
    <3> DEFINE p == Plans[c.history]
    <3>1. /\ p["v02"] = DevelopmentPlan(h, LabelRows(h), "v02")
          /\ p["v03"] = DevelopmentPlan(h, LabelRows(h), "v03")
      BY PlansAre
    <3> HIDE DEF p
    <3>2. p[c.version] = DevelopmentPlan(h, LabelRows(h), c.version)
      BY <3>1
    <3> QED BY <3>2 DEF p
  <2> HIDE DEF plan, h
  <2> QED BY <1>1, <2>1, <2>2, TwelveFolds
<1> HIDE DEF plan, h, ends, path, selectivity
<1>3. /\ folds = [n \in 1 .. 12 |-> FoldEvaluation(c, plan.folds[n], n)]
      /\ \A n \in 1 .. 12 : {"rtd", "baseline"} \subseteq DOMAIN folds[n]
  <2>1. folds = [n \in 1 .. 12 |-> FoldEvaluation(c, plan.folds[n], n)]
    BY <1>2, TabulatedIs DEF FoldEvaluations
  <2>2. \A n : {"rtd", "baseline"} \subseteq DOMAIN FoldEvaluation(c, plan.folds[n], n)
    BY DEF FoldEvaluation, FoldResult
  <2> QED BY <2>1, <2>2
<1>4. Long(folds, 12) /\ DOMAIN folds = 1 .. 12
  <2>1. folds = [i \in DOMAIN folds |-> folds[i]] /\ DOMAIN folds = 1 .. 12
    BY <1>3
  <2> HIDE DEF folds
  <2> QED BY <2>1, LongFunction
<1>5. Long(Receipts(c), 12)
  <2> DEFINE f == Receipts(c)
  <2>1. f = [i \in DOMAIN f |-> f[i]] /\ DOMAIN f = 1 .. 12
    BY DEF Receipts
  <2> HIDE DEF f
  <2>2. Long(f, 12)
    BY <2>1, LongFunction
  <2> QED BY <2>2 DEF f
<1>6. Long(NeighborNets(path), 10)
  <2> DEFINE f == NeighborNets(path)
  <2>1. f = [i \in DOMAIN f |-> f[i]] /\ DOMAIN f = 1 .. 10
    BY DEF NeighborNets, Neighbors
  <2> HIDE DEF f
  <2>2. Long(f, 10)
    BY <2>1, LongFunction
  <2> QED BY <2>2 DEF f
<1>7. Inventory(selectivity)
  BY InventoryIs DEF selectivity
<1> HIDE DEF folds
<1>8. DOMAIN e = EvidenceFields
  BY DEF EvidenceOf, EvidenceFields
<1>9. /\ e.version = c.version /\ e.folds = folds /\ e.determinism = {Receipts(c)}
      /\ e.neighbors = {NeighborNets(path)} /\ e.selectivity = {selectivity}
  BY DEF EvidenceOf
<1> HIDE DEF e
<1>10. Gathered(e)
  <2>1. \A n \in DOMAIN e.folds : {"rtd", "baseline"} \subseteq DOMAIN e.folds[n]
    BY <1>3, <1>4, <1>9
  <2>2. /\ e.determinism # {} /\ The(e.determinism) = Receipts(c)
        /\ e.neighbors # {} /\ The(e.neighbors) = NeighborNets(path)
        /\ e.selectivity # {} /\ The(e.selectivity) = selectivity
    BY <1>9, TheOne
  <2> QED BY <1>4, <1>5, <1>6, <1>7, <1>8, <1>9, <2>1, <2>2 DEF Gathered
<1> QED BY <1>1, <1>10

-----------------------------------------------------------------------------
(* The same for v0.1's promotion, over its final test.                     *)
PromotionLack(e) ==
  \/ FinalLack(e)
  \/ Missing(e.delayedRtd)
  \/ ~ Len(e.folds) >= 5

LEMMA PromotionSpoils ==
  ASSUME NEW e, PromotionLack(e)
  PROVE  Promote(e) # "PASS"
<1> DEFINE R == [shuffled |-> Judge(~ e.shuffledPasses),
                 delayed |->
                   IF Missing(e.final.rtd) \/ Missing(e.delayedRtd) THEN "missing"
                   ELSE Judge(AtMostTimes(The(e.delayedRtd), 105, The(e.final.rtd))),
                 noDisagreement |-> Judge(e.disagreement),
                 noVolume |-> Judge(e.volume),
                 noProtection |-> Judge(e.protection)]
           D == Development(e.folds, Len(e.folds) >= 5)
           F == FinalGates(e.final)
           C == CostGates({e.final.net}, {e.half}, {e.double})
           S == SensitivityGates({e.final.net}, e.neighbors, Len(e.neighbors) >= 10)
           B == BootstrapGates({e.bootstrap})
           FinalNames == {"finalReturn", "finalTrades", "finalDrawdown", "finalBuyHold", "finalRtd",
                          "simpleRtd", "specialistRtd", "simpleReturn", "tradeConcentration",
                          "regimeCount", "regimeLoss"}
<1>1. PromotionGates(e) = ((((R ++ D) ++ F) ++ C) ++ S) ++ B
  BY DEF PromotionGates
<1>2. /\ DOMAIN R = {"shuffled", "delayed", "noDisagreement", "noVolume", "noProtection"}
      /\ DOMAIN D = DevelopmentNames /\ DOMAIN C = CostNames /\ DOMAIN S = SensitivityNames
      /\ DOMAIN B = BootstrapNames
  BY PartDomains
<1>3. DOMAIN F = FinalNames
  <2>1. DOMAIN RegimeGates(e.final) = {"regimeCount", "regimeLoss"}
    BY DEF RegimeGates
  <2>2. PICK f : F = f ++ RegimeGates(e.final)
                 /\ DOMAIN f = FinalNames \ {"regimeCount", "regimeLoss"}
    BY DEF FinalGates
  <2> HIDE DEF F
  <2>3. DOMAIN F = DOMAIN f \cup DOMAIN RegimeGates(e.final)
    BY <2>2, DomainTogether
  <2> QED BY <2>1, <2>2, <2>3
<1>4. Missing(e.delayedRtd) => Spoils(R)
  <2>1. Missing(e.delayedRtd) => R["delayed"] = "missing" /\ "delayed" \in DOMAIN R
    OBVIOUS
  <2> HIDE DEF R
  <2> QED BY <2>1 DEF Spoils
<1>5. FinalLack(e) => Spoils(F)
  BY FinalSpoils
<1>6. ~ Len(e.folds) >= 5 => Spoils(D)
  BY DevelopmentSpoils
<1> HIDE DEF R, D, F, C, S, B
<1>7. Spoils(R) \/ Spoils(D) \/ Spoils(F)
  BY <1>4, <1>5, <1>6 DEF PromotionLack
<1>8. /\ DOMAIN (R ++ D) = DOMAIN R \cup DOMAIN D
      /\ DOMAIN ((R ++ D) ++ F) = DOMAIN (R ++ D) \cup DOMAIN F
      /\ DOMAIN (((R ++ D) ++ F) ++ C) = DOMAIN ((R ++ D) ++ F) \cup DOMAIN C
      /\ DOMAIN ((((R ++ D) ++ F) ++ C) ++ S) = DOMAIN (((R ++ D) ++ F) ++ C) \cup DOMAIN S
  BY DomainTogether
<1>9. /\ DOMAIN R \cap DOMAIN D = {} /\ DOMAIN (R ++ D) \cap DOMAIN F = {}
      /\ DOMAIN ((R ++ D) ++ F) \cap DOMAIN C = {}
      /\ DOMAIN (((R ++ D) ++ F) ++ C) \cap DOMAIN S = {}
      /\ DOMAIN ((((R ++ D) ++ F) ++ C) ++ S) \cap DOMAIN B = {}
  BY <1>2, <1>3, <1>8 DEF DevelopmentNames, CostNames, SensitivityNames, BootstrapNames
<1>10. Spoils((R ++ D) ++ F)
  BY <1>7, <1>9, SpoiledTogether
<1>11. Spoils(((R ++ D) ++ F) ++ C)
  BY <1>9, <1>10, SpoiledTogether
<1>12. Spoils((((R ++ D) ++ F) ++ C) ++ S)
  BY <1>9, <1>11, SpoiledTogether
<1>13. Spoils(((((R ++ D) ++ F) ++ C) ++ S) ++ B)
  BY <1>9, <1>12, SpoiledTogether
<1> QED BY <1>1, <1>13, SpoiledIsNotBest DEF Promote

PromotedShape(e) ==
  /\ {"final", "folds", "delayedRtd"} \subseteq DOMAIN e
  /\ {"rtd", "simpleRtd", "specialistRtd", "regimes"} \subseteq DOMAIN e.final

LEMMA WeakenedFinalSpoils ==
  ASSUME NEW e, PromotedShape(e), NEW weak \in WeakenedFinal(e)
  PROVE  Promote(weak) # "PASS"
<1>1. CASE weak \in {[e EXCEPT !.final.rtd = {}], [e EXCEPT !.final.simpleRtd = {}],
                     [e EXCEPT !.final.specialistRtd = {}], [e EXCEPT !.final.regimes = {}]}
  <2>1. \/ weak.final = [e.final EXCEPT !.rtd = {}]
        \/ weak.final = [e.final EXCEPT !.simpleRtd = {}]
        \/ weak.final = [e.final EXCEPT !.specialistRtd = {}]
        \/ weak.final = [e.final EXCEPT !.regimes = {}]
    BY <1>1 DEF PromotedShape
  <2>2. \/ weak.final.rtd = {} \/ weak.final.simpleRtd = {}
        \/ weak.final.specialistRtd = {} \/ weak.final.regimes = {}
    BY <2>1 DEF PromotedShape
  <2> QED BY <2>2, PromotionSpoils DEF PromotionLack, FinalLack, Missing
<1>2. CASE weak = [e EXCEPT !.delayedRtd = {}]
  <2>1. Missing(weak.delayedRtd)
    BY <1>2 DEF PromotedShape, Missing
  <2> QED BY <2>1, PromotionSpoils DEF PromotionLack
<1>3. CASE weak = [e EXCEPT !.folds = << Head(@) >>]
  <2>1. weak.folds = << Head(e.folds) >>
    BY <1>3 DEF PromotedShape
  <2>2. \A x : Len(<< x >>) = 1
    OBVIOUS
  <2>3. Len(weak.folds) = 1
    BY <2>1, <2>2
  <2>4. ~ Len(weak.folds) >= 5
    BY <2>3
  <2> QED BY <2>4, PromotionSpoils DEF PromotionLack
<1> QED BY <1>1, <1>2, <1>3 DEF WeakenedFinal

LEMMA PromotedEvidence ==
  ASSUME NEW c, NEW report \in PromotionReport(c)
  PROVE  PromotedShape(report.evidence)
<1> DEFINE plan == Plans[c.history].study.plan
<1>1. report.evidence = PromotionEvidence(c, plan)
  BY DEF PromotionReport, PromotionOn, Promoted
<1> DEFINE metrics == FinalMetrics(c, plan.final)
           e == PromotionEvidenceFrom(c, plan, metrics)
<1>2. report.evidence = e
  BY <1>1 DEF PromotionEvidence
<1> HIDE DEF plan, metrics
<1>3. {"final", "folds", "delayedRtd"} \subseteq DOMAIN e
  BY DEF PromotionEvidenceFrom, PromotionEvidenceOf
<1>4. {"rtd", "simpleRtd", "specialistRtd", "regimes"} \subseteq DOMAIN e.final
  <2>1. e.final = FinalEvidence(metrics, c.accounts["primary"][0],
                                RegimeMetrics(c, plan.final, c.accounts["primary"][0]))
    BY DEF PromotionEvidenceFrom, PromotionEvidenceOf
  <2>2. \A account, regimes :
          {"rtd", "simpleRtd", "specialistRtd", "regimes"}
            \subseteq DOMAIN FinalEvidence(metrics, account, regimes)
    BY DEF FinalEvidence
  <2> QED BY <2>1, <2>2
<1> QED BY <1>2, <1>3, <1>4 DEF PromotedShape

(* Evidence that is missing never promotes, whatever the market, the       *)
(* models and the rest of the evidence are: an emptied field, a fold that  *)
(* lost its ratio or its comparator, one fold, neighbor or receipt less    *)
(* (qualification_v0_3.py:129-527, qualification.py:402,                   *)
(* evaluation.py:358).                                                     *)
THEOREM MissingNeverPromotes == Spec => []FailClosed
<1>1. ASSUME NEW name \in DOMAIN Cases PROVE ClosedFor(name)
  <2>1. ASSUME NEW run \in Runs[name], NEW weak \in Weakened(run.evidence)
        PROVE  Qualify(weak) # "QUALIFIED"
    <3>1. /\ Cases[name].version \in {"v02", "v03"} /\ Cases[name].history \in DOMAIN Histories
          /\ run \in Execute(Cases[name])
      BY <2>1, RunsAre, CaseAssumption DEF RunOf
    <3>2. Gathered(run.evidence)
      BY <3>1, ExecutedEvidence
    <3> QED BY <2>1, <3>2, WeakenedSpoils
  <2>2. ASSUME NEW report \in Promotions[name], NEW weak \in WeakenedFinal(report.evidence)
        PROVE  Promote(weak) # "PASS"
    <3>1. report \in PromotionReport(Cases[name])
      BY <2>2, RunsAre DEF PromotionOf
    <3>2. PromotedShape(report.evidence)
      BY <3>1, PromotedEvidence
    <3> QED BY <2>2, <3>2, WeakenedFinalSpoils
  <2> QED BY <2>1, <2>2 DEF ClosedFor
<1>2. QInv => FailClosed
  BY <1>1, RunsAre DEF QInv, Typed, FailClosed
<1> QED BY <1>2, CommandsHold, PTL

-----------------------------------------------------------------------------
(***************************************************************************)
(* Windows of rows: the least and the largest of them.                     *)
(***************************************************************************)

LEMMA LeastElement ==
  ASSUME NEW T, T \subseteq Nat, T # {}
  PROVE  \E m \in T : \A n \in T : m <= n
<1> DEFINE R == OpToRel(<, Nat)
<1>1. IsWellFoundedOn(R, Nat)
  BY NatLessThanWellFounded
<1>2. \A x, y \in Nat : <<y, x>> \in R <=> y < x
  BY DEF OpToRel
<1> HIDE DEF R
<1>3. PICK x \in T : \A y \in T : ~ (<<y, x>> \in R)
  <2>1. \E x \in T : \A y \in T : ~ (<<y, x>> \in R)
    BY <1>1, WFMin
  <2> QED BY <2>1
<1>4. ASSUME NEW n \in T PROVE x <= n
  <2>1. x \in Nat /\ n \in Nat
    OBVIOUS
  <2>2. ~ (n < x)
    BY <1>2, <1>3, <2>1
  <2> QED BY <2>1, <2>2
<1> QED BY <1>4

LEMMA MinIs ==
  ASSUME NEW T, T \subseteq Nat, T # {}
  PROVE  Min(T) \in T /\ \A n \in T : Min(T) <= n
BY LeastElement DEF Min

LEMMA MaxIs ==
  ASSUME NEW T, T \subseteq Nat, T # {}, NEW bound \in Nat, \A n \in T : n <= bound
  PROVE  Max(T) \in T /\ \A n \in T : n <= Max(T)
<1> DEFINE U == {bound - n : n \in T}
<1>1. U \subseteq Nat /\ U # {}
  <2>1. \A n \in T : bound - n \in Nat
    OBVIOUS
  <2> QED BY <2>1
<1>2. PICK u \in U : \A v \in U : u <= v
  BY <1>1, LeastElement
<1>3. PICK m \in T : u = bound - m
  BY <1>2
<1>4. \A n \in T : m >= n
  <2> SUFFICES ASSUME NEW n \in T PROVE m >= n
    OBVIOUS
  <2>1. bound - m <= bound - n
    BY <1>2, <1>3
  <2> QED BY <2>1
<1>5. \E x \in T : \A y \in T : x >= y
  BY <1>4
<1>6. Max(T) \in T /\ \A y \in T : Max(T) >= y
  BY <1>5 DEF Max
<1> QED BY <1>6

\* What a window holds, and what the labels of its decisions reach.
LEMMA WindowReach ==
  ASSUME NEW window, window.start \in Int, window.end \in Int,
         NEW eligible, eligible \subseteq Nat, NEW boundaries,
         SafeIndices(window, eligible, boundaries) # {}
  PROVE  LET part == SafeIndices(window, eligible, boundaries)
         IN  /\ Max(Reach(part)) \in Int /\ Max(Reach(part)) < window.end
             /\ Min(part) \in Int /\ window.start <= Min(part)
<1> DEFINE part == SafeIndices(window, eligible, boundaries)
<1>1. \A i \in part : /\ i \in Nat /\ window.start <= i
                      /\ i + LabelExitOffset < window.end
  BY DEF SafeIndices, Inside
<1>2. part \subseteq Nat /\ part # {}
  BY <1>1
<1> HIDE DEF part
<1>3. Min(part) \in Int /\ window.start <= Min(part)
  <2>1. Min(part) \in part
    BY <1>2, MinIs
  <2> QED BY <1>1, <2>1
<1>4. Reach(part) \subseteq Nat /\ Reach(part) # {}
      /\ \A j \in Reach(part) : j < window.end
  <2>1. LabelExitOffset \in Nat
    BY SplitAssumption
  <2>2. \A j : j \in Reach(part) <=> \E i \in part : j \in i .. i + LabelExitOffset
    BY DEF Reach
  <2>3. ASSUME NEW j \in Reach(part) PROVE j \in Nat /\ j < window.end
    <3>1. PICK i \in part : j \in i .. i + LabelExitOffset
      BY <2>2
    <3> QED BY <1>1, <2>1, <3>1
  <2>4. PICK i \in part : TRUE
    BY <1>2
  <2>5. i \in i .. i + LabelExitOffset
    BY <1>1, <2>1
  <2> QED BY <2>2, <2>3, <2>5
<1>5. window.end \in Nat
  <2>1. PICK j \in Reach(part) : TRUE
    BY <1>4
  <2> QED BY <1>4, <2>1
<1>6. Max(Reach(part)) \in Reach(part)
  BY <1>4, <1>5, MaxIs
<1> QED BY <1>3, <1>4, <1>6 DEF part

\* A decision with features and a label keeps clear of every closure.
LEMMA DecisionIsClear ==
  ASSUME NEW h, History(h), NEW window, NEW boundaries, h.boundaries \subseteq boundaries,
         NEW i \in SafeIndices(window, LabelRows(h), boundaries), NEW b \in h.boundaries
  PROVE  ~ (i - Lookback < b /\ b <= i + LabelExitOffset)
<1>1. i \in Rows(h) /\ i - SegmentStart(h, i) >= Lookback
  BY DEF SafeIndices, LabelRows, FeatureRows
<1>2. i \in Nat /\ b \in Nat /\ Lookback \in Nat /\ LabelExitOffset \in Nat
  <2>1. Rows(h) \subseteq Nat
    BY CountIs DEF History
  <2> QED BY <1>1, <2>1, SplitAssumption DEF History
<1>3. ~ (i < b /\ b <= i + LabelExitOffset)
  BY DEF SafeIndices, CrossesBoundary
<1>4. ASSUME b <= i PROVE b <= i - Lookback
  <2> DEFINE T == {0} \cup {c \in h.boundaries : c <= i}
  <2>1. T \subseteq Nat /\ T # {} /\ (\A n \in T : n <= i) /\ b \in T
    <3>1. Rows(h) \subseteq Nat
      BY CountIs DEF History
    <3> QED BY <1>2, <1>4, <3>1 DEF History
  <2> HIDE DEF T
  <2>2. Max(T) \in Nat /\ b <= Max(T)
    BY <1>2, <2>1, MaxIs
  <2>3. SegmentStart(h, i) = Max(T)
    BY DEF SegmentStart, T
  <2> QED BY <1>1, <1>2, <2>2, <2>3
<1> QED BY <1>2, <1>3, <1>4

\* No fold of a plan refused it.
LEMMA NoProblem ==
  ASSUME NEW raw, DOMAIN raw \subseteq Nat, NEW eligible, NEW boundaries,
         FoldProblem(raw, eligible, boundaries) = "plan", NEW n \in DOMAIN raw
  PROVE  LET windows == FoldWindows(raw[n], Min(eligible))
         IN  /\ SafeIndices(windows.training, eligible, boundaries) # {}
             /\ SafeIndices(windows.calibration, eligible, boundaries) # {}
             /\ SafeIndices(windows.test, eligible, boundaries) # {}
<1> DEFINE problem(m) == WindowsProblem(FoldWindows(raw[m], Min(eligible)), eligible, boundaries)
           problems == [m \in DOMAIN raw |-> problem(m)]
           bad == {m \in DOMAIN problems : problems[m] # "plan"}
<1>1. FirstProblem(problems) = "plan"
  BY TabulatedIs DEF FoldProblem
<1>2. DOMAIN problems = DOMAIN raw /\ problems[n] = problem(n)
  OBVIOUS
<1> HIDE DEF problems, problem
<1>3. bad = {}
  <2> SUFFICES ASSUME bad # {} PROVE FALSE
    OBVIOUS
  <2>1. Min(bad) \in bad
    BY <1>2, MinIs
  <2>2. FirstProblem(problems) = problems[Min(bad)]
    BY DEF FirstProblem
  <2> QED BY <1>1, <2>1, <2>2
<1>4. problem(n) = "plan"
  BY <1>2, <1>3
<1> DEFINE windows == FoldWindows(raw[n], Min(eligible))
<1>5. \A part \in DOMAIN windows : SafeIndices(windows[part], eligible, boundaries) # {}
  <2> HIDE DEF windows
  <2>1. WindowsProblem(windows, eligible, boundaries) = "plan"
    BY <1>4 DEF problem, windows
  <2> QED BY <2>1 DEF WindowsProblem
<1>6. DOMAIN windows = {"training", "calibration", "test"}
  BY DEF FoldWindows
<1> HIDE DEF windows
<1>7. /\ SafeIndices(windows.training, eligible, boundaries) # {}
      /\ SafeIndices(windows.calibration, eligible, boundaries) # {}
      /\ SafeIndices(windows.test, eligible, boundaries) # {}
  BY <1>5, <1>6
<1> QED BY <1>7 DEF windows

\* The parts of a fold.
LEMMA FoldIs ==
  ASSUME NEW raw, NEW eligible, NEW boundaries
  PROVE  LET windows == FoldWindows(raw, Min(eligible))
             fold == Fold(raw, eligible, boundaries)
         IN  /\ fold.training = SafeIndices(windows.training, eligible, boundaries)
             /\ fold.calibration = SafeIndices(windows.calibration, eligible, boundaries)
             /\ fold.test = SafeIndices(windows.test, eligible, boundaries)
             /\ fold.window = windows.test
             /\ windows.training.end = raw.calibration - Purge
             /\ windows.calibration.start = raw.calibration + Embargo
             /\ windows.calibration.end = raw.test - Purge
             /\ windows.test.start = raw.test + Embargo
             /\ windows.test.end = raw.end - Purge
             /\ windows.training.start = Min(eligible)
<1> DEFINE windows == FoldWindows(raw, Min(eligible))
           indices == FoldIndices(windows, eligible, boundaries)
<1>1. /\ windows.training.end = raw.calibration - Purge
      /\ windows.calibration.start = raw.calibration + Embargo
      /\ windows.calibration.end = raw.test - Purge
      /\ windows.test.start = raw.test + Embargo
      /\ windows.test.end = raw.end - Purge
      /\ windows.training.start = Min(eligible)
      /\ DOMAIN windows = {"training", "calibration", "test"}
  BY DEF FoldWindows, Window
<1>2. Fold(raw, eligible, boundaries) = FoldOf(windows, indices)
  BY DEF Fold, FoldIn
<1> HIDE DEF windows
<1>3. /\ indices.training = SafeIndices(windows.training, eligible, boundaries)
      /\ indices.calibration = SafeIndices(windows.calibration, eligible, boundaries)
      /\ indices.test = SafeIndices(windows.test, eligible, boundaries)
  BY <1>1 DEF FoldIndices
<1>4. /\ Fold(raw, eligible, boundaries).training = indices.training
      /\ Fold(raw, eligible, boundaries).calibration = indices.calibration
      /\ Fold(raw, eligible, boundaries).test = indices.test
      /\ Fold(raw, eligible, boundaries).window = windows.test
  BY <1>2 DEF FoldOf
<1> QED BY <1>1, <1>3, <1>4 DEF windows

LEMMA EligibleRows ==
  ASSUME NEW h, History(h)
  PROVE  LabelRows(h) \subseteq Nat
BY CountIs DEF History, LabelRows, FeatureRows

LEMMA OneFoldIsCausal ==
  ASSUME NEW h, History(h), NEW raw \in RawType, NEW boundaries, h.boundaries \subseteq boundaries,
         LabelRows(h) # {},
         LET windows == FoldWindows(raw, Min(LabelRows(h)))
         IN  /\ SafeIndices(windows.training, LabelRows(h), boundaries) # {}
             /\ SafeIndices(windows.calibration, LabelRows(h), boundaries) # {}
             /\ SafeIndices(windows.test, LabelRows(h), boundaries) # {}
  PROVE  LET fold == Fold(raw, LabelRows(h), boundaries)
         IN  /\ FoldIsCausal(h, fold)
             /\ Max(Reach(fold.test)) \in Int /\ Max(Reach(fold.test)) < raw.end - Purge
             /\ Min(fold.test) \in Int /\ raw.test + Embargo <= Min(fold.test)
<1> DEFINE eligible == LabelRows(h)
           windows == FoldWindows(raw, Min(eligible))
           fold == Fold(raw, eligible, boundaries)
<1>1. /\ fold.training = SafeIndices(windows.training, eligible, boundaries)
      /\ fold.calibration = SafeIndices(windows.calibration, eligible, boundaries)
      /\ fold.test = SafeIndices(windows.test, eligible, boundaries)
      /\ windows.training.end = raw.calibration - Purge
      /\ windows.calibration.start = raw.calibration + Embargo
      /\ windows.calibration.end = raw.test - Purge
      /\ windows.test.start = raw.test + Embargo
      /\ windows.test.end = raw.end - Purge
      /\ windows.training.start = Min(eligible)
  BY FoldIs
<1>2. /\ raw.calibration \in Nat /\ raw.test \in Nat /\ raw.end \in Nat
      /\ Purge \in Nat /\ Embargo \in Nat
  BY SplitAssumption DEF RawType
<1>3. eligible \subseteq Nat /\ Min(eligible) \in Int
  BY EligibleRows, MinIs
<1>4. /\ fold.training # {} /\ fold.calibration # {} /\ fold.test # {}
  BY <1>1
<1>5. \A part \in {fold.training, fold.calibration, fold.test} : \A i \in part :
        \A b \in h.boundaries : ~ (i - Lookback < b /\ b <= i + LabelExitOffset)
  BY <1>1, DecisionIsClear
<1> HIDE DEF windows, fold, eligible
<1>6. /\ Max(Reach(fold.training)) \in Int /\ Max(Reach(fold.training)) < raw.calibration - Purge
  BY <1>1, <1>2, <1>3, <1>4, WindowReach
<1>7. /\ Max(Reach(fold.calibration)) \in Int /\ Max(Reach(fold.calibration)) < raw.test - Purge
      /\ Min(fold.calibration) \in Int /\ raw.calibration + Embargo <= Min(fold.calibration)
  <2> DEFINE window == windows.calibration
  <2>1. /\ window.start \in Int /\ window.end \in Int
        /\ window.start = raw.calibration + Embargo /\ window.end = raw.test - Purge
        /\ fold.calibration = SafeIndices(window, eligible, boundaries)
    BY <1>1, <1>2
  <2> HIDE DEF window
  <2> QED BY <1>3, <1>4, <2>1, WindowReach
<1>8. /\ Max(Reach(fold.test)) \in Int /\ Max(Reach(fold.test)) < raw.end - Purge
      /\ Min(fold.test) \in Int /\ raw.test + Embargo <= Min(fold.test)
  <2> DEFINE window == windows.test
  <2>1. /\ window.start \in Int /\ window.end \in Int
        /\ window.start = raw.test + Embargo /\ window.end = raw.end - Purge
        /\ fold.test = SafeIndices(window, eligible, boundaries)
    BY <1>1, <1>2
  <2> HIDE DEF window
  <2> QED BY <1>3, <1>4, <2>1, WindowReach
<1>9. FoldIsCausal(h, fold)
  <2>1. Max(Reach(fold.training)) + Embargo < Min(fold.calibration)
    BY <1>2, <1>6, <1>7
  <2>2. Max(Reach(fold.calibration)) + Embargo < Min(fold.test)
    BY <1>2, <1>7, <1>8
  <2> QED BY <1>5, <2>1, <2>2 DEF FoldIsCausal
<1> QED BY <1>8, <1>9 DEF fold, eligible

\* A later fold tests after the earlier one, and every fold before the limit.
Stepwise == {policy \in PolicyType : policy.test = policy.step}

LEMMA LaterFold ==
  ASSUME NEW h, History(h), NEW policy \in Stepwise, NEW n \in Nat \ {0}, NEW m \in Nat, n < m
  PROVE  RawOf(h, policy, n).end <= RawOf(h, policy, m).test
<1> DEFINE s == policy.step
           c == policy.calibration
           early == policy.training + (n - 1) * s
           late == policy.training + (m - 1) * s
<1>1. /\ policy.training \in Nat /\ c \in Nat /\ policy.test = s /\ s \in Nat
  BY DEF Stepwise, PolicyType
<1>2. early \in Nat /\ late \in Nat /\ early + s <= late
  <2>1. (n - 1) * s \in Nat /\ (m - 1) * s \in Nat
    BY <1>1
  <2>2. (n - 1) * s + s = n * s
    BY <1>1
  <2>3. n * s <= (m - 1) * s
    <3>1. \A a, b, k \in Nat : a <= b => a * k <= b * k
      BY Z3
    <3>2. n \in Nat /\ m - 1 \in Nat /\ n <= m - 1
      OBVIOUS
    <3> QED BY <1>1, <3>1, <3>2
  <2>4. n * s \in Nat
    BY <1>1
  <2> QED BY <1>1, <2>1, <2>2, <2>3, <2>4
<1> HIDE DEF s, c, early, late
<1>3. /\ Month(early) \in Int /\ Month(c) \in Int /\ Month(s) \in Int /\ Month(late) \in Int
      /\ Month(c + s) = Month(c) + Month(s)
      /\ Month(early + s) = Month(early) + Month(s)
  <2>1. early \in Int /\ c \in Int /\ s \in Int /\ late \in Int
    BY <1>1, <1>2
  <2> QED BY <2>1, MonthIs
<1>4. Month(early + s) <= Month(late)
  <2>1. early + s \in Int /\ late \in Int
    BY <1>1, <1>2
  <2> QED BY <1>2, <2>1, MonthIs
<1>5. Month(early) + Month(c + s) <= Month(late) + Month(c)
  BY <1>3, <1>4
<1>6. FirstFrom(h, Month(early) + Month(c + s)) <= FirstFrom(h, Month(late) + Month(c))
  BY <1>3, <1>5, FirstFromGrows
<1>7. /\ RawOf(h, policy, n).end = FirstFrom(h, Month(early) + Month(c + s))
      /\ RawOf(h, policy, m).test = FirstFrom(h, Month(late) + Month(c))
  BY <1>1 DEF RawOf, FoldStart, early, late, c, s
<1> QED BY <1>6, <1>7

LEMMA FoldBeforeLimit ==
  ASSUME NEW h, History(h), NEW policy \in PolicyType, NEW n \in Nat, NEW limit \in Int,
         FoldStart(policy, n) + Month(policy.calibration + policy.test) <= limit
  PROVE  RawOf(h, policy, n).end <= FirstFrom(h, limit)
<1> DEFINE time == FoldStart(policy, n) + Month(policy.calibration + policy.test)
<1>1. time \in Int
  <2> DEFINE a == policy.training + (n - 1) * policy.step
             b == policy.calibration + policy.test
  <2>1. a \in Int /\ b \in Int
    BY DEF PolicyType
  <2> HIDE DEF a, b
  <2>2. Month(a) \in Int /\ Month(b) \in Int
    BY <2>1, MonthIs
  <2> QED BY <2>2 DEF FoldStart, a, b
<1>2. RawOf(h, policy, n).end = FirstFrom(h, time)
  BY DEF RawOf
<1> HIDE DEF time
<1>3. time <= limit
  BY DEF time
<1> QED BY <1>1, <1>2, <1>3, FirstFromGrows

LEMMA PolicyIsStepwise == LockedV01 \in Stepwise /\ Diagnostic \in Stepwise
BY PolicyIs DEF Stepwise, LockedV01, Diagnostic

\* All folds of a plan, by whichever policy and up to whichever limit.
LEMMA FoldsAreCausal ==
  ASSUME NEW h, History(h), NEW policy \in Stepwise, NEW limit \in Int,
         NEW boundaries, h.boundaries \subseteq boundaries, LabelRows(h) # {},
         FoldProblem(RawFolds(h, policy, limit), LabelRows(h), boundaries) = "plan"
  PROVE  LET folds == FoldsOfPlan(RawFolds(h, policy, limit), LabelRows(h), boundaries)
         IN  /\ \A n \in DOMAIN folds : FoldIsCausal(h, folds[n])
             /\ \A n, m \in DOMAIN folds :
                  n < m => Max(Reach(folds[n].test)) < Min(folds[m].test)
             /\ \A n \in DOMAIN folds :
                  /\ Max(Reach(folds[n].test)) \in Int
                  /\ Max(Reach(folds[n].test)) < FirstFrom(h, limit) - Purge
<1> DEFINE raw == RawFolds(h, policy, limit)
           eligible == LabelRows(h)
           folds == FoldsOfPlan(raw, eligible, boundaries)
<1>1. /\ raw \in Seq(RawType) /\ DOMAIN raw = 1 .. Len(raw)
      /\ \A n \in 1 .. Len(raw) :
           /\ raw[n] = RawOf(h, policy, n)
           /\ FoldStart(policy, n) + Month(policy.calibration + policy.test) <= limit
  BY RawFoldsAre DEF Stepwise
<1>2. FoldProblem(raw, eligible, boundaries) = "plan"
  OBVIOUS
<1> HIDE DEF raw
<1>3. /\ DOMAIN folds = DOMAIN raw
      /\ \A n \in DOMAIN raw : folds[n] = Fold(raw[n], eligible, boundaries)
  BY DEF FoldsOfPlan
<1>4. DOMAIN raw \subseteq Nat \ {0} /\ \A n \in DOMAIN raw : raw[n] \in RawType
  BY <1>1
<1>5. ASSUME NEW n \in DOMAIN raw
      PROVE  LET fold == Fold(raw[n], eligible, boundaries)
             IN  /\ FoldIsCausal(h, fold)
                 /\ Max(Reach(fold.test)) \in Int /\ Max(Reach(fold.test)) < raw[n].end - Purge
                 /\ Min(fold.test) \in Int /\ raw[n].test + Embargo <= Min(fold.test)
  <2>1. DOMAIN raw \subseteq Nat
    BY <1>4
  <2>2. LET windows == FoldWindows(raw[n], Min(eligible))
        IN  /\ SafeIndices(windows.training, eligible, boundaries) # {}
            /\ SafeIndices(windows.calibration, eligible, boundaries) # {}
            /\ SafeIndices(windows.test, eligible, boundaries) # {}
    BY <1>2, <2>1, NoProblem
  <2>3. raw[n] \in RawType
    BY <1>4
  <2> QED BY <2>2, <2>3, OneFoldIsCausal
<1> HIDE DEF eligible, folds
<1>6. ASSUME NEW n \in DOMAIN folds
      PROVE  /\ FoldIsCausal(h, folds[n])
             /\ Max(Reach(folds[n].test)) \in Int
             /\ Max(Reach(folds[n].test)) < raw[n].end - Purge
             /\ Min(folds[n].test) \in Int /\ raw[n].test + Embargo <= Min(folds[n].test)
             /\ raw[n].end \in Nat /\ raw[n].test \in Nat
  BY <1>3, <1>4, <1>5 DEF RawType
<1>7. Purge \in Nat /\ Embargo \in Nat
  BY SplitAssumption
<1>8. ASSUME NEW n \in DOMAIN folds, NEW m \in DOMAIN folds, n < m
      PROVE  Max(Reach(folds[n].test)) < Min(folds[m].test)
  <2>1. raw[n].end <= raw[m].test
    <3>1. n \in Nat \ {0} /\ m \in Nat
      BY <1>3, <1>4
    <3>2. raw[n] = RawOf(h, policy, n) /\ raw[m] = RawOf(h, policy, m)
      BY <1>1, <1>3
    <3> QED BY <1>8, <3>1, <3>2, LaterFold
  <2> QED BY <1>6, <1>7, <2>1
<1>9. ASSUME NEW n \in DOMAIN folds
      PROVE  Max(Reach(folds[n].test)) < FirstFrom(h, limit) - Purge
  <2>1. raw[n].end <= FirstFrom(h, limit)
    <3>1. n \in Nat
      BY <1>3, <1>4
    <3>2. /\ raw[n] = RawOf(h, policy, n)
          /\ FoldStart(policy, n) + Month(policy.calibration + policy.test) <= limit
      BY <1>1, <1>3
    <3> QED BY <3>1, <3>2, FoldBeforeLimit DEF Stepwise
  <2>2. FirstFrom(h, limit) \in Nat
    BY FirstFromGrows
  <2> QED BY <1>6, <1>7, <2>1, <2>2
<1>10. /\ \A n \in DOMAIN folds : FoldIsCausal(h, folds[n])
       /\ \A n, m \in DOMAIN folds :
            n < m => Max(Reach(folds[n].test)) < Min(folds[m].test)
       /\ \A n \in DOMAIN folds :
            /\ Max(Reach(folds[n].test)) \in Int
            /\ Max(Reach(folds[n].test)) < FirstFrom(h, limit) - Purge
  BY <1>6, <1>8, <1>9
<1> QED BY <1>10 DEF folds, eligible, raw

LEMMA DevelopmentIsCausal ==
  ASSUME NEW h, History(h), NEW version
  PROVE  PlanIsCausalFor(h, DevelopmentPlan(h, LabelRows(h), version))
<1> DEFINE raw == RawFolds(h, LockedV01, EndExclusive(h))
           boundaries == h.boundaries \cup FoldBoundaries(raw)
           folds == FoldsOfPlan(raw, LabelRows(h), boundaries)
           plan == DevelopmentPlan(h, LabelRows(h), version)
<1> SUFFICES ASSUME plan.status = "plan" PROVE PlanIsCausalFor(h, plan)
  BY DEF PlanIsCausalFor
<1>1. /\ LabelRows(h) # {} /\ FoldProblem(raw, LabelRows(h), boundaries) = "plan"
      /\ plan = [status |-> "plan", folds |-> folds, boundaries |-> boundaries]
  BY DevelopmentPlanIs
<1>2. h.boundaries \subseteq boundaries /\ EndExclusive(h) \in Int
  BY CountIs
<1> HIDE DEF boundaries, plan
<1>3. /\ \A n \in DOMAIN folds : FoldIsCausal(h, folds[n])
      /\ \A n, m \in DOMAIN folds :
           n < m => Max(Reach(folds[n].test)) < Min(folds[m].test)
  BY <1>1, <1>2, FoldsAreCausal, PolicyIsStepwise
<1> HIDE DEF folds
<1>4. plan.folds = folds /\ "final" \notin DOMAIN plan
  BY <1>1
<1> QED BY <1>3, <1>4 DEF PlanIsCausalFor

LEMMA WithFinalIs ==
  ASSUME NEW plan, NEW window, NEW indices, WithFinal(plan, window, indices).status = "plan"
  PROVE  /\ plan.status = "plan" /\ indices # {}
         /\ WithFinal(plan, window, indices) =
              [status |-> "plan", folds |-> plan.folds, boundaries |-> plan.boundaries,
               final |-> [test |-> indices, window |-> window]]
<1> DEFINE result == WithFinal(plan, window, indices)
<1>1. plan.status # "plan" => result = plan
  BY DEF WithFinal
<1>2. plan.status = "plan"
  BY <1>1
<1>3. result # Refused("boundary") /\ result # Refused("history")
  BY RefusedIs
<1> QED BY <1>2, <1>3 DEF WithFinal

LEMMA ChronologicalPlanIs ==
  ASSUME NEW h, NEW eligible, NEW policy, ChronologicalPlan(h, eligible, policy).status = "plan"
  PROVE  LET limit == EndExclusive(h) - Month(policy.final)
             raw == RawFolds(h, policy, limit)
             boundary == FirstFrom(h, limit)
             boundaries == {boundary} \cup h.boundaries \cup FoldBoundaries(raw)
             window == Window(boundary + Embargo, Count(h) - LabelExitOffset)
             indices == SafeIndices(window, eligible, boundaries)
         IN  /\ Continuous(h) /\ eligible # {}
             /\ FoldProblem(raw, eligible, boundaries) = "plan"
             /\ indices # {}
             /\ ChronologicalPlan(h, eligible, policy) =
                  [status |-> "plan", folds |-> FoldsOfPlan(raw, eligible, boundaries),
                   boundaries |-> boundaries, final |-> [test |-> indices, window |-> window]]
<1> DEFINE limit == EndExclusive(h) - Month(policy.final)
           raw == RawFolds(h, policy, limit)
           boundary == FirstFrom(h, limit)
           boundaries == {boundary} \cup h.boundaries \cup FoldBoundaries(raw)
           window == Window(boundary + Embargo, Count(h) - LabelExitOffset)
           before == PlanFolds(raw, eligible, boundaries)
           plan == ChronologicalPlan(h, eligible, policy)
<1>1. /\ plan # Refused("boundary") /\ plan # Refused("history") /\ plan # Refused("seal")
  BY RefusedIs
<1> HIDE DEF raw, boundary
<1>2. plan = ChronologicalPlanAt(h, eligible, policy, boundary, raw)
  BY DEF ChronologicalPlan, boundary, raw
<1> HIDE DEF limit
<1>3. /\ Continuous(h) /\ eligible # {}
      /\ plan = FinalBehind(before, h, eligible, window)
  <2> HIDE DEF plan
  <2> QED BY <1>1, <1>2 DEF ChronologicalPlanAt
<1> HIDE DEF before, window
<1> DEFINE found == IF before.status = "plan" THEN SafeIndices(window, eligible, before.boundaries)
                    ELSE {}
<1>4. plan = WithFinal(before, window, found)
  BY <1>3 DEF FinalBehind
<1> HIDE DEF plan
<1>5. plan.status = "plan"
  BY DEF plan
<1> HIDE DEF found
<1>6. /\ before.status = "plan" /\ found # {}
      /\ plan = [status |-> "plan", folds |-> before.folds, boundaries |-> before.boundaries,
                 final |-> [test |-> found, window |-> window]]
  BY <1>4, <1>5, WithFinalIs
<1>7. /\ FoldProblem(raw, eligible, boundaries) = "plan"
      /\ before = [status |-> "plan", folds |-> FoldsOfPlan(raw, eligible, boundaries),
                   boundaries |-> boundaries]
  <2> HIDE DEF boundaries
  <2> QED BY <1>6, FoldsOrIs DEF before
<1>8. found = SafeIndices(window, eligible, boundaries)
  BY <1>6, <1>7 DEF found
<1>9. /\ before.folds = FoldsOfPlan(raw, eligible, boundaries) /\ before.boundaries = boundaries
  BY <1>7
<1> HIDE DEF boundaries
<1> QED BY <1>3, <1>6, <1>7, <1>8, <1>9 DEF boundaries, window, boundary, raw, limit, plan

LEMMA ChronologicalIsCausal ==
  ASSUME NEW h, History(h), NEW policy \in Stepwise
  PROVE  PlanIsCausalFor(h, ChronologicalPlan(h, LabelRows(h), policy))
<1> DEFINE limit == EndExclusive(h) - Month(policy.final)
           raw == RawFolds(h, policy, limit)
           boundary == FirstFrom(h, limit)
           boundaries == {boundary} \cup h.boundaries \cup FoldBoundaries(raw)
           window == Window(boundary + Embargo, Count(h) - LabelExitOffset)
           indices == SafeIndices(window, LabelRows(h), boundaries)
           folds == FoldsOfPlan(raw, LabelRows(h), boundaries)
           plan == ChronologicalPlan(h, LabelRows(h), policy)
<1> SUFFICES ASSUME plan.status = "plan" PROVE PlanIsCausalFor(h, plan)
  BY DEF PlanIsCausalFor
<1>1. /\ LabelRows(h) # {} /\ FoldProblem(raw, LabelRows(h), boundaries) = "plan"
      /\ indices # {}
      /\ plan = [status |-> "plan", folds |-> folds, boundaries |-> boundaries,
                 final |-> [test |-> indices, window |-> window]]
  BY ChronologicalPlanIs
<1>2. h.boundaries \subseteq boundaries
  OBVIOUS
<1>3. limit \in Int
  <2>1. policy.final \in Int
    BY DEF Stepwise, PolicyType
  <2>2. Month(policy.final) \in Int
    BY <2>1, MonthIs
  <2>3. EndExclusive(h) \in Int
    BY CountIs
  <2> QED BY <2>2, <2>3
<1>4. /\ boundary \in Nat /\ Count(h) \in Nat /\ Embargo \in Nat /\ Purge \in Nat
      /\ LabelExitOffset \in Nat
  BY <1>3, FirstFromGrows, CountIs, SplitAssumption
<1> HIDE DEF boundaries, plan, limit
<1>5. /\ \A n \in DOMAIN folds : FoldIsCausal(h, folds[n])
      /\ \A n, m \in DOMAIN folds :
           n < m => Max(Reach(folds[n].test)) < Min(folds[m].test)
      /\ \A n \in DOMAIN folds :
           /\ Max(Reach(folds[n].test)) \in Int
           /\ Max(Reach(folds[n].test)) < boundary - Purge
  BY <1>1, <1>2, <1>3, FoldsAreCausal
<1> HIDE DEF folds, boundary
<1>6. Min(indices) \in Int /\ boundary + Embargo <= Min(indices)
  <2>1. window.start = boundary + Embargo /\ window.start \in Int /\ window.end \in Int
    BY <1>4 DEF Window
  <2> HIDE DEF window
  <2>2. LabelRows(h) \subseteq Nat
    BY EligibleRows
  <2> QED BY <1>1, <2>1, <2>2, WindowReach
<1> HIDE DEF indices
<1>7. \A n \in DOMAIN folds : Max(Reach(folds[n].test)) + Embargo < Min(indices)
  BY <1>4, <1>5, <1>6
<1>8. plan.folds = folds /\ plan.final.test = indices
  BY <1>1
<1> QED BY <1>5, <1>7, <1>8 DEF PlanIsCausalFor

LEMMA StudyIsCausal ==
  ASSUME NEW h, History(h)
  PROVE  PlanIsCausalFor(h, StudyPlan(h, LabelRows(h)).plan)
<1> DEFINE locked == ChronologicalPlan(h, LabelRows(h), LockedV01)
           diagnostic == ChronologicalPlan(h, LabelRows(h), Diagnostic)
<1>1. StudyPlan(h, LabelRows(h)) = Promotable(locked, diagnostic)
  BY DEF StudyPlan
<1>2. PlanIsCausalFor(h, locked) /\ PlanIsCausalFor(h, diagnostic)
  BY ChronologicalIsCausal, PolicyIsStepwise
<1> HIDE DEF locked, diagnostic
<1>3. Promotable(locked, diagnostic).plan \in {locked, diagnostic}
  BY DEF Promotable
<1> QED BY <1>1, <1>2, <1>3

(* Every plan of every history is causal: what a decision's label or       *)
(* features need never lies in a later part of its fold, a later test, the *)
(* final test or behind an exchange closure (splits.py:149-264,            *)
(* v0_3_splits.py:120-190).                                                *)
THEOREM PlansAreCausal == Spec => []PlanIsCausal
<1>1. ASSUME NEW name \in DOMAIN Histories PROVE CausalPlans[name]
  <2> DEFINE h == Histories[name]
             eligible == LabelRows(h)
  <2>1. History(h)
    BY HistoriesAre
  <2>2. PlanIsCausalFor(h, Plans[name].v02) /\ PlanIsCausalFor(h, Plans[name].v03)
    BY <2>1, PlansAre, DevelopmentIsCausal
  <2>3. PlanIsCausalFor(h, Plans[name].study.plan)
    BY <2>1, PlansAre, StudyIsCausal
  <2>4. CausalFor(name)
    BY <2>2, <2>3 DEF CausalFor
  <2>5. CausalPlans[name] = CausalFor(name)
    BY TabulatedIs DEF CausalPlans
  <2> QED BY <2>4, <2>5
<1>2. QInv => PlanIsCausal
  BY <1>1, CaseAssumption DEF QInv, Typed, PlanIsCausal
<1> QED BY <1>2, CommandsHold, PTL

-----------------------------------------------------------------------------
(***************************************************************************)
(* Totals: FoldFunction is a recursive function over the subsets of a      *)
(* finite domain.                                                          *)
(***************************************************************************)

First(s) == CHOOSE x \in s : TRUE

(* F is the recursive function behind the sum of g over a set.             *)
IsSum(F, g, D) ==
  F = [s \in SUBSET D |-> IF s = {} THEN 0 ELSE g[First(s)] + F[s \ {First(s)}]]

LEMMA FirstIn ==
  ASSUME NEW s, s # {}
  PROVE  First(s) \in s
BY DEF First

(* Of some subsets of a finite set one contains no other.                  *)
LEMMA SmallestSubset ==
  ASSUME NEW D, IsFiniteSet(D), NEW C, C \subseteq SUBSET D, C # {}
  PROVE  \E s \in C : \A t \in C : t \subseteq s => t = s
<1> DEFINE R == StrictSubsetOrdering(D)
<1>1. IsWellFoundedOn(R, SUBSET D)
  BY FS_StrictSubsetOrderingWellFounded, FS_FiniteSubsetsOfFinite
<1>2. PICK s \in C : \A t \in C : ~ (<<t, s>> \in R)
  <2> HIDE DEF R
  <2> QED BY <1>1, WFMin
<1>3. \A t \in C : t \subseteq s => t = s
  BY <1>2 DEF StrictSubsetOrdering
<1> QED BY <1>3

LEMMA SumStep ==
  ASSUME NEW D, NEW g, NEW F, IsSum(F, g, D), NEW s \in SUBSET D, s # {}
  PROVE  /\ First(s) \in s /\ s \ {First(s)} \in SUBSET D /\ s \ {First(s)} # s
         /\ F[s] = g[First(s)] + F[s \ {First(s)}]
BY FirstIn DEF IsSum

(* The sum over a set depends on the set and its values only.              *)
LEMMA SumsAgree ==
  ASSUME NEW D, NEW E, IsFiniteSet(D), NEW g, NEW F, NEW G, IsSum(F, g, D), IsSum(G, g, E),
         NEW s \in SUBSET D, s \in SUBSET E
  PROVE  F[s] = G[s]
<1> DEFINE Bad == {t \in SUBSET D : t \subseteq s /\ F[t] # G[t]}
<1>1. SUFFICES ASSUME Bad # {} PROVE FALSE
  OBVIOUS
<1>2. PICK t \in Bad : \A u \in Bad : u \subseteq t => u = t
  <2> HIDE DEF Bad
  <2>1. Bad \subseteq SUBSET D
    BY DEF Bad
  <2> QED BY <1>1, <2>1, SmallestSubset
<1>3. CASE t = {}
  <2>1. F[t] = 0 /\ G[t] = 0
    BY <1>3 DEF IsSum
  <2> QED BY <2>1
<1>4. CASE t # {}
  <2> DEFINE u == t \ {First(t)}
  <2>1. F[t] = g[First(t)] + F[u] /\ First(t) \in t /\ u # t
    BY <1>4, SumStep
  <2>2. G[t] = g[First(t)] + G[u]
    BY <1>4, SumStep
  <2>3. u \notin Bad
    BY <1>2, <2>1
  <2> QED BY <2>1, <2>2, <2>3
<1> QED BY <1>3, <1>4

LEMMA SumExists ==
  ASSUME NEW D, IsFiniteSet(D), NEW g
  PROVE  \E F : IsSum(F, g, D)
<1> DEFINE Bad == {t \in SUBSET D : ~ \E F : IsSum(F, g, t)}
<1>1. SUFFICES ASSUME Bad # {} PROVE FALSE
  OBVIOUS
<1>2. PICK t \in Bad : \A u \in Bad : u \subseteq t => u = t
  <2> HIDE DEF Bad
  <2>1. Bad \subseteq SUBSET D
    BY DEF Bad
  <2> QED BY <1>1, <2>1, SmallestSubset
<1> DEFINE SumOn(u) == CHOOSE F : IsSum(F, g, u)
           Whole == [s \in SUBSET t |-> IF s # t THEN SumOn(s)[s]
                                        ELSE IF s = {} THEN 0
                                        ELSE g[First(s)] + SumOn(s \ {First(s)})[s \ {First(s)}]]
<1>3. \A u \in SUBSET t : u # t => IsSum(SumOn(u), g, u)
  BY <1>2
<1> HIDE DEF SumOn
<1>4. ASSUME NEW s \in SUBSET t PROVE Whole[s] = IF s = {} THEN 0 ELSE g[First(s)] + Whole[s \ {First(s)}]
  <2>1. CASE s = {}
    <3>1. CASE s = t
      BY <2>1, <3>1
    <3>2. CASE s # t
      <4>1. SumOn(s)[s] = 0
        BY <1>3, <2>1, <3>2 DEF IsSum
      <4> QED BY <2>1, <3>2, <4>1
    <3> QED BY <3>1, <3>2
  <2>2. CASE s # {}
    <3> DEFINE u == s \ {First(s)}
    <3>1. First(s) \in s /\ u \in SUBSET t /\ u # t /\ u # s
      BY <2>2, FirstIn
    <3>2. Whole[u] = SumOn(u)[u]
      BY <3>1
    <3>3. CASE s = t
      BY <2>2, <3>2, <3>3
    <3>4. CASE s # t
      <4>1. IsSum(SumOn(s), g, s) /\ IsSum(SumOn(u), g, u)
        BY <1>3, <3>1, <3>4
      <4>2. SumOn(s)[s] = g[First(s)] + SumOn(s)[u]
        <5> DEFINE G == SumOn(s)
        <5>1. IsSum(G, g, s) /\ s \in SUBSET s
          BY <4>1
        <5> HIDE DEF G
        <5>2. G[s] = g[First(s)] + G[s \ {First(s)}]
          BY <2>2, <5>1, SumStep
        <5> QED BY <5>2 DEF G
      <4>3. SumOn(s)[u] = SumOn(u)[u]
        <5>1. IsFiniteSet(s) /\ u \in SUBSET s
          BY FS_Subset
        <5> QED BY <4>1, <5>1, SumsAgree
      <4> QED BY <2>2, <3>2, <3>4, <4>2, <4>3
    <3> QED BY <3>3, <3>4
  <2> QED BY <2>1, <2>2
<1>5. IsSum(Whole, g, t)
  <2>1. Whole = [s \in SUBSET t |-> Whole[s]]
    OBVIOUS
  <2> HIDE DEF Whole
  <2> QED BY <1>4, <2>1 DEF IsSum
<1> HIDE DEF Whole
<1> QED BY <1>2, <1>5

\* A total is a sum over the domain, of any order.
LEMMA TotalIs ==
  ASSUME NEW g, IsFiniteSet(DOMAIN g)
  PROVE  \E F : IsSum(F, g, DOMAIN g) /\ Total(g) = F[DOMAIN g]
<1> DEFINE D == DOMAIN g
           F == CHOOSE f : f = [s \in SUBSET D |-> IF s = {} THEN 0
                                                  ELSE g[First(s)] + f[s \ {First(s)}]]
<1>1. IsSum(F, g, D)
  <2>1. \E f : f = [s \in SUBSET D |-> IF s = {} THEN 0 ELSE g[First(s)] + f[s \ {First(s)}]]
    <3>1. IsFiniteSet(D)
      OBVIOUS
    <3> HIDE DEF D
    <3>2. \E f : IsSum(f, g, D)
      BY <3>1, SumExists
    <3> QED BY <3>2, Zenon DEF IsSum
  <2> QED BY <2>1, Zenon DEF IsSum
<1>2. Total(g) = F[D]
  BY DEF Total, FoldFunction, FoldFunctionOnSet, MapThenFoldSet, First
<1> QED BY <1>1, <1>2

\* A finite set of numbers has a largest one.
LEMMA LargestOne ==
  ASSUME NEW T, IsFiniteSet(T), T # {}
  PROVE  T \subseteq Int => Max(T) \in T /\ \A x \in T : x <= Max(T)
<1> DEFINE Bad == {t \in SUBSET T : t # {} /\ ~ \E m \in t : \A x \in t : m >= x}
<1>1. T \subseteq Int => Bad = {}
  <2> SUFFICES ASSUME Bad # {} PROVE ~ T \subseteq Int
    OBVIOUS
  <2>1. PICK t \in Bad : \A u \in Bad : u \subseteq t => u = t
    <3> HIDE DEF Bad
    <3>1. Bad \subseteq SUBSET T
      BY DEF Bad
    <3> QED BY <3>1, SmallestSubset
  <2> SUFFICES ASSUME T \subseteq Int PROVE FALSE
    OBVIOUS
  <2>2. PICK x : x \in t
    OBVIOUS
  <2> DEFINE u == t \ {x}
  <2>3. CASE u = {}
    <3>1. t = {x} /\ x \in Int
      BY <2>2, <2>3
    <3>2. \A y \in t : x >= y
      BY <3>1
    <3> QED BY <2>2, <3>2
  <2>4. CASE u # {}
    <3>1. u \notin Bad /\ u \in SUBSET T
      BY <2>1, <2>2
    <3>2. PICK m \in u : \A y \in u : m >= y
      BY <2>4, <3>1
    <3>3. m \in Int /\ x \in Int /\ \A y \in u : y \in Int
      BY <2>2
    <3>4. CASE m >= x
      <4>1. \A y \in t : m >= y
        BY <3>2, <3>4
      <4> QED BY <3>2, <4>1
    <3>5. CASE x >= m
      <4>1. \A y \in t : x >= y
        BY <3>2, <3>3, <3>5
      <4> QED BY <2>2, <4>1
    <3> QED BY <3>3, <3>4, <3>5
  <2> QED BY <2>3, <2>4
<1> SUFFICES ASSUME T \subseteq Int PROVE Max(T) \in T /\ \A x \in T : x <= Max(T)
  OBVIOUS
<1>2. T \in SUBSET T
  OBVIOUS
<1>3. \E m \in T : \A x \in T : m >= x
  BY <1>1, <1>2
<1>4. Max(T) \in T /\ \A x \in T : Max(T) >= x
  BY <1>3 DEF Max
<1> QED BY <1>4

\* Where only one number gains, the total is not above it.
LEMMA OneGains ==
  ASSUME NEW g, IsFiniteSet(DOMAIN g), \A x \in DOMAIN g : g[x] \in Int,
         NEW most \in Nat, \A x \in DOMAIN g : g[x] <= most,
         NEW p, \A x \in DOMAIN g : x # p => g[x] <= 0
  PROVE  Total(g) \in Int /\ Total(g) <= most
<1> DEFINE D == DOMAIN g
<1>1. PICK F : IsSum(F, g, D) /\ Total(g) = F[D]
  BY TotalIs
<1> DEFINE bound(t) == IF p \in t THEN most ELSE 0
           Bad == {t \in SUBSET D : ~ (F[t] \in Int /\ F[t] <= bound(t))}
<1>2. Bad = {}
  <2> SUFFICES ASSUME Bad # {} PROVE FALSE
    OBVIOUS
  <2>1. PICK t \in Bad : \A u \in Bad : u \subseteq t => u = t
    <3> HIDE DEF Bad
    <3>1. Bad \subseteq SUBSET D
      BY DEF Bad
    <3> QED BY <3>1, SmallestSubset
  <2>2. CASE t = {}
    <3>1. F[t] = 0
      BY <1>1, <2>2 DEF IsSum
    <3> QED BY <2>2, <3>1
  <2>3. CASE t # {}
    <3> DEFINE x == First(t)
               u == t \ {x}
    <3>1. F[t] = g[x] + F[u] /\ x \in t /\ u \in SUBSET D /\ u # t
      BY <1>1, <2>3, SumStep
    <3>2. F[u] \in Int /\ F[u] <= bound(u)
      BY <2>1, <3>1
    <3>3. g[x] \in Int /\ g[x] <= most /\ (x # p => g[x] <= 0)
      BY <3>1
    <3> HIDE DEF x
    <3>4. CASE x = p
      <4>1. p \notin u /\ p \in t
        BY <3>1, <3>4
      <4>2. F[u] <= 0
        BY <3>2, <4>1
      <4> QED BY <3>1, <3>2, <3>3, <4>1, <4>2
    <3>5. CASE x # p
      <4>1. bound(u) = bound(t)
        BY <3>5
      <4>2. bound(t) \in Int
        OBVIOUS
      <4> HIDE DEF bound
      <4>3. F[t] \in Int /\ F[t] <= bound(t)
        BY <3>1, <3>2, <3>3, <3>5, <4>1, <4>2
      <4> QED BY <4>3 DEF bound
    <3> QED BY <3>4, <3>5
  <2> QED BY <2>2, <2>3
<1>3. F[D] \in Int /\ F[D] <= bound(D)
  BY <1>2
<1>4. bound(D) <= most
  OBVIOUS
<1>5. bound(D) \in Int
  OBVIOUS
<1> HIDE DEF bound
<1> QED BY <1>1, <1>3, <1>4, <1>5

\* A profit of which no fold earned more than half was earned in two folds.
LEMMA TwoFoldsEarn ==
  ASSUME NEW g, g \in [1 .. 12 -> Int], Total(g) > 0, 2 * Largest(g) <= Total(g)
  PROVE  Cardinality({n \in 1 .. 12 : g[n] > 0}) >= 2
<1> DEFINE won == {n \in 1 .. 12 : g[n] > 0}
           T == {0} \cup Range(g)
<1>1. IsFiniteSet(1 .. 12) /\ DOMAIN g = 1 .. 12 /\ \A n \in 1 .. 12 : g[n] \in Int
  <2>1. 1 \in Int /\ 12 \in Int
    OBVIOUS
  <2>2. IsFiniteSet(1 .. 12)
    BY <2>1, FS_Interval, Zenon
  <2> QED BY <2>2
<1>2. T \subseteq Int /\ IsFiniteSet(T) /\ \A n \in 1 .. 12 : g[n] \in T
  <2>1. Range(g) = {g[n] : n \in 1 .. 12}
    BY <1>1 DEF Range
  <2>2. IsFiniteSet({g[n] : n \in 1 .. 12})
    <3> DEFINE S == {g[n] : n \in 1 .. 12}
    <3>1. g \in Surjection(1 .. 12, S)
      BY DEF Surjection
    <3> HIDE DEF S
    <3> QED BY <1>1, <3>1, FS_Surjection DEF S
  <2>3. IsFiniteSet({0})
    BY FS_Singleton
  <2>4. IsFiniteSet(T)
    BY <2>1, <2>2, <2>3, FS_Union
  <2> QED BY <1>1, <2>1, <2>4
<1>3. /\ Largest(g) \in Nat /\ \A n \in 1 .. 12 : g[n] <= Largest(g)
  <2> HIDE DEF T
  <2>1. 0 \in T
    BY DEF T
  <2>2. Max(T) \in T /\ \A x \in T : x <= Max(T)
    BY <1>2, <2>1, LargestOne
  <2>3. Max(T) \in Nat
    <3>1. Max(T) \in Int /\ 0 <= Max(T)
      BY <1>2, <2>1, <2>2
    <3> QED BY <3>1
  <2>4. Largest(g) = Max(T)
    BY DEF Largest, T
  <2> QED BY <1>2, <2>2, <2>3, <2>4
<1>4. IsFiniteSet(won)
  BY <1>1, FS_Subset
<1>5. ASSUME NEW p, won \subseteq {p} PROVE FALSE
  <2>1. \A n \in 1 .. 12 : n # p => g[n] <= 0
    BY <1>1, <1>5
  <2>2. Total(g) \in Int /\ Total(g) <= Largest(g)
    BY <1>1, <1>3, <2>1, OneGains
  <2> QED BY <1>3, <2>2
<1> HIDE DEF won
<1>6. PICK m \in won : TRUE
  BY <1>5
<1>7. PICK n \in won : n # m
  BY <1>5
<1>8. {m, n} \subseteq won /\ Cardinality({m, n}) = 2 /\ IsFiniteSet({m, n})
  <2>1. IsFiniteSet({m}) /\ Cardinality({m}) = 1 /\ n \notin {m}
    BY <1>7, FS_Singleton
  <2>2. {m, n} = {m} \cup {n}
    OBVIOUS
  <2> QED BY <2>1, <2>2, FS_AddElement
<1>9. Cardinality({m, n}) <= Cardinality(won)
  BY <1>4, <1>8, FS_Subset
<1>10. Cardinality(won) \in Nat
  BY <1>4, FS_CardinalityType
<1>11. Cardinality(won) >= 2
  BY <1>8, <1>9, <1>10
<1> QED BY <1>11 DEF won

-----------------------------------------------------------------------------
(***************************************************************************)
(* From a qualified report back to the accounts.                           *)
(***************************************************************************)

\* Nothing that an account does in a fold is outside of what is evaluated.
LEMMA MovesInside ==
  ASSUME NEW h, History(h), NEW window, window.start \in Int, window.end \in Int, NEW boundaries,
         SafeIndices(window, LabelRows(h), boundaries) # {}
  PROVE  LET part == SafeIndices(window, LabelRows(h), boundaries)
         IN  /\ window.start <= Min(part) + 1 /\ Min(part) + 1 < EvaluationEnd(h, part)
             /\ window.start <= Max(part) /\ Max(part) < EvaluationEnd(h, part)
             /\ window.start <= Max(part) + 1 /\ Max(part) + 1 < EvaluationEnd(h, part)
<1> DEFINE part == SafeIndices(window, LabelRows(h), boundaries)
<1>1. LabelExitOffset \in Nat \ {0}
  BY SplitAssumption
<1>2. Count(h) \in Nat
  BY CountIs
<1>3. \A i \in part : /\ i \in Nat /\ window.start <= i
                      /\ i + 1 < Count(h) /\ i <= Count(h)
  <2> SUFFICES ASSUME NEW i \in part PROVE /\ i \in Nat /\ window.start <= i
                                           /\ i + 1 < Count(h) /\ i <= Count(h)
    OBVIOUS
  <2>1. /\ i \in Rows(h) /\ i + LabelExitOffset \in Rows(h) /\ window.start <= i
    BY DEF SafeIndices, Inside, LabelRows, FeatureRows, HasLabel
  <2>2. Rows(h) = 0 .. Count(h) - 1
    BY DEF History
  <2> QED BY <1>1, <1>2, <2>1, <2>2
<1>4. part \subseteq Nat /\ part # {}
  BY <1>3
<1> HIDE DEF part
<1>5. Min(part) \in part /\ \A i \in part : Min(part) <= i
  BY <1>4, MinIs
<1>6. Max(part) \in part
  <2>1. \A i \in part : i <= Count(h)
    BY <1>3
  <2> QED BY <1>2, <1>4, <2>1, MaxIs
<1> DEFINE ends == {Count(h), Max(part) + 2 + LatencyBars}
<1>7. EvaluationEnd(h, part) = Min(ends)
  BY DEF EvaluationEnd, LastDecision
<1>8. Max(part) \in Nat /\ Min(part) \in Nat /\ Min(part) <= Max(part)
      /\ window.start <= Min(part) /\ Max(part) + 1 < Count(h)
  BY <1>3, <1>5, <1>6
<1>9. Max(part) + 2 + LatencyBars = Max(part) + 2
  BY <1>8 DEF LatencyBars
<1>10. Min(ends) \in {Count(h), Max(part) + 2}
  <2>1. ends \subseteq Nat /\ ends # {}
    BY <1>2, <1>8, <1>9
  <2>2. Min(ends) \in ends
    BY <2>1, MinIs
  <2> QED BY <1>9, <2>2
<1> HIDE DEF ends
<1>11. Max(part) + 1 < EvaluationEnd(h, part) /\ EvaluationEnd(h, part) \in Nat
  BY <1>2, <1>7, <1>8, <1>10
<1>12. /\ window.start <= Min(part) + 1 /\ Min(part) + 1 < EvaluationEnd(h, part)
       /\ window.start <= Max(part) /\ Max(part) < EvaluationEnd(h, part)
       /\ window.start <= Max(part) + 1 /\ Max(part) + 1 < EvaluationEnd(h, part)
  BY <1>8, <1>11
<1> QED BY <1>12 DEF part

LEMMA AllIsEvaluated ==
  ASSUME NEW h, History(h), NEW fold, NEW account, NEW boundaries,
         fold.window.start \in Int, fold.window.end \in Int,
         fold.test = SafeIndices(fold.window, LabelRows(h), boundaries), fold.test # {}
  PROVE  OosReturns(fold, account, ExecutedEnd(h, fold.test)) =
           << account.open, account.middle, account.close >>
<1> DEFINE moves == Moves(fold, account)
           end == ExecutedEnd(h, fold.test)
<1>1. end = EvaluationEnd(h, fold.test)
  BY DEF ExecutedEnd
<1>2. /\ fold.window.start <= Min(fold.test) + 1 /\ Min(fold.test) + 1 < end
      /\ fold.window.start <= Max(fold.test) /\ Max(fold.test) < end
      /\ fold.window.start <= Max(fold.test) + 1 /\ Max(fold.test) + 1 < end
  BY <1>1, MovesInside
<1>3. /\ DOMAIN moves = 1 .. 3
      /\ moves[1] = [at |-> Min(fold.test) + 1, r |-> account.open]
      /\ moves[2] = [at |-> Max(fold.test), r |-> account.middle]
      /\ moves[3] = [at |-> Max(fold.test) + 1, r |-> account.close]
  BY DEF Moves, LastDecision
<1> HIDE DEF moves, end
<1>4. \A n \in 1 .. 3 : fold.window.start <= moves[n].at /\ moves[n].at < end
  BY <1>2, <1>3
<1>5. OosReturns(fold, account, end) = [n \in 1 .. 3 |-> moves[n].r]
  <2>1. OosReturns(fold, account, end) =
          [n \in 1 .. 3 |-> IF fold.window.start <= moves[n].at /\ moves[n].at < end
                              THEN moves[n].r ELSE 0]
    BY <1>3 DEF OosReturns, moves
  <2> QED BY <1>4, <2>1
<1>6. [n \in 1 .. 3 |-> moves[n].r] = << account.open, account.middle, account.close >>
  <2>1. moves[1].r = account.open /\ moves[2].r = account.middle /\ moves[3].r = account.close
    BY <1>3
  <2> QED BY <2>1
<1> QED BY <1>5, <1>6 DEF end

\* The windows of a plan's folds are never empty, and their ends are rows.
LEMMA TestWindowIs ==
  ASSUME NEW h, History(h), NEW version,
         DevelopmentPlan(h, LabelRows(h), version).status = "plan", NEW n \in 1 .. 12
  PROVE  LET plan == DevelopmentPlan(h, LabelRows(h), version)
             fold == plan.folds[n]
         IN  /\ fold.window.start \in Int /\ fold.window.end \in Int
             /\ fold.test = SafeIndices(fold.window, LabelRows(h), plan.boundaries)
             /\ fold.test # {}
<1> DEFINE raw == RawFolds(h, LockedV01, EndExclusive(h))
           eligible == LabelRows(h)
           boundaries == h.boundaries \cup FoldBoundaries(raw)
           plan == DevelopmentPlan(h, eligible, version)
           windows == FoldWindows(raw[n], Min(eligible))
<1>1. /\ eligible # {} /\ Len(raw) = 12 /\ FoldProblem(raw, eligible, boundaries) = "plan"
      /\ plan = [status |-> "plan", folds |-> FoldsOfPlan(raw, eligible, boundaries),
                 boundaries |-> boundaries]
  BY DevelopmentPlanIs
<1>2. raw \in Seq(RawType) /\ DOMAIN raw = 1 .. Len(raw)
  <2>1. EndExclusive(h) \in Int
    BY CountIs
  <2> QED BY <2>1, RawFoldsAre, PolicyIs
<1> HIDE DEF plan, raw, boundaries
<1>3. n \in DOMAIN raw /\ DOMAIN raw \subseteq Nat /\ raw[n] \in RawType
  <2>1. Len(raw) = 12
    BY <1>1
  <2>2. DOMAIN raw = 1 .. 12
    BY <1>2, <2>1
  <2>3. \A i \in 1 .. Len(raw) : raw[i] \in RawType
    BY <1>2
  <2> HIDE DEF RawType
  <2>4. raw[n] \in RawType
    BY <2>1, <2>3
  <2> QED BY <2>2, <2>4
<1>4. SafeIndices(windows.test, eligible, boundaries) # {}
  BY <1>1, <1>3, NoProblem
<1>5. plan.folds[n] = Fold(raw[n], eligible, boundaries) /\ plan.boundaries = boundaries
  BY <1>1, <1>3 DEF FoldsOfPlan
<1> DEFINE fold == plan.folds[n]
<1>6. /\ fold.test = SafeIndices(windows.test, eligible, boundaries)
      /\ fold.window = windows.test
      /\ windows.test.start = raw[n].test + Embargo
      /\ windows.test.end = raw[n].end - Purge
  BY <1>5, FoldIs
<1>7. raw[n].test \in Nat /\ raw[n].end \in Nat /\ Embargo \in Nat /\ Purge \in Nat
  BY <1>3, SplitAssumption DEF RawType
<1> HIDE DEF windows, eligible, fold
<1>8. /\ fold.window.start \in Int /\ fold.window.end \in Int
      /\ fold.test = SafeIndices(fold.window, eligible, plan.boundaries)
      /\ fold.test # {}
  BY <1>4, <1>5, <1>6, <1>7
<1> QED BY <1>8 DEF fold, plan, eligible

\* What the evidence says an experiment gained is what its account gained.
LEMMA NetIsGain ==
  ASSUME NEW c, NEW h, h = Histories[c.history], History(h), NEW version,
         NEW plan, plan = DevelopmentPlan(h, LabelRows(h), version), plan.status = "plan",
         NEW id \in DOMAIN c.accounts
  PROVE  PathsOf(c, plan.folds, ExecutedEnds(h, plan))[id].net = Gain(c, id)
<1> DEFINE ends == ExecutedEnds(h, plan)
           pieces == [n \in DOMAIN plan.folds |->
                        OosReturns(plan.folds[n], c.accounts[id][n], ends[n])]
           moves == [n \in 1 .. 12 |-> << c.accounts[id][n].open, c.accounts[id][n].middle,
                                          c.accounts[id][n].close >>]
<1>1. DOMAIN plan.folds = 1 .. 12
  BY TwelveFolds
<1>2. \A n \in 1 .. 12 : ends[n] = ExecutedEnd(h, plan.folds[n].test)
  BY <1>1, TabulatedIs DEF ExecutedEnds
<1>3. ASSUME NEW n \in 1 .. 12
      PROVE  OosReturns(plan.folds[n], c.accounts[id][n], ends[n]) =
               << c.accounts[id][n].open, c.accounts[id][n].middle, c.accounts[id][n].close >>
  <2> DEFINE fold == plan.folds[n]
  <2>1. /\ fold.window.start \in Int /\ fold.window.end \in Int
        /\ fold.test = SafeIndices(fold.window, LabelRows(h), plan.boundaries)
        /\ fold.test # {}
    BY TestWindowIs
  <2>2. ends[n] = ExecutedEnd(h, fold.test)
    BY <1>2
  <2> HIDE DEF fold, ends
  <2>3. \A account : OosReturns(fold, account, ExecutedEnd(h, fold.test)) =
                       << account.open, account.middle, account.close >>
    <3> DEFINE boundaries == plan.boundaries
    <3>1. fold.test = SafeIndices(fold.window, LabelRows(h), boundaries)
      BY <2>1
    <3> HIDE DEF boundaries
    <3> QED BY <2>1, <3>1, AllIsEvaluated
  <2> QED BY <2>2, <2>3 DEF fold
<1> HIDE DEF ends
<1>4. pieces = moves
  BY <1>1, <1>3
<1>5. PathsOf(c, plan.folds, ends)[id] = PathMetrics(FlattenSeq(pieces))
  BY TabulatedIs DEF PathsOf, PathOf
<1> HIDE DEF pieces, moves
<1>6. PathMetrics(FlattenSeq(moves)).net = NetReturn(Equities(FlattenSeq(moves)))
  BY DEF PathMetrics, MetricsOf
<1> QED BY <1>4, <1>5, <1>6 DEF Gain, moves, ends

\* What passing every gate takes.
LEMMA QualifiedPasses ==
  ASSUME NEW e, e.version \in {"v02", "v03"}, Qualify(e) = "QUALIFIED"
  PROVE  /\ Boolean(e.shuffled) # "fail"
         /\ ~ Spoils(Development(e.folds, Len(e.folds) = 12))
         /\ ~ Spoils(CostGates(e.primaryNet, e.half, e.double))
BY CommonSpoils, SpoilsV02, SpoilsV03, SpoiledIsNotBest DEF Qualify

LEMMA DevelopmentPasses ==
  ASSUME NEW folds, NEW enough, ~ Spoils(Development(folds, enough))
  PROVE  LET profits == [n \in DOMAIN folds |-> folds[n].profit]
         IN  /\ Total(profits) > 0 /\ 2 * Largest(profits) <= Total(profits)
             /\ Total([n \in DOMAIN folds |-> folds[n].trades]) >= 60
<1> DEFINE profits == [n \in DOMAIN folds |-> folds[n].profit]
           trades == [n \in DOMAIN folds |-> folds[n].trades]
           gates == Development(folds, enough)
<1>1. "concentration" \in DOMAIN gates /\ "tradeCount" \in DOMAIN gates
  BY PartDomains DEF DevelopmentNames
<1>2. /\ gates["concentration"] = Judge(Total(profits) > 0 /\ 2 * Largest(profits) <= Total(profits))
      /\ gates["tradeCount"] = Judge(Total(trades) >= 60)
  BY DEF Development
<1> HIDE DEF gates, profits, trades
<1>3. gates["concentration"] # "fail" /\ gates["tradeCount"] # "fail"
  BY <1>1 DEF Spoils, gates
<1>4. /\ Total(profits) > 0 /\ 2 * Largest(profits) <= Total(profits)
      /\ Total(trades) >= 60
  BY <1>2, <1>3 DEF Judge
<1> QED BY <1>4 DEF profits, trades

LEMMA CostsPass ==
  ASSUME NEW net, NEW half, NEW double, ~ Spoils(CostGates({net}, {half}, {double}))
  PROVE  half.net > 0 /\ net >= half.net
<1> DEFINE gates == CostGates({net}, {half}, {double})
<1>1. "halfReturn" \in DOMAIN gates /\ "monotonicity" \in DOMAIN gates
  BY PartDomains DEF CostNames
<1>2. /\ gates["halfReturn"] = Judge(half.net > 0)
      /\ gates["monotonicity"] = Judge(net >= half.net /\ half.net >= double.net)
  <2>1. ~ Missing({net}) /\ ~ Missing({half}) /\ ~ Missing({double})
    BY DEF Missing
  <2>2. /\ gates["halfReturn"] = Judge(The({half}).net > 0)
        /\ gates["monotonicity"] = Judge(/\ The({net}) >= The({half}).net
                                         /\ The({half}).net >= The({double}).net)
    BY <2>1 DEF CostGates
  <2>3. The({net}) = net /\ The({half}) = half /\ The({double}) = double
    BY TheOne
  <2> QED BY <2>2, <2>3
<1> HIDE DEF gates
<1>3. gates["halfReturn"] # "fail" /\ gates["monotonicity"] # "fail"
  BY <1>1 DEF Spoils, gates
<1> QED BY <1>2, <1>3 DEF Judge

LEMMA QualifiedIsEarned ==
  ASSUME NEW name \in DOMAIN Cases, NEW run \in Runs[name], run.classification = "QUALIFIED"
  PROVE  Earned(Cases[name])
<1> DEFINE c == Cases[name]
           h == Histories[c.history]
           plan == Plans[c.history][c.version]
           ends == ExecutedEnds(h, plan)
           path == PathsOf(c, plan.folds, ends)
           folds == FoldEvaluations(c, plan)
           selectivity == ExecutedSelectivity(Thresholds(c))
           e == EvidenceOf(c, path, folds, selectivity)
<1>1. /\ c.version \in {"v02", "v03"} /\ c.history \in DOMAIN Histories /\ run \in Execute(c)
  BY RunsAre, CaseAssumption DEF RunOf
<1>2. /\ run.classification = Qualify(e) /\ plan.status = "plan"
      /\ \A n \in DOMAIN plan.folds : Fits(c, n)
  <2>1. /\ run = ExecutedOn(c, plan, Thresholds(c)) /\ plan.status = "plan"
        /\ \A n \in DOMAIN plan.folds : Fits(c, n)
    BY <1>1 DEF Execute, ExecuteOn, Refuses
  <2> HIDE DEF plan, h
  <2>2. run.classification = Qualify(QualificationEvidence(c, plan, selectivity, ends))
    BY <2>1 DEF ExecutedOn, Report, h
  <2> QED BY <2>1, <2>2 DEF QualificationEvidence
<1>3. History(h)
  BY <1>1, HistoriesAre
<1>4. plan = DevelopmentPlan(h, LabelRows(h), c.version)
  <2> DEFINE p == Plans[c.history]
  <2>1. /\ p["v02"] = DevelopmentPlan(h, LabelRows(h), "v02")
        /\ p["v03"] = DevelopmentPlan(h, LabelRows(h), "v03")
    BY <1>1, PlansAre
  <2> HIDE DEF p
  <2>2. p[c.version] = DevelopmentPlan(h, LabelRows(h), c.version)
    BY <1>1, <2>1
  <2> QED BY <2>2 DEF p
<1>5. /\ {"primary", "cost_1_5x", "shuffled"} \subseteq DOMAIN c.accounts
      /\ c.accounts["primary"] \in [0 .. 12 -> AccountType]
  BY CaseAssumption
<1>6. h = Histories[c.history]
  OBVIOUS
<1> HIDE DEF h, plan, c
<1>7. DOMAIN plan.folds = 1 .. 12
  BY <1>2, <1>3, <1>4, TwelveFolds
<1>8. /\ path["primary"].net = Gain(c, "primary")
      /\ path["cost_1_5x"].net = Gain(c, "cost_1_5x")
      /\ path["shuffled"].net = Gain(c, "shuffled")
  <2>1. \A id \in DOMAIN c.accounts : path[id].net = Gain(c, id)
    BY <1>2, <1>3, <1>4, <1>6, NetIsGain
  <2> QED BY <1>5, <2>1
<1>9. folds = [n \in 1 .. 12 |-> FoldEvaluation(c, plan.folds[n], n)]
  BY <1>7, TabulatedIs DEF FoldEvaluations
<1>10. \A n \in 1 .. 12 : /\ folds[n].profit = c.accounts["primary"][n].profit
                          /\ folds[n].trades = c.accounts["primary"][n].trades
  <2>1. \A n \in 1 .. 12 : folds[n] = FoldEvaluation(c, plan.folds[n], n)
    BY <1>9
  <2>2. \A account, metrics : /\ FoldResult(account, metrics).profit = account.profit
                              /\ FoldResult(account, metrics).trades = account.trades
    BY DEF FoldResult
  <2>3. \A n : /\ FoldEvaluation(c, plan.folds[n], n).profit = c.accounts["primary"][n].profit
               /\ FoldEvaluation(c, plan.folds[n], n).trades = c.accounts["primary"][n].trades
    BY <2>2 DEF FoldEvaluation
  <2> QED BY <2>1, <2>3
<1>11. DOMAIN folds = 1 .. 12
  BY <1>9
<1> HIDE DEF folds, ends, path, selectivity
<1>12. /\ e.version = c.version /\ e.folds = folds
       /\ e.primaryNet = {path["primary"].net} /\ e.half = {Net(path["cost_1_5x"])}
       /\ e.double = {Net(path["cost_2x"])} /\ e.shuffled = {~ ShuffledPasses(path)}
  BY DEF EvidenceOf
<1> HIDE DEF e
<1>13. /\ Boolean(e.shuffled) # "fail"
       /\ ~ Spoils(Development(folds, Len(folds) = 12))
       /\ ~ Spoils(CostGates(e.primaryNet, e.half, e.double))
  <2>1. e.version \in {"v02", "v03"} /\ Qualify(e) = "QUALIFIED"
    BY <1>1, <1>2, <1>12
  <2>2. /\ Boolean(e.shuffled) # "fail"
        /\ ~ Spoils(Development(e.folds, Len(e.folds) = 12))
        /\ ~ Spoils(CostGates(e.primaryNet, e.half, e.double))
    BY <2>1, QualifiedPasses
  <2> QED BY <1>12, <2>2
<1>14. Gain(c, "cost_1_5x") > 0 /\ Gain(c, "primary") >= Gain(c, "cost_1_5x")
  <2>1. Net(path["cost_1_5x"]).net = path["cost_1_5x"].net
    BY DEF Net
  <2> DEFINE net == path["primary"].net
             half == Net(path["cost_1_5x"])
             double == Net(path["cost_2x"])
  <2>2. ~ Spoils(CostGates({net}, {half}, {double}))
    BY <1>12, <1>13
  <2> HIDE DEF half, double
  <2>3. half.net > 0 /\ net >= half.net
    BY <2>2, CostsPass
  <2> QED BY <1>8, <2>1, <2>3 DEF half
<1>15. ~ Gain(c, "shuffled") > 0
  <2>1. ~ ShuffledPasses(path)
    BY <1>12, <1>13, TheOne DEF Boolean, Missing, Judge
  <2> QED BY <1>8, <2>1 DEF ShuffledPasses, ShuffledLooksGood
<1> DEFINE profits == [n \in 1 .. 12 |-> c.accounts["primary"][n].profit]
           trades == [n \in 1 .. 12 |-> c.accounts["primary"][n].trades]
<1>16. /\ Total(profits) > 0 /\ 2 * Largest(profits) <= Total(profits) /\ Total(trades) >= 60
  <2>1. [n \in DOMAIN folds |-> folds[n].profit] = profits
    BY <1>10, <1>11
  <2>2. [n \in DOMAIN folds |-> folds[n].trades] = trades
    BY <1>10, <1>11
  <2> HIDE DEF profits, trades
  <2> QED BY <1>13, <2>1, <2>2, DevelopmentPasses
<1>17. profits \in [1 .. 12 -> Int]
  <2>1. \A n \in 1 .. 12 : c.accounts["primary"][n] \in AccountType
    BY <1>5
  <2> QED BY <2>1 DEF AccountType
<1>18. Cardinality({n \in 1 .. 12 : c.accounts["primary"][n].profit > 0}) >= 2
  <2>1. {n \in 1 .. 12 : c.accounts["primary"][n].profit > 0} = {n \in 1 .. 12 : profits[n] > 0}
    OBVIOUS
  <2> HIDE DEF profits
  <2> QED BY <1>16, <1>17, <2>1, TwoFoldsEarn
<1>19. \A n \in 1 .. 12 : c.fits[n].same
  BY <1>1, <1>2, <1>7 DEF Fits
<1>20. Earned(c)
  BY <1>14, <1>15, <1>16, <1>18, <1>19 DEF Earned
<1> QED BY <1>20 DEF c

(* Every published seal names a complete bundle of the dataset that was    *)
(* handed over at its commit, opens its window after the verification and  *)
(* after the development data, and stands for a study that made money also *)
(* under stressed costs, in more than one fold and on true labels only     *)
(* (qualification_v0_3.py:527, prospective_seal_v0_3.py:171,               *)
(* cli/candidate_v0_3.py:237).                                             *)
THEOREM EverySealIsEarned == Spec => []SealsAreEarned
<1>1. QInv => SealsAreEarned
  <2> SUFFICES ASSUME QInv, NEW seal \in seals
               PROVE  /\ Readable(seal.id)
                      /\ <<seal.id.commit, "experiments">> \in published
                      /\ handoff # None
                      /\ seal.id.commit = handoff.commit
                      /\ seal.id.dataset = handoff.job
                      /\ seal.id.inventory = handoff.inventory
                      /\ Cutoff <= seal.at /\ seal.at < seal.start
                      /\ seal.start <= seal.at + MonthTicks
                      /\ EarnedBy[case]
    BY DEF SealsAreEarned
  <2>1. Timely(seal) /\ Complete(seal.id) /\ Classification = {"QUALIFIED"}
    BY DEF QInv, SealsKnown, Sealable
  <2>2. case \in DOMAIN Cases
    BY DEF QInv, Typed
  <2>3. PICK run \in Runs[case] : run.classification = "QUALIFIED"
    BY <2>1 DEF Classification
  <2>4. EarnedBy[case]
    BY <2>2, <2>3, RunsAre, QualifiedIsEarned
  <2> QED BY <2>1, <2>4 DEF Timely, Complete, Named
<1> QED BY <1>1, CommandsHold, PTL
============================================================================
