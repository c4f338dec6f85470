---------------------------- MODULE ArtifactSet ----------------------------
(***************************************************************************)
(* The directory of one experiment: LocalResearchStore (research/          *)
(* artifacts.py), which publishes the files of an artifact one after the   *)
(* other, and ResearchVerificationService (research/verification.py),      *)
(* which reads them back.  The stores of studies and of pre-final evidence *)
(* write their sets in the same way.  Each file appears whole at once      *)
(* (module ImmutableStore); the set does not, and its manifest is neither  *)
(* the first nor the last file.                                            *)
(***************************************************************************)
EXTENDS Naturals

CONSTANTS
  Writers, Readers,  \* processes
  N,                 \* files of an artifact, numbered in the order of their names
  Manifest,          \* the number of result-manifest.json
  Artifacts,         \* what a run may produce: the content of each file
  Absent

Files == 1 .. N
Contents == UNION {{a[f] : f \in Files} : a \in Artifacts}

ASSUME FilesAssumption == N \in Nat \ {0} /\ Manifest \in 1 .. N
ASSUME ArtifactsAssumption ==
  /\ \A a \in Artifacts : DOMAIN a = 1 .. N
  /\ \A a \in Artifacts, f \in 1 .. N : a[f] # Absent
\* A result manifest holds the hashes of all the other files.
ASSUME ManifestAssumption ==
  \A a, b \in Artifacts : a[Manifest] = b[Manifest] => a = b

VARIABLES
  stored,  \* stored[f]: the published content of file f
  writer,  \* writer[w]: [state, artifact, next], the write that w runs or ran
  reader   \* reader[r]: [state, artifact, next], the verification of r

vars == <<stored, writer, reader>>

Idle == [state |-> "idle", artifact |-> Absent, next |-> 1]

Init ==
  /\ stored = [f \in Files |-> Absent]
  /\ writer = [w \in Writers |-> Idle]
  /\ reader = [r \in Readers |-> Idle]

-----------------------------------------------------------------------------
(* LocalResearchStore.write *)

\* A run, or a repeated run, at the same experiment identity.
Begin(w) ==
  /\ writer[w].state # "writing"
  /\ \E a \in Artifacts :
       writer' = [writer EXCEPT ![w] = [state |-> "writing", artifact |-> a, next |-> 1]]
  /\ UNCHANGED <<stored, reader>>

\* Mutant of FileAt: the order in which files are written depends on the run.
FileAtUnsorted(artifact, k) ==
  IF artifact = CHOOSE a \in Artifacts : TRUE THEN k ELSE N + 1 - k

\* files is sorted by name, whatever the artifact.
FileAt(artifact, k) == k

Ends(w, outcome) == writer' = [writer EXCEPT ![w].state = outcome]

Continues(w) ==
  IF writer[w].next = N
    THEN Ends(w, "written")
    ELSE writer' = [writer EXCEPT ![w].next = @ + 1]

\* Mutants of Publish: a conflicting file does not end the write; a file that
\* exists is a conflict whatever it holds.
PublishContinues(w) ==
  /\ writer[w].state = "writing"
  /\ LET f == FileAt(writer[w].artifact, writer[w].next) IN
       stored' = [stored EXCEPT ![f] = IF @ = Absent THEN writer[w].artifact[f] ELSE @]
  /\ Continues(w)
  /\ UNCHANGED reader

PublishExclusively(w) ==
  /\ writer[w].state = "writing"
  /\ LET f == FileAt(writer[w].artifact, writer[w].next) IN
       IF stored[f] = Absent
         THEN stored' = [stored EXCEPT ![f] = writer[w].artifact[f]] /\ Continues(w)
         ELSE Ends(w, "conflict") /\ UNCHANGED stored
  /\ UNCHANGED reader

\* write_immutable of the next file.
Publish(w) ==
  /\ writer[w].state = "writing"
  /\ LET f == FileAt(writer[w].artifact, writer[w].next)
         content == writer[w].artifact[f]
     IN IF stored[f] \in {Absent, content}
          THEN stored' = [stored EXCEPT ![f] = content] /\ Continues(w)
          ELSE Ends(w, "conflict") /\ UNCHANGED stored
  /\ UNCHANGED reader

\* The process is killed, or a system call fails.
Interrupt(w) ==
  /\ writer[w].state = "writing"
  /\ Ends(w, "interrupted")
  /\ UNCHANGED <<stored, reader>>

-----------------------------------------------------------------------------
(* ResearchVerificationService.verify: the manifest, then the files it lists. *)

ReadManifest(r) ==
  /\ reader[r].state = "idle"
  /\ IF stored[Manifest] = Absent
       THEN reader' = [reader EXCEPT ![r].state = "refused"]
       ELSE \E a \in Artifacts :
              /\ a[Manifest] = stored[Manifest]
              /\ reader' = [reader EXCEPT ![r] = [state |-> "reading", artifact |-> a, next |-> 1]]
  /\ UNCHANGED <<stored, writer>>

\* Mutant of ReadFile: a file that is missing is passed over.
ReadIfPresent(r) ==
  /\ reader[r].state = "reading"
  /\ LET f == reader[r].next IN
       IF stored[f] \notin {Absent, reader[r].artifact[f]}
       THEN reader' = [reader EXCEPT ![r].state = "refused"]
       ELSE IF f = N THEN reader' = [reader EXCEPT ![r].state = "verified"]
       ELSE reader' = [reader EXCEPT ![r].next = f + 1]
  /\ UNCHANGED <<stored, writer>>

ReadFile(r) ==
  /\ reader[r].state = "reading"
  /\ LET f == reader[r].next IN
       IF stored[f] # reader[r].artifact[f]
       THEN reader' = [reader EXCEPT ![r].state = "refused"]
       ELSE IF f = N THEN reader' = [reader EXCEPT ![r].state = "verified"]
       ELSE reader' = [reader EXCEPT ![r].next = f + 1]
  /\ UNCHANGED <<stored, writer>>

Next ==
  \/ \E w \in Writers : Begin(w) \/ Publish(w) \/ Interrupt(w)
  \/ \E r \in Readers : ReadManifest(r) \/ ReadFile(r)
Spec == Init /\ [][Next]_vars

\* A process that is not interrupted goes on to its next file.
FairSpec == Spec /\ \A w \in Writers : WF_vars(Publish(w))

-----------------------------------------------------------------------------
\* An activation that goes on has a file to go on with.
Going(state) == [state : {state}, artifact : Artifacts, next : Files]
Stopped(states) == [state : states, artifact : Artifacts, next : 1 .. (N + 1)]
Refused == [Idle EXCEPT !.state = "refused"]

TypeOK ==
  /\ stored \in [Files -> Contents \cup {Absent}]
  /\ writer \in [Writers -> {Idle} \cup Going("writing") \cup
                   Stopped({"written", "conflict", "interrupted"})]
  /\ reader \in [Readers -> {Idle, Refused} \cup Going("reading") \cup
                   Stopped({"verified", "refused"})]

Holds(a) == \A f \in Files : stored[f] = a[f]

(* Runs that produce different artifacts for one experiment may race and   *)
(* be interrupted: the directory never mixes files of two artifacts.       *)
NoMixture ==
  Artifacts # {} =>
    \E a \in Artifacts : \A f \in Files : stored[f] \in {Absent, a[f]}

(* "Publish every artifact once" (artifacts.py:318): what was written is   *)
(* there as a whole, and no later write changes it.                        *)
WrittenWhole == \A w \in Writers : writer[w].state = "written" => Holds(writer[w].artifact)

(* "Accept only byte-identical reruns" (artifacts.py:318): a write that    *)
(* was interrupted anywhere can be repeated; a conflict always means that  *)
(* the directory is another artifact's.                                    *)
ConflictIsReal ==
  \A w \in Writers : writer[w].state = "conflict" =>
    \E f \in Files : stored[f] \notin {Absent, writer[w].artifact[f]}

(* A verification that reads file by file while others write, and may find *)
(* the manifest before the files after it, accepts only a whole artifact.  *)
VerifiedWhole == \A r \in Readers : reader[r].state = "verified" => Holds(reader[r].artifact)

(* Writers of different artifacts never make each other fail: if nobody    *)
(* is ever interrupted, the directory gets a whole artifact.               *)
RaceIsWon ==
  [](\A w \in Writers : writer[w].state # "interrupted") =>
    ((\E w \in Writers : writer[w].state = "writing") ~> (\E a \in Artifacts : Holds(a)))
=============================================================================
