------------------------- MODULE ArtifactSetProofs -------------------------
(***************************************************************************)
(* ArtifactSet for any number of processes, files and artifacts.  The      *)
(* files that exist are a prefix in the order of names, so a writer that   *)
(* finds the next name free has published every file there is itself.      *)
(***************************************************************************)
EXTENDS ArtifactSet, TLAPS

(* Files are published in the order of their names.                        *)
PrefixClosed ==
  \A f, g \in Files : g < f /\ stored[f] # Absent => stored[g] # Absent

(* What a writer has published, or a reader has compared, is stored.       *)
Behind(a, next) == \A f \in Files : f < next => stored[f] = a[f]
WritersBehind ==
  \A w \in Writers : writer[w].state = "writing" => Behind(writer[w].artifact, writer[w].next)
ReadersBehind ==
  \A r \in Readers : reader[r].state = "reading" => Behind(reader[r].artifact, reader[r].next)

IInv ==
  /\ TypeOK /\ PrefixClosed /\ WritersBehind /\ ReadersBehind
  /\ NoMixture /\ WrittenWhole /\ ConflictIsReal /\ VerifiedWhole

-----------------------------------------------------------------------------
LEMMA ContentNotAbsent ==
  ASSUME NEW a \in Artifacts, NEW f \in Files
  PROVE  a[f] # Absent /\ a[f] \in Contents
  BY ArtifactsAssumption DEF Files, Contents

LEMMA InitInv == Init => IInv
<1> SUFFICES ASSUME Init PROVE IInv
  OBVIOUS
<1>1. TypeOK
  BY DEF Init, TypeOK
<1>2. \A w \in Writers : writer[w].state = "idle"
  BY DEF Init, Idle
<1>3. \A r \in Readers : reader[r].state = "idle"
  BY DEF Init, Idle
<1>4. PrefixClosed /\ WritersBehind /\ ReadersBehind
  BY <1>2, <1>3 DEF Init, PrefixClosed, WritersBehind, ReadersBehind
<1>5. NoMixture
  BY DEF Init, NoMixture
<1>6. WrittenWhole /\ ConflictIsReal /\ VerifiedWhole
  BY <1>2, <1>3 DEF WrittenWhole, ConflictIsReal, VerifiedWhole
<1> QED BY <1>1, <1>4, <1>5, <1>6 DEF IInv

(* Files are only added.                                                   *)
Grows == \A f \in Files : stored[f] # Absent => stored'[f] = stored[f]

LEMMA GrowthKeeps ==
  ASSUME Grows, NEW a \in Artifacts, NEW f \in Files, stored[f] = a[f]
  PROVE  stored'[f] = a[f]
  BY ContentNotAbsent DEF Grows

(* The artifact and the position of an activation that is not idle.        *)
LEMMA WriterTyped ==
  ASSUME TypeOK, NEW w \in Writers, writer[w].state # "idle"
  PROVE  writer[w].artifact \in Artifacts /\ (writer[w].state = "writing" => writer[w].next \in Files)
<1>1. writer[w] \in {Idle} \cup Going("writing") \cup Stopped({"written", "conflict", "interrupted"})
  BY DEF TypeOK
<1> QED BY <1>1 DEF Idle, Going, Stopped

LEMMA ReaderTyped ==
  ASSUME TypeOK, NEW r \in Readers, reader[r].state \in {"reading", "verified"}
  PROVE  reader[r].artifact \in Artifacts /\ (reader[r].state = "reading" => reader[r].next \in Files)
<1>1. reader[r] \in {Idle, Refused} \cup Going("reading") \cup Stopped({"verified", "refused"})
  BY DEF TypeOK
<1> QED BY <1>1 DEF Idle, Refused, Going, Stopped

(* What holds of an activation that does not move, while files are added.  *)
LEMMA OtherWriter ==
  ASSUME IInv, Grows, NEW w \in Writers, writer'[w] = writer[w]
  PROVE  /\ (writer[w].state = "writing" => Behind(writer[w].artifact, writer[w].next))'
         /\ (writer[w].state = "written" => Holds(writer[w].artifact))'
         /\ (writer[w].state = "conflict" =>
               \E f \in Files : stored[f] \notin {Absent, writer[w].artifact[f]})'
<1> USE DEF IInv
<1>1. CASE writer[w].state = "writing"
  BY <1>1, WriterTyped, GrowthKeeps DEF WritersBehind, Behind
<1>2. CASE writer[w].state = "written"
  BY <1>2, WriterTyped, GrowthKeeps DEF WrittenWhole, Holds
<1>3. CASE writer[w].state = "conflict"
  BY <1>3 DEF ConflictIsReal, Grows
<1> QED BY <1>1, <1>2, <1>3

LEMMA OtherReader ==
  ASSUME IInv, Grows, NEW r \in Readers, reader'[r] = reader[r]
  PROVE  /\ (reader[r].state = "reading" => Behind(reader[r].artifact, reader[r].next))'
         /\ (reader[r].state = "verified" => Holds(reader[r].artifact))'
<1> USE DEF IInv
<1>1. CASE reader[r].state = "reading"
  BY <1>1, ReaderTyped, GrowthKeeps DEF ReadersBehind, Behind
<1>2. CASE reader[r].state = "verified"
  BY <1>2, ReaderTyped, GrowthKeeps DEF VerifiedWhole, Holds
<1> QED BY <1>1, <1>2

-----------------------------------------------------------------------------
(* One step of a writer: the file it is at is added, or nothing is.        *)
LEMMA PublishInv ==
  ASSUME IInv, NEW w \in Writers, Publish(w)
  PROVE  IInv'
<1> USE DEF IInv
<1> DEFINE a == writer[w].artifact
           n == writer[w].next
<1>1. /\ writer[w].state = "writing" /\ a \in Artifacts /\ n \in Files
      /\ reader' = reader
  BY WriterTyped DEF Publish
<1>2. /\ writer[w] \in Going("writing")
      /\ writer \in [Writers -> {Idle} \cup Going("writing") \cup
                    Stopped({"written", "conflict", "interrupted"})]
      /\ stored \in [Files -> Contents \cup {Absent}]
  <2>1. writer[w] \in {Idle} \cup Going("writing") \cup Stopped({"written", "conflict", "interrupted"})
    BY DEF TypeOK
  <2> QED BY <1>1, <2>1 DEF TypeOK, Idle, Stopped
<1>3. CASE stored[n] \in {Absent, a[n]}
  <2>1. stored' = [stored EXCEPT ![n] = a[n]] /\ Continues(w)
    BY <1>3 DEF Publish, FileAt
  <2>2. a[n] # Absent /\ a[n] \in Contents
    BY <1>1, ContentNotAbsent
  <2>3. /\ stored' \in [Files -> Contents \cup {Absent}]
        /\ \A f \in Files : stored'[f] = IF f = n THEN a[n] ELSE stored[f]
    BY <1>1, <1>2, <2>1, <2>2
  <2>4. Grows
    BY <1>3, <2>3 DEF Grows
  <2>5. \A f \in Files : f <= n => stored'[f] = a[f]
    <3>1. \A f \in Files : f < n => stored[f] = a[f]
      BY <1>1 DEF WritersBehind, Behind
    <3>2. n \in Nat /\ \A f \in Files : f \in Nat
      BY <1>1, FilesAssumption DEF Files
    <3> QED BY <2>3, <3>1, <3>2
  <2>6. PrefixClosed'
    <3> SUFFICES ASSUME NEW f \in Files, NEW g \in Files, g < f, stored'[f] # Absent
                 PROVE  stored'[g] # Absent
      BY DEF PrefixClosed
    <3>1. CASE f = n
      <4>1. g <= n
        BY <1>1, <3>1, FilesAssumption DEF Files
      <4> QED BY <1>1, <2>5, <4>1, ContentNotAbsent
    <3>2. CASE f # n
      BY <2>2, <2>3, <3>2 DEF PrefixClosed
    <3> QED BY <3>1, <3>2
  <2>7. NoMixture'
    <3>1. CASE stored[n] = Absent
      <4>1. \A f \in Files : f > n => stored'[f] = Absent
        BY <1>1, <2>3, <3>1, FilesAssumption DEF PrefixClosed, Files
      <4>2. \A f \in Files : f <= n \/ f > n
        BY <1>1, FilesAssumption DEF Files
      <4> QED BY <1>1, <2>5, <4>1, <4>2 DEF NoMixture
    <3>2. CASE stored[n] # Absent
      BY <1>3, <2>3, <3>2 DEF NoMixture
    <3> QED BY <3>1, <3>2
  <2>8. CASE n = N
    <3>1. /\ writer' = [writer EXCEPT ![w].state = "written"]
          /\ writer'[w].state = "written" /\ writer'[w].artifact = a
          /\ writer'[w] \in Stopped({"written", "conflict", "interrupted"})
      BY <1>1, <1>2, <2>1, <2>8, FilesAssumption DEF Continues, Ends, Going, Stopped, Files
    <3>2. \A f \in Files : f <= n
      BY <2>8, FilesAssumption DEF Files
    <3>3. Holds(writer[w].artifact)'
      BY <2>5, <3>1, <3>2 DEF Holds
    <3>4. TypeOK'
      BY <1>1, <1>2, <2>3, <3>1 DEF TypeOK
    <3>5. \A v \in Writers : v # w => writer'[v] = writer[v]
      BY <1>2, <3>1
    <3>6. WritersBehind' /\ WrittenWhole' /\ ConflictIsReal'
      BY <2>4, <3>1, <3>3, <3>5, OtherWriter DEF WritersBehind, WrittenWhole, ConflictIsReal
    <3>7. ReadersBehind' /\ VerifiedWhole'
      BY <1>1, <2>4, OtherReader DEF ReadersBehind, VerifiedWhole
    <3> QED BY <2>6, <2>7, <3>4, <3>6, <3>7
  <2>9. CASE n # N
    <3>1. /\ writer' = [writer EXCEPT ![w].next = @ + 1]
          /\ writer'[w].state = "writing" /\ writer'[w].artifact = a /\ writer'[w].next = n + 1
          /\ writer'[w] \in Going("writing")
      <4>1. n + 1 \in Files
        BY <1>1, <2>9, FilesAssumption DEF Files
      <4> QED BY <1>1, <1>2, <2>1, <2>9, <4>1 DEF Continues, Going
    <3>2. \A f \in Files : f < n + 1 => f <= n
      BY <1>1, FilesAssumption DEF Files
    <3>3. Behind(writer[w].artifact, writer[w].next)'
      BY <2>5, <3>1, <3>2 DEF Behind
    <3>4. TypeOK'
      BY <1>1, <1>2, <2>3, <3>1 DEF TypeOK
    <3>5. \A v \in Writers : v # w => writer'[v] = writer[v]
      BY <1>2, <3>1
    <3>6. WritersBehind' /\ WrittenWhole' /\ ConflictIsReal'
      BY <2>4, <3>1, <3>3, <3>5, OtherWriter DEF WritersBehind, WrittenWhole, ConflictIsReal
    <3>7. ReadersBehind' /\ VerifiedWhole'
      BY <1>1, <2>4, OtherReader DEF ReadersBehind, VerifiedWhole
    <3> QED BY <2>6, <2>7, <3>4, <3>6, <3>7
  <2> QED BY <2>8, <2>9
<1>4. CASE stored[n] \notin {Absent, a[n]}
  <2>1. stored' = stored /\ writer' = [writer EXCEPT ![w].state = "conflict"]
    BY <1>4 DEF Publish, FileAt, Ends
  <2>2. /\ writer'[w].state = "conflict" /\ writer'[w].artifact = a
        /\ writer'[w] \in Stopped({"written", "conflict", "interrupted"})
    BY <1>2, <2>1, FilesAssumption DEF Going, Stopped, Files
  <2>3. \A v \in Writers : v # w => writer'[v] = writer[v]
    BY <1>2, <2>1
  <2>4. Grows
    BY <2>1 DEF Grows
  <2>5. TypeOK'
    BY <1>1, <1>2, <2>1, <2>2 DEF TypeOK
  <2>6. WritersBehind' /\ WrittenWhole' /\ ConflictIsReal'
    BY <1>1, <1>4, <2>1, <2>2, <2>3, <2>4, OtherWriter DEF WritersBehind, WrittenWhole, ConflictIsReal
  <2>7. ReadersBehind' /\ VerifiedWhole'
    BY <1>1, <2>4, OtherReader DEF ReadersBehind, VerifiedWhole
  <2>8. PrefixClosed' /\ NoMixture'
    BY <2>1 DEF PrefixClosed, NoMixture
  <2> QED BY <2>5, <2>6, <2>7, <2>8
<1> QED BY <1>3, <1>4

(* The other steps leave the files alone.                                  *)
LEMMA BeginInv ==
  ASSUME IInv, NEW w \in Writers, Begin(w)
  PROVE  IInv'
<1> USE DEF IInv
<1>1. PICK a \in Artifacts :
        /\ writer' = [writer EXCEPT ![w] = [state |-> "writing", artifact |-> a, next |-> 1]]
        /\ stored' = stored /\ reader' = reader
  BY DEF Begin
<1>2. [state |-> "writing", artifact |-> a, next |-> 1] \in Going("writing")
  BY FilesAssumption DEF Going, Files
<1>3. TypeOK'
  BY <1>1, <1>2 DEF TypeOK
<1>4. /\ writer'[w].state = "writing" /\ writer'[w].next = 1
      /\ \A v \in Writers : v # w => writer'[v] = writer[v]
  BY <1>1 DEF TypeOK
<1>5. Grows
  BY <1>1 DEF Grows
<1>6. WritersBehind'
  <2>1. Behind(writer[w].artifact, writer[w].next)'
    BY <1>4, FilesAssumption DEF Behind, Files
  <2> QED BY <1>4, <1>5, <2>1, OtherWriter DEF WritersBehind
<1>7. WrittenWhole' /\ ConflictIsReal'
  BY <1>4, <1>5, OtherWriter DEF WrittenWhole, ConflictIsReal
<1>8. ReadersBehind' /\ VerifiedWhole' /\ PrefixClosed' /\ NoMixture'
  BY <1>1, <1>5, OtherReader DEF ReadersBehind, VerifiedWhole, PrefixClosed, NoMixture
<1> QED BY <1>3, <1>6, <1>7, <1>8

LEMMA InterruptInv ==
  ASSUME IInv, NEW w \in Writers, Interrupt(w)
  PROVE  IInv'
<1> USE DEF IInv
<1>1. /\ writer[w].state = "writing" /\ writer' = [writer EXCEPT ![w].state = "interrupted"]
      /\ stored' = stored /\ reader' = reader
  BY DEF Interrupt, Ends
<1>2. writer[w] \in {Idle} \cup Going("writing") \cup Stopped({"written", "conflict", "interrupted"})
  BY DEF TypeOK
<1>3. /\ writer'[w].state = "interrupted"
      /\ writer'[w] \in Stopped({"written", "conflict", "interrupted"})
      /\ \A v \in Writers : v # w => writer'[v] = writer[v]
  BY <1>1, <1>2, FilesAssumption DEF TypeOK, Idle, Going, Stopped, Files
<1>4. TypeOK'
  BY <1>1, <1>3 DEF TypeOK
<1>5. Grows
  BY <1>1 DEF Grows
<1>6. WritersBehind' /\ WrittenWhole' /\ ConflictIsReal'
  BY <1>3, <1>5, OtherWriter DEF WritersBehind, WrittenWhole, ConflictIsReal
<1>7. ReadersBehind' /\ VerifiedWhole' /\ PrefixClosed' /\ NoMixture'
  BY <1>1, <1>5, OtherReader DEF ReadersBehind, VerifiedWhole, PrefixClosed, NoMixture
<1> QED BY <1>4, <1>6, <1>7

LEMMA ReaderInv ==
  ASSUME IInv, NEW r \in Readers, ReadManifest(r) \/ ReadFile(r)
  PROVE  IInv'
<1> USE DEF IInv
<1>1. stored' = stored /\ writer' = writer
  BY DEF ReadManifest, ReadFile
<1>2. Grows
  BY <1>1 DEF Grows
<1>3. PrefixClosed' /\ NoMixture' /\ WritersBehind' /\ WrittenWhole' /\ ConflictIsReal'
  BY <1>1, <1>2, OtherWriter
     DEF PrefixClosed, NoMixture, WritersBehind, WrittenWhole, ConflictIsReal
<1>4. ASSUME NEW value \in {Refused} \cup Going("reading") \cup Stopped({"verified", "refused"}),
             reader' = [reader EXCEPT ![r] = value],
             value.state = "reading" => Behind(value.artifact, value.next),
             value.state = "verified" => Holds(value.artifact)
      PROVE  IInv'
  <2>1. /\ reader'[r] = value /\ \A q \in Readers : q # r => reader'[q] = reader[q]
        /\ TypeOK'
    BY <1>1, <1>4 DEF TypeOK
  <2>2. /\ (reader[r].state = "reading" => Behind(reader[r].artifact, reader[r].next))'
        /\ (reader[r].state = "verified" => Holds(reader[r].artifact))'
    BY <1>1, <1>4, <2>1 DEF Behind, Holds
  <2>3. ReadersBehind' /\ VerifiedWhole'
    BY <1>2, <2>1, <2>2, OtherReader DEF ReadersBehind, VerifiedWhole
  <2> QED BY <1>3, <2>1, <2>3
<1>5. reader[r] \in {Idle, Refused} \cup Going("reading") \cup Stopped({"verified", "refused"})
  BY DEF TypeOK
<1>6. CASE ReadManifest(r)
  <2>1. reader[r] = Idle
    BY <1>5, <1>6 DEF ReadManifest, Idle, Refused, Going, Stopped
  <2>2. CASE stored[Manifest] = Absent
    <3>1. reader' = [reader EXCEPT ![r] = Refused] /\ Refused.state = "refused"
      BY <1>6, <2>1, <2>2 DEF ReadManifest, Idle, Refused
    <3> QED BY <1>4, <3>1
  <2>3. CASE stored[Manifest] # Absent
    <3>1. PICK a \in Artifacts :
            reader' = [reader EXCEPT ![r] = [state |-> "reading", artifact |-> a, next |-> 1]]
      BY <1>6, <2>3 DEF ReadManifest
    <3> DEFINE value == [state |-> "reading", artifact |-> a, next |-> 1]
    <3>2. value \in Going("reading") /\ value.state = "reading"
      BY FilesAssumption DEF Going, Files
    <3>3. Behind(value.artifact, value.next)
      BY FilesAssumption DEF Behind, Files
    <3> QED BY <1>4, <3>1, <3>2, <3>3
  <2> QED BY <2>2, <2>3
<1>7. CASE ReadFile(r)
  <2> DEFINE f == reader[r].next
             a == reader[r].artifact
  <2>1. reader[r].state = "reading" /\ f \in Files /\ a \in Artifacts /\ Behind(a, f)
    BY <1>7, ReaderTyped DEF ReadFile, ReadersBehind
  <2>2. reader[r] \in Going("reading")
    BY <1>5, <2>1 DEF Idle, Refused, Stopped
  <2>3. CASE stored[f] # a[f]
    <3>1. reader' = [reader EXCEPT ![r] = [reader[r] EXCEPT !.state = "refused"]]
      BY <1>7, <2>3 DEF ReadFile
    <3>2. /\ [reader[r] EXCEPT !.state = "refused"] \in Stopped({"verified", "refused"})
          /\ [reader[r] EXCEPT !.state = "refused"].state = "refused"
      BY <2>2, FilesAssumption DEF Going, Stopped, Files
    <3> QED BY <1>4, <3>1, <3>2
  <2>4. CASE stored[f] = a[f] /\ f = N
    <3>1. reader' = [reader EXCEPT ![r] = [reader[r] EXCEPT !.state = "verified"]]
      BY <1>7, <2>4 DEF ReadFile
    <3>2. /\ [reader[r] EXCEPT !.state = "verified"] \in Stopped({"verified", "refused"})
          /\ [reader[r] EXCEPT !.state = "verified"].state = "verified"
          /\ [reader[r] EXCEPT !.state = "verified"].artifact = a
      BY <2>2, FilesAssumption DEF Going, Stopped, Files
    <3>3. Holds(a)
      BY <2>1, <2>4, FilesAssumption DEF Holds, Behind, Files
    <3> QED BY <1>4, <3>1, <3>2, <3>3
  <2>5. CASE stored[f] = a[f] /\ f # N
    <3>1. reader' = [reader EXCEPT ![r] = [reader[r] EXCEPT !.next = f + 1]]
      BY <1>7, <2>5 DEF ReadFile
    <3>2. f + 1 \in Files
      BY <2>1, <2>5, FilesAssumption DEF Files
    <3>3. /\ [reader[r] EXCEPT !.next = f + 1] \in Going("reading")
          /\ [reader[r] EXCEPT !.next = f + 1].state = "reading"
          /\ [reader[r] EXCEPT !.next = f + 1].artifact = a
          /\ [reader[r] EXCEPT !.next = f + 1].next = f + 1
      BY <2>2, <3>2 DEF Going
    <3>4. Behind(a, f + 1)
      BY <2>1, <2>5, FilesAssumption DEF Behind, Files
    <3> QED BY <1>4, <3>1, <3>3, <3>4
  <2> QED BY <2>3, <2>4, <2>5
<1> QED BY <1>6, <1>7

LEMMA NextInv ==
  ASSUME IInv, [Next]_vars PROVE IInv'
<1>1. CASE UNCHANGED vars
  BY <1>1 DEF vars, IInv, TypeOK, PrefixClosed, WritersBehind, ReadersBehind, Behind, Holds,
     NoMixture, WrittenWhole, ConflictIsReal, VerifiedWhole
<1> QED BY <1>1, PublishInv, BeginInv, InterruptInv, ReaderInv DEF Next

(* The files that exist, and what each process has done, always fit.       *)
THEOREM InvariantHolds == Spec => []IInv
  BY InitInv, NextInv, PTL DEF Spec

(* The variables keep their types.                                         *)
THEOREM TypeCorrect == Spec => []TypeOK
<1>1. IInv => TypeOK
  BY DEF IInv
<1> QED BY <1>1, InvariantHolds, PTL

(* A directory never holds files of two artifacts, whoever races whom and  *)
(* is interrupted between which files.                                     *)
THEOREM NeverMixed == Spec => []NoMixture
<1>1. IInv => NoMixture
  BY DEF IInv
<1> QED BY <1>1, InvariantHolds, PTL

(* LocalResearchStore.write returns only when the whole artifact is there, *)
(* and raises a conflict only over another artifact.                       *)
THEOREM WritesAreTrue == Spec => [](WrittenWhole /\ ConflictIsReal)
<1>1. IInv => WrittenWhole /\ ConflictIsReal
  BY DEF IInv
<1> QED BY <1>1, InvariantHolds, PTL

(* ResearchVerificationService.verify accepts only a whole artifact.       *)
THEOREM VerifiedIsWhole == Spec => []VerifiedWhole
<1>1. IInv => VerifiedWhole
  BY DEF IInv
<1> QED BY <1>1, InvariantHolds, PTL
=============================================================================
