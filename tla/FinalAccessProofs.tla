------------------------- MODULE FinalAccessProofs -------------------------
(***************************************************************************)
(* FinalAccess for any number of commands, commits, datasets and workflow  *)
(* runs.  The proof has two halves: who may hold a seal (SealInv), and     *)
(* what follows from a receipt for the study that names it (StudyInv).     *)
(***************************************************************************)
EXTENDS FinalAccess, TLAPS

(* A command that has made the directory of a seal and not yet granted it. *)
Holding == {"seal file", "receipt dir", "receipt file"}

(* What it has found and written so far.                                   *)
HolderFacts ==
  \A c \in Invocations :
    /\ pc[c] \in Holding => SealOf(c) \in sealDirs /\ granted[SealOf(c)] = 0
    /\ pc[c] \in {"seal file", "receipt dir"} => asked[c] \notin receiptDirs
    /\ pc[c] = "seal file" => seals[SealOf(c)] = None
    /\ pc[c] \in {"receipt dir", "receipt file"} => seals[SealOf(c)] = asked[c]

(* No two commands hold one seal, and nothing names a seal without its     *)
(* directory.                                                              *)
HoldersApart ==
  \A c, d \in Invocations :
    pc[c] \in Holding /\ pc[d] \in Holding /\ SealOf(c) = SealOf(d) => c = d
Unsealed == \A s \in SealIds : s \notin sealDirs => granted[s] = 0 /\ seals[s] = None
DirsSealed == \A i \in receiptDirs : Seal(i) \in sealDirs

SealInv == HolderFacts /\ HoldersApart /\ Unsealed /\ DirsSealed /\ GrantedOnce /\ SealIsWon

(* What strategy-finalize has checked of a receipt, which stays true.      *)
Final(i) ==
  /\ Loads(i)
  /\ preFinal[i.dataset] = "complete"
  /\ handoff[i.dataset] # None /\ handoff[i.dataset].commit = i.commit

StudyFacts(c) ==
  /\ pc[c] \in Finalizing => Final(asked[c])
  /\ pc[c] \in {"experiments", "manifest", "result"} => asked[c] \in opened
  /\ pc[c] \in {"manifest", "result"} => experiments[DatasetOf(c)] = asked[c].commit
  /\ pc[c] = "result" => named[DatasetOf(c)] = asked[c]
  /\ pc[c] \in {"verify experiments", "verify chain", "verified"} =>
       named[DatasetOf(c)] = asked[c] /\ DatasetOf(c) \in complete
FinalizerFacts == \A c \in Invocations : StudyFacts(c)

OpenedFinal == \A i \in opened : Final(i)
NamedOpened ==
  \A d \in Datasets : named[d] # None =>
    named[d] \in opened /\ named[d].dataset = d /\ experiments[d] = named[d].commit
CompleteNamed == \A d \in complete : named[d] # None

StudyInv == FinalizerFacts /\ OpenedFinal /\ NamedOpened /\ CompleteNamed

IInv == TypeOK /\ SealInv /\ StudyInv

-----------------------------------------------------------------------------
(* Identities and seals are records: equal fields, equal records.          *)
LEMMA SealTyped == ASSUME NEW i \in Identities PROVE Seal(i) \in SealIds
  BY DEF Identities, SealIds, Seal

LEMMA SameSeal ==
  ASSUME NEW i \in Identities, NEW j \in Identities, i.commit = j.commit, i.dataset = j.dataset
  PROVE  Seal(i) = Seal(j)
  BY DEF Seal

(* Two receipts of a dataset that can be finalized are the same one.       *)
LEMMA FinalUnique ==
  ASSUME NEW i \in Identities, NEW j \in Identities,
         Final(i), Final(j), i.dataset = j.dataset
  PROVE  i = j
  BY SameSeal DEF Final, Loads

(* A step moves one command at most.                                       *)
Moves(c) == \A e \in Invocations \ {c} : pc'[e] = pc[e] /\ asked'[e] = asked[e]

LEMMA PlacesTyped ==
  ASSUME TypeOK
  PROVE  pc \in [Invocations -> Ready \cup Running] /\ asked \in [Invocations -> Identities \cup {None}]
  BY DEF TypeOK

LEMMA GotoMoves ==
  ASSUME TypeOK, NEW c \in Invocations, NEW step, Goto(c, step)
  PROVE  Moves(c) /\ pc'[c] = step /\ asked'[c] = asked[c]
  BY DEF TypeOK, Goto, Moves

LEMMA LeaveMoves ==
  ASSUME TypeOK, NEW c \in Invocations, Leave(c)
  PROVE  Moves(c) /\ pc'[c] = "idle" /\ asked'[c] = None
  BY DEF TypeOK, Leave, Moves

LEMMA BeginMoves ==
  ASSUME TypeOK, NEW c \in Invocations, NEW step, NEW i, Begin(c, step, i)
  PROVE  Moves(c) /\ pc'[c] = step /\ asked'[c] = i
  BY DEF TypeOK, Begin, Moves

-----------------------------------------------------------------------------
LEMMA InitInv == Init => IInv
<1> SUFFICES ASSUME Init PROVE IInv
  OBVIOUS
<1>1. TypeOK
  BY DEF Init, TypeOK, Ready
<1>2. SealInv
  BY DEF Init, SealInv, HolderFacts, HoldersApart, Unsealed, DirsSealed, GrantedOnce, SealIsWon,
         Holding
<1>3. StudyInv
  BY DEF Init, StudyInv, FinalizerFacts, StudyFacts, OpenedFinal, NamedOpened, CompleteNamed, Finalizing
<1> QED BY <1>1, <1>2, <1>3 DEF IInv

(* The types of a command's step: its own place, and what it leaves alone. *)
LEMMA PlaceTyped ==
  ASSUME TypeOK, NEW c \in Invocations, NEW step \in Ready \cup Running, NEW i \in Identities,
         Begin(c, step, i)
  PROVE  /\ pc' \in [Invocations -> Ready \cup Running]
         /\ asked' \in [Invocations -> Identities \cup {None}]
         /\ \A e \in Invocations : pc'[e] # "idle" => asked'[e] \in Identities
  BY DEF TypeOK, Begin

LEMMA GotoTyped ==
  ASSUME TypeOK, NEW c \in Invocations, NEW step \in Ready \cup Running, pc[c] # "idle",
         Goto(c, step)
  PROVE  /\ pc' \in [Invocations -> Ready \cup Running]
         /\ asked' \in [Invocations -> Identities \cup {None}]
         /\ \A e \in Invocations : pc'[e] # "idle" => asked'[e] \in Identities
  BY DEF TypeOK, Goto

LEMMA LeaveTyped ==
  ASSUME TypeOK, NEW c \in Invocations, Leave(c)
  PROVE  /\ pc' \in [Invocations -> Ready \cup Running]
         /\ asked' \in [Invocations -> Identities \cup {None}]
         /\ \A e \in Invocations : pc'[e] # "idle" => asked'[e] \in Identities
  BY DEF TypeOK, Leave, Ready

LEMMA AskedTyped ==
  ASSUME TypeOK, NEW c \in Invocations, pc[c] # "idle"
  PROVE  asked[c] \in Identities /\ SealOf(c) \in SealIds /\ DatasetOf(c) \in Datasets
         /\ asked[c].commit \in Commits
  BY SealTyped DEF TypeOK, SealOf, DatasetOf, Identities

LEMMA TypeStep == IInv /\ [Next]_vars => TypeOK'
<1> SUFFICES ASSUME TypeOK, CompleteNamed, [Next]_vars PROVE TypeOK'
  BY DEF IInv, StudyInv
<1> USE DEF evidence, access, study, history
<1>1. ASSUME NEW c \in Invocations, Starts(c) PROVE TypeOK'
  <2>1. CASE BeginHandoff(c)
    BY <2>1, PlaceTyped DEF BeginHandoff, TypeOK, Running
  <2>2. CASE BeginPrepare(c)
    BY <2>2, PlaceTyped DEF BeginPrepare, TypeOK, Running, Identities
  <2>3. CASE BeginAuthorize(c)
    BY <2>3, PlaceTyped DEF BeginAuthorize, TypeOK, Running, Authorizing, Identities
  <2>4. CASE BeginFinalize(c)
    BY <2>4, PlaceTyped DEF BeginFinalize, TypeOK, Running, Finalizing
  <2>5. CASE BeginResume(c)
    BY <2>5, PlaceTyped DEF BeginResume, TypeOK, Running
  <2>6. CASE BeginVerify(c)
    <3>1. PICK d \in Datasets : Replays(d) /\ Begin(c, "verify experiments", named[d])
      BY <2>6 DEF BeginVerify
    <3>2. named[d] \in Identities
      BY <3>1 DEF Replays, CompleteNamed, TypeOK
    <3> QED BY <2>6, <3>1, <3>2, PlaceTyped DEF BeginVerify, TypeOK, Running
  <2> QED BY <1>1, <2>1, <2>2, <2>3, <2>4, <2>5, <2>6 DEF Starts
<1>2. ASSUME NEW c \in Invocations, Step(c) PROVE TypeOK'
  <2>0. pc[c] # "idle"
    BY <1>2 DEF Step, PublishHandoff, WritePreFinal, MakeSealDir, WriteSeal, MakeReceiptDir,
                WriteReceipt, Evaluate, WriteExperiments, WriteManifest, WriteResult,
                ResumeReplay, VerifyExperiments, VerifyChain
  <2> USE <2>0, AskedTyped
  <2>1. CASE PublishHandoff(c)
    <3>1. HandoffOf(c) \in Handoffs
      BY DEF HandoffOf, Handoffs
    <3> QED BY <2>1, <3>1, LeaveTyped DEF PublishHandoff, TypeOK
  <2>2. CASE WritePreFinal(c)
    BY <2>2, LeaveTyped, GotoTyped DEF WritePreFinal, TypeOK, Running
  <2>3. CASE MakeSealDir(c)
    BY <2>3, LeaveTyped, GotoTyped DEF MakeSealDir, TypeOK, Running, Authorizing
  <2>4. CASE WriteSeal(c)
    BY <2>4, LeaveTyped, GotoTyped DEF WriteSeal, TypeOK, Running, Authorizing
  <2>5. CASE MakeReceiptDir(c)
    BY <2>5, LeaveTyped, GotoTyped DEF MakeReceiptDir, TypeOK, Running, Authorizing
  <2>6. CASE WriteReceipt(c)
    <3>1. granted[SealOf(c)] \in Nat /\ SealOf(c) \in SealIds
      BY DEF TypeOK
    <3>2. granted' = [granted EXCEPT ![SealOf(c)] = granted[SealOf(c)] + 1]
      BY <2>6 DEF WriteReceipt
    <3>3. granted[SealOf(c)] + 1 \in Nat
      BY <3>1
    <3>4. granted' \in [SealIds -> Nat]
      BY <3>1, <3>2, <3>3 DEF TypeOK
    <3> QED BY <2>6, <3>4, LeaveTyped DEF WriteReceipt, TypeOK
  <2>7. CASE Evaluate(c)
    BY <2>7, GotoTyped DEF Evaluate, TypeOK, Running, Finalizing
  <2>8. CASE WriteExperiments(c)
    BY <2>8, LeaveTyped, GotoTyped DEF WriteExperiments, TypeOK, Running, Finalizing
  <2>9. CASE WriteManifest(c)
    BY <2>9, LeaveTyped, GotoTyped DEF WriteManifest, TypeOK, Running, Finalizing
  <2>10. CASE WriteResult(c)
    BY <2>10, LeaveTyped DEF WriteResult, TypeOK
  <2>11. CASE ResumeReplay(c)
    BY <2>11, LeaveTyped, GotoTyped DEF ResumeReplay, TypeOK, Running
  <2>12. CASE VerifyExperiments(c)
    BY <2>12, LeaveTyped, GotoTyped DEF VerifyExperiments, TypeOK, Running, Ready
  <2>13. CASE VerifyChain(c)
    BY <2>13, LeaveTyped, GotoTyped DEF VerifyChain, TypeOK, Ready
  <2> QED BY <1>2, <2>1, <2>2, <2>3, <2>4, <2>5, <2>6, <2>7, <2>8, <2>9, <2>10, <2>11, <2>12, <2>13
          DEF Step
<1>3. ASSUME NEW c \in Invocations, Interrupt(c) PROVE TypeOK'
  <2>1. pc[c] # "idle"
    BY <1>3 DEF Interrupt, Running, Authorizing, Finalizing
  <2> QED BY <1>3, <2>1, LeaveTyped, AskedTyped DEF Interrupt, TypeOK
<1>4. CASE Checkout
  BY <1>4 DEF Checkout, TypeOK
<1>5. CASE Ingest
  BY <1>5 DEF Ingest, TypeOK
<1>6. CASE UNCHANGED vars
  BY <1>6 DEF vars, TypeOK
<1> QED BY <1>1, <1>2, <1>3, <1>4, <1>5, <1>6 DEF Next

-----------------------------------------------------------------------------
(* The seals.  Most steps are quiet: they neither touch the store of       *)
(* seals and receipts nor make a command a holder.                         *)
Quiet(c) ==
  /\ Moves(c) /\ pc[c] \notin Holding /\ pc'[c] \notin Holding
  /\ UNCHANGED <<sealDirs, seals, receiptDirs, granted, abandoned>>

LEMMA QuietKeeps ==
  ASSUME TypeOK, SealInv, NEW c \in Invocations, Quiet(c)
  PROVE  SealInv'
<1> USE DEF SealInv, Quiet, Moves, SealOf
<1>1. HolderFacts' /\ HoldersApart'
  BY DEF HolderFacts, HoldersApart, Holding
<1>2. Unsealed' /\ DirsSealed' /\ GrantedOnce'
  BY DEF Unsealed, DirsSealed, GrantedOnce
<1>3. SealIsWon'
  BY DEF SealIsWon, Holding, Authorizing
<1> QED BY <1>1, <1>2, <1>3

LEMMA StartIsQuiet ==
  ASSUME TypeOK, NEW c \in Invocations, Starts(c)
  PROVE  Quiet(c)
<1>0. pc \in [Invocations -> Ready \cup Running] /\ asked \in [Invocations -> Identities \cup {None}]
  BY DEF TypeOK
<1> USE <1>0 DEF Quiet, Moves, Begin, Holding, Ready, access, history
<1>1. CASE BeginHandoff(c)
  BY <1>1 DEF BeginHandoff
<1>2. CASE BeginPrepare(c)
  BY <1>2 DEF BeginPrepare
<1>3. CASE BeginAuthorize(c)
  BY <1>3 DEF BeginAuthorize
<1>4. CASE BeginFinalize(c)
  BY <1>4 DEF BeginFinalize
<1>5. CASE BeginResume(c)
  BY <1>5 DEF BeginResume
<1>6. CASE BeginVerify(c)
  BY <1>6 DEF BeginVerify
<1> QED BY <1>1, <1>2, <1>3, <1>4, <1>5, <1>6 DEF Starts

Sealing(c) == MakeSealDir(c) \/ WriteSeal(c) \/ MakeReceiptDir(c) \/ WriteReceipt(c)

LEMMA StepIsQuiet ==
  ASSUME TypeOK, NEW c \in Invocations, Step(c), ~Sealing(c)
  PROVE  Quiet(c)
<1>0. pc \in [Invocations -> Ready \cup Running] /\ asked \in [Invocations -> Identities \cup {None}]
  BY DEF TypeOK
<1> USE <1>0 DEF Quiet, Moves, Goto, Leave, Holding, access, history
<1>1. CASE PublishHandoff(c)
  BY <1>1 DEF PublishHandoff
<1>2. CASE WritePreFinal(c)
  BY <1>2 DEF WritePreFinal
<1>3. CASE Evaluate(c)
  BY <1>3 DEF Evaluate
<1>4. CASE WriteExperiments(c)
  BY <1>4 DEF WriteExperiments
<1>5. CASE WriteManifest(c)
  BY <1>5 DEF WriteManifest
<1>6. CASE WriteResult(c)
  BY <1>6 DEF WriteResult
<1>7. CASE ResumeReplay(c)
  BY <1>7 DEF ResumeReplay
<1>8. CASE VerifyExperiments(c)
  BY <1>8 DEF VerifyExperiments
<1>9. CASE VerifyChain(c)
  BY <1>9 DEF VerifyChain
<1> QED BY <1>1, <1>2, <1>3, <1>4, <1>5, <1>6, <1>7, <1>8, <1>9 DEF Step, Sealing

LEMMA SealDirKeeps ==
  ASSUME TypeOK, SealInv, NEW c \in Invocations, MakeSealDir(c)
  PROVE  SealInv'
<1> USE DEF SealInv, access, history, evidence
<1>1. pc[c] = "seal dir" /\ asked[c] \in Identities /\ SealOf(c) \in SealIds
  BY AskedTyped DEF MakeSealDir
<1>2. CASE SealOf(c) \in sealDirs
  <2>1. Quiet(c)
    BY <1>1, <1>2, LeaveMoves DEF MakeSealDir, Quiet, Holding
  <2> QED BY <2>1, QuietKeeps
<1>3. CASE SealOf(c) \notin sealDirs
  <2>1. Moves(c) /\ pc'[c] = "seal file" /\ asked'[c] = asked[c]
        /\ sealDirs' = sealDirs \cup {SealOf(c)}
        /\ UNCHANGED <<seals, receiptDirs, granted, abandoned>>
    BY <1>3, GotoMoves DEF MakeSealDir
  <2> USE <2>1 DEF Moves, SealOf
  <2>2. HolderFacts'
    BY <1>1, <1>3 DEF HolderFacts, Holding, Unsealed, DirsSealed
  <2>3. HoldersApart'
    <3> SUFFICES ASSUME NEW d \in Invocations, NEW e \in Invocations, pc'[d] \in Holding,
                        pc'[e] \in Holding, Seal(asked'[d]) = Seal(asked'[e])
                 PROVE  d = e
      BY DEF HoldersApart
    <3>1. \A f \in Invocations \ {c} : pc[f] \in Holding => Seal(asked[f]) # Seal(asked[c])
      BY <1>3 DEF HolderFacts
    <3>2. \A f \in {d, e} : asked'[f] = asked[f] /\ (f # c => pc[f] \in Holding)
      OBVIOUS
    <3> QED BY <3>1, <3>2 DEF HoldersApart
  <2>4. Unsealed' /\ DirsSealed' /\ GrantedOnce'
    BY DEF Unsealed, DirsSealed, GrantedOnce
  <2>5. SealIsWon'
    BY <1>1 DEF SealIsWon, Authorizing
  <2> QED BY <2>2, <2>3, <2>4, <2>5
<1> QED BY <1>2, <1>3

LEMMA SealFileKeeps ==
  ASSUME TypeOK, SealInv, NEW c \in Invocations, WriteSeal(c)
  PROVE  SealInv'
<1> USE DEF SealInv, access, history, evidence
<1>1. pc[c] = "seal file" /\ asked[c] \in Identities /\ SealOf(c) \in SealIds
  BY AskedTyped DEF WriteSeal
<1>2. seals[SealOf(c)] = None
  BY <1>1 DEF HolderFacts
<1>3. Moves(c) /\ pc'[c] = "receipt dir" /\ asked'[c] = asked[c]
      /\ seals' = [seals EXCEPT ![SealOf(c)] = asked[c]]
      /\ UNCHANGED <<sealDirs, receiptDirs, granted, abandoned>>
  BY <1>2, GotoMoves DEF WriteSeal
<1> USE <1>3 DEF Moves, SealOf
<1>4. HolderFacts'
  <2>1. seals'[SealOf(c)] = asked[c]
    BY <1>1 DEF TypeOK
  <2>2. \A e \in Invocations \ {c} :
          pc[e] \in Holding => Seal(asked[e]) # SealOf(c) /\ seals'[Seal(asked[e])] = seals[Seal(asked[e])]
    <3> SUFFICES ASSUME NEW e \in Invocations \ {c}, pc[e] \in Holding
                 PROVE  Seal(asked[e]) # SealOf(c) /\ seals'[Seal(asked[e])] = seals[Seal(asked[e])]
      OBVIOUS
    <3>1. Seal(asked[e]) # SealOf(c)
      BY <1>1 DEF HoldersApart, Holding
    <3>2. Seal(asked[e]) \in SealIds
      BY AskedTyped DEF Holding
    <3> QED BY <3>1, <3>2 DEF TypeOK
  <2>3. \A e \in Invocations \ {c} : pc'[e] = pc[e] /\ asked'[e] = asked[e]
    OBVIOUS
  <2> QED BY <1>1, <2>1, <2>2, <2>3 DEF HolderFacts, Holding
<1>5. HoldersApart'
  <2> SUFFICES ASSUME NEW d \in Invocations, NEW e \in Invocations, pc'[d] \in Holding,
                      pc'[e] \in Holding, Seal(asked'[d]) = Seal(asked'[e])
               PROVE  d = e
    BY DEF HoldersApart
  <2>1. \A f \in {d, e} : pc[f] \in Holding /\ asked'[f] = asked[f]
    BY <1>1 DEF Holding
  <2> QED BY <2>1 DEF HoldersApart
<1>6. Unsealed' /\ DirsSealed' /\ GrantedOnce'
  BY <1>1 DEF Unsealed, DirsSealed, GrantedOnce, HolderFacts, Holding, TypeOK
<1>7. SealIsWon'
  BY <1>1 DEF SealIsWon, Authorizing
<1> QED BY <1>4, <1>5, <1>6, <1>7

LEMMA ReceiptDirKeeps ==
  ASSUME TypeOK, SealInv, NEW c \in Invocations, MakeReceiptDir(c)
  PROVE  SealInv'
<1> USE DEF SealInv, access, history, evidence
<1>1. pc[c] = "receipt dir" /\ asked[c] \in Identities /\ SealOf(c) \in SealIds
  BY AskedTyped DEF MakeReceiptDir
<1>2. asked[c] \notin receiptDirs
  BY <1>1 DEF HolderFacts
<1>3. Moves(c) /\ pc'[c] = "receipt file" /\ asked'[c] = asked[c]
      /\ receiptDirs' = receiptDirs \cup {asked[c]}
      /\ UNCHANGED <<sealDirs, seals, granted, abandoned>>
  BY <1>2, GotoMoves DEF MakeReceiptDir
<1> USE <1>3 DEF Moves, SealOf
<1>4. HolderFacts'
  BY <1>1 DEF HolderFacts, HoldersApart, Holding
<1>5. HoldersApart'
  <2> SUFFICES ASSUME NEW d \in Invocations, NEW e \in Invocations, pc'[d] \in Holding,
                      pc'[e] \in Holding, Seal(asked'[d]) = Seal(asked'[e])
               PROVE  d = e
    BY DEF HoldersApart
  <2>1. \A f \in {d, e} : pc[f] \in Holding /\ asked'[f] = asked[f]
    BY <1>1 DEF Holding
  <2> QED BY <2>1 DEF HoldersApart
<1>6. Unsealed' /\ DirsSealed' /\ GrantedOnce'
  BY <1>1 DEF Unsealed, DirsSealed, GrantedOnce, HolderFacts, Holding
<1>7. SealIsWon'
  BY <1>1 DEF SealIsWon, Authorizing
<1> QED BY <1>4, <1>5, <1>6, <1>7

LEMMA ReceiptFileKeeps ==
  ASSUME TypeOK, SealInv, NEW c \in Invocations, WriteReceipt(c)
  PROVE  SealInv'
<1> USE DEF SealInv, access, history, evidence
<1>1. pc[c] = "receipt file" /\ asked[c] \in Identities /\ SealOf(c) \in SealIds
  BY AskedTyped DEF WriteReceipt
<1>2. Moves(c) /\ pc'[c] = "idle" /\ asked'[c] = None
      /\ granted' = [granted EXCEPT ![SealOf(c)] = @ + 1]
      /\ UNCHANGED <<sealDirs, seals, receiptDirs, abandoned>>
  BY LeaveMoves DEF WriteReceipt
<1>3. granted[SealOf(c)] = 0 /\ SealOf(c) \in sealDirs
  BY <1>1 DEF HolderFacts, Holding
<1>4. \A s \in SealIds : granted'[s] = IF s = SealOf(c) THEN 1 ELSE granted[s]
  <2>1. granted \in [SealIds -> Nat] /\ granted' = [granted EXCEPT ![SealOf(c)] = granted[SealOf(c)] + 1]
    BY <1>2 DEF TypeOK
  <2>2. granted[SealOf(c)] + 1 = 1
    BY <1>3
  <2>3. granted' = [granted EXCEPT ![SealOf(c)] = 1]
    BY <2>1, <2>2
  <2> QED BY <1>1, <2>1, <2>3
<1> USE <1>2 DEF Moves
<1>5. HolderFacts'
  <2> SUFFICES ASSUME NEW e \in Invocations, e # c, pc[e] \in Holding
               PROVE granted'[SealOf(e)] = granted[SealOf(e)]
    BY DEF HolderFacts, Holding, SealOf
  <2>1. SealOf(e) \in SealIds /\ SealOf(e) # SealOf(c)
    BY <1>1, AskedTyped DEF HoldersApart, Holding
  <2> QED BY <2>1, <1>4
<1>6. HoldersApart'
  BY DEF HoldersApart, Holding, SealOf
<1>7. Unsealed' /\ DirsSealed'
  BY <1>3, <1>4 DEF Unsealed, DirsSealed
<1>8. GrantedOnce'
  BY <1>4 DEF GrantedOnce
<1>9. SealIsWon'
  <2> SUFFICES ASSUME NEW s \in sealDirs
               PROVE  \/ granted'[s] # 0 \/ s \in abandoned
                      \/ \E e \in Invocations :
                           pc'[e] \in Authorizing \ {"seal dir"} /\ Seal(asked'[e]) = s
    BY DEF SealIsWon, SealOf
  <2>1. s \in SealIds
    BY DEF TypeOK
  <2>2. CASE s = SealOf(c)
    <3>1. granted'[s] = 1
      BY <1>4, <2>1, <2>2
    <3>2. 1 # 0
      OBVIOUS
    <3>3. granted'[s] # 0
      BY ONLY <3>1, <3>2
    <3> QED BY <3>3
  <2>3. CASE s # SealOf(c)
    <3>1. granted'[s] = granted[s]
      BY <1>4, <2>1, <2>3
    <3>2. CASE granted[s] # 0 \/ s \in abandoned
      BY <3>1, <3>2
    <3>3. CASE \E e \in Invocations : pc[e] \in Authorizing \ {"seal dir"} /\ SealOf(e) = s
      BY <2>3, <3>3 DEF SealOf
    <3> QED BY <3>2, <3>3 DEF SealIsWon
  <2> QED BY <2>2, <2>3
<1> QED BY <1>5, <1>6, <1>7, <1>8, <1>9

LEMMA InterruptKeeps ==
  ASSUME TypeOK, SealInv, NEW c \in Invocations, Interrupt(c)
  PROVE  SealInv'
<1> USE DEF SealInv, access, history, evidence
<1>1. Moves(c) /\ pc'[c] = "idle" /\ asked'[c] = None
      /\ abandoned' = (IF pc[c] \in Authorizing \ {"seal dir"}
                       THEN abandoned \cup {SealOf(c)} ELSE abandoned)
      /\ UNCHANGED <<sealDirs, seals, receiptDirs, granted>>
  BY LeaveMoves DEF Interrupt
<1> USE <1>1 DEF Moves, SealOf
<1>2. HolderFacts' /\ HoldersApart'
  BY DEF HolderFacts, HoldersApart, Holding
<1>3. Unsealed' /\ DirsSealed' /\ GrantedOnce'
  BY DEF Unsealed, DirsSealed, GrantedOnce
<1>4. SealIsWon'
  BY DEF SealIsWon, Authorizing
<1> QED BY <1>2, <1>3, <1>4

LEMMA SealStep == IInv /\ [Next]_vars => SealInv'
<1> SUFFICES ASSUME TypeOK, SealInv, [Next]_vars PROVE SealInv'
  BY DEF IInv
<1>1. ASSUME NEW c \in Invocations, Starts(c) PROVE SealInv'
  BY <1>1, StartIsQuiet, QuietKeeps
<1>2. ASSUME NEW c \in Invocations, Step(c) PROVE SealInv'
  <2>1. CASE Sealing(c)
    BY <2>1, SealDirKeeps, SealFileKeeps, ReceiptDirKeeps, ReceiptFileKeeps DEF Sealing
  <2>2. CASE ~Sealing(c)
    BY <1>2, <2>2, StepIsQuiet, QuietKeeps
  <2> QED BY <2>1, <2>2
<1>3. ASSUME NEW c \in Invocations, Interrupt(c) PROVE SealInv'
  BY <1>3, InterruptKeeps
<1>4. CASE Checkout \/ Ingest \/ UNCHANGED vars
  BY <1>4 DEF Checkout, Ingest, vars, access, study, history, SealInv, HolderFacts, HoldersApart,
              Unsealed, DirsSealed, GrantedOnce, SealIsWon, SealOf
<1> QED BY <1>1, <1>2, <1>3, <1>4 DEF Next

-----------------------------------------------------------------------------
(* The study.  What makes a receipt final is never undone.                 *)
Settled ==
  /\ receipts \subseteq receipts'
  /\ \A s \in SealIds : seals[s] # None => seals'[s] = seals[s]
  /\ \A d \in Datasets : preFinal[d] = "complete" => preFinal'[d] = "complete"
  /\ \A d \in Datasets : handoff[d] # None => handoff'[d] = handoff[d]

LEMMA FinalStays ==
  ASSUME Settled, NEW i \in Identities, Final(i)
  PROVE  Final(i)'
<1>1. i.dataset \in Datasets /\ Seal(i) \in SealIds /\ i # None
  BY SealTyped, NoneAssumption DEF Identities
<1> QED BY <1>1 DEF Settled, Final, Loads

LEMMA SealSettles ==
  ASSUME TypeOK, SealInv, NEW c \in Invocations, Sealing(c)
  PROVE  Settled
<1> USE DEF evidence
<1>1. CASE MakeSealDir(c)
  BY <1>1 DEF MakeSealDir, Settled
<1>2. CASE WriteSeal(c)
  <2>1. pc[c] = "seal file" /\ SealOf(c) \in SealIds
    BY <1>2, AskedTyped DEF WriteSeal
  <2>2. seals[SealOf(c)] = None
    BY <2>1 DEF SealInv, HolderFacts
  <2> QED BY <1>2, <2>1, <2>2 DEF WriteSeal, Settled, TypeOK
<1>3. CASE MakeReceiptDir(c)
  BY <1>3 DEF MakeReceiptDir, Settled
<1>4. CASE WriteReceipt(c)
  BY <1>4 DEF WriteReceipt, Settled
<1> QED BY <1>1, <1>2, <1>3, <1>4 DEF Sealing

LEMMA AllSettle ==
  ASSUME TypeOK, SealInv, [Next]_vars
  PROVE  Settled
<1> USE DEF evidence, access
<1>1. ASSUME NEW c \in Invocations, Starts(c) PROVE Settled
  BY <1>1 DEF Starts, BeginHandoff, BeginPrepare, BeginAuthorize, BeginFinalize, BeginResume,
              BeginVerify, Settled
<1>2. ASSUME NEW c \in Invocations, Step(c) PROVE Settled
  <2>1. CASE Sealing(c)
    BY <2>1, SealSettles
  <2>2. CASE PublishHandoff(c)
    BY <2>2 DEF PublishHandoff, Settled, TypeOK
  <2>3. CASE WritePreFinal(c)
    BY <2>3 DEF WritePreFinal, Settled, TypeOK
  <2>4. CASE Evaluate(c) \/ WriteExperiments(c) \/ WriteManifest(c) \/ WriteResult(c)
    BY <2>4 DEF Evaluate, WriteExperiments, WriteManifest, WriteResult, Settled
  <2>5. CASE ResumeReplay(c) \/ VerifyExperiments(c) \/ VerifyChain(c)
    BY <2>5 DEF ResumeReplay, VerifyExperiments, VerifyChain, Settled
  <2> QED BY <1>2, <2>1, <2>2, <2>3, <2>4, <2>5 DEF Step, Sealing
<1>3. ASSUME NEW c \in Invocations, Interrupt(c) PROVE Settled
  BY <1>3 DEF Interrupt, Settled
<1>4. CASE Checkout \/ Ingest \/ UNCHANGED vars
  BY <1>4 DEF Checkout, Ingest, vars, Settled
<1> QED BY <1>1, <1>2, <1>3, <1>4 DEF Next

(* So is what the files of a study say.                                    *)
StudyGrows ==
  /\ opened \subseteq opened' /\ complete \subseteq complete'
  /\ \A d \in Datasets : experiments[d] # None => experiments'[d] = experiments[d]
  /\ \A d \in Datasets : named[d] # None => named'[d] = named[d]

LEMMA OthersKeep ==
  ASSUME TypeOK, StudyInv, Settled, StudyGrows,
         NEW c \in Invocations, Moves(c), NEW e \in Invocations \ {c}
  PROVE  StudyFacts(e)'
<1> USE DEF StudyInv, Moves
<1>1. StudyFacts(e) /\ pc'[e] = pc[e] /\ asked'[e] = asked[e]
  BY DEF FinalizerFacts
<1>2. CASE pc[e] \in Finalizing
  <2>1. /\ asked[e] \in Identities /\ asked[e] # None
        /\ DatasetOf(e) \in Datasets /\ asked[e].commit # None
    BY <1>2, AskedTyped, NoneAssumption DEF Finalizing
  <2>2. Final(asked[e])'
    BY <1>1, <1>2, <2>1, FinalStays DEF StudyFacts
  <2> QED BY <1>1, <1>2, <2>1, <2>2 DEF StudyFacts, StudyGrows, DatasetOf, Finalizing
<1>3. CASE pc[e] \in {"verify experiments", "verify chain", "verified"}
  <2>1. asked[e] # None /\ DatasetOf(e) \in Datasets
    BY <1>3, AskedTyped, NoneAssumption
  <2> QED BY <1>1, <1>3, <2>1 DEF StudyFacts, StudyGrows, DatasetOf, Finalizing
<1>4. CASE pc[e] \notin Finalizing \cup {"verify experiments", "verify chain", "verified"}
  BY <1>1, <1>4 DEF StudyFacts, Finalizing
<1> QED BY <1>2, <1>3, <1>4

LEMMA OpenedStays ==
  ASSUME TypeOK, StudyInv, Settled, opened' = opened
  PROVE  OpenedFinal'
  BY FinalStays DEF StudyInv, OpenedFinal, TypeOK

(* Steps that leave the study alone, and take no command to a place where  *)
(* anything is claimed of it.                                              *)
Claiming == Finalizing \cup {"verify experiments", "verify chain", "verified"}
Aside(c) ==
  /\ Moves(c) /\ pc'[c] \notin Claiming
  /\ UNCHANGED <<experiments, named, complete, opened>>

LEMMA AsideKeeps ==
  ASSUME TypeOK, StudyInv, Settled, NEW c \in Invocations, Aside(c)
  PROVE  StudyInv'
<1>1. StudyGrows
  BY DEF Aside, StudyGrows
<1>2. StudyFacts(c)'
  BY DEF StudyFacts, Aside, Claiming, Finalizing
<1>3. FinalizerFacts'
  BY <1>1, <1>2, OthersKeep DEF FinalizerFacts, Aside
<1>4. NamedOpened' /\ CompleteNamed'
  BY DEF StudyInv, Aside, NamedOpened, CompleteNamed
<1> QED BY <1>3, <1>4, OpenedStays DEF StudyInv, Aside

LEMMA StartKeeps ==
  ASSUME TypeOK, StudyInv, Settled, NEW c \in Invocations, Starts(c)
  PROVE  StudyInv'
<1>0. pc \in [Invocations -> Ready \cup Running] /\ asked \in [Invocations -> Identities \cup {None}]
  BY DEF TypeOK
<1> USE <1>0 DEF study, history
<1>1. CASE BeginHandoff(c) \/ BeginPrepare(c) \/ BeginAuthorize(c) \/ BeginResume(c)
  <2>1. Aside(c)
    BY <1>1 DEF BeginHandoff, BeginPrepare, BeginAuthorize, BeginResume, Begin, Aside, Moves,
                Claiming, Finalizing
  <2> QED BY <2>1, AsideKeeps
<1>2. CASE BeginFinalize(c)
  <2>1. PICK i \in Identities :
          /\ preFinal[i.dataset] = "complete" /\ HandoffHolds(i.dataset)
          /\ handoff[i.dataset].commit = head /\ Loads(i) /\ i.commit = head
          /\ Begin(c, "evaluate", i)
    BY <1>2 DEF BeginFinalize
  <2>2. Final(i)
    BY <2>1 DEF Final, HandoffHolds
  <2>3. Moves(c) /\ pc'[c] = "evaluate" /\ asked'[c] = i
    BY <2>1 DEF Begin, Moves
  <2>4. UNCHANGED <<experiments, named, complete, opened>>
    BY <1>2 DEF BeginFinalize
  <2>5. StudyFacts(c)'
    BY <2>2, <2>3, FinalStays DEF StudyFacts, Finalizing
  <2>6. FinalizerFacts'
    BY <2>3, <2>4, <2>5, OthersKeep DEF FinalizerFacts, StudyGrows
  <2>7. NamedOpened' /\ CompleteNamed'
    BY <2>4 DEF StudyInv, NamedOpened, CompleteNamed
  <2> QED BY <2>4, <2>6, <2>7, OpenedStays DEF StudyInv
<1>3. CASE BeginVerify(c)
  <2>1. PICK d \in Datasets : Replays(d) /\ Begin(c, "verify experiments", named[d])
    BY <1>3 DEF BeginVerify
  <2>2. d \in complete /\ named[d].dataset = d
    BY <2>1 DEF Replays, StudyInv, CompleteNamed, NamedOpened
  <2>3. Moves(c) /\ pc'[c] = "verify experiments" /\ asked'[c] = named[d]
    BY <2>1 DEF Begin, Moves
  <2>4. UNCHANGED <<experiments, named, complete, opened>>
    BY <1>3 DEF BeginVerify
  <2>5. StudyFacts(c)'
    BY <2>2, <2>3, <2>4 DEF StudyFacts, Finalizing, DatasetOf
  <2>6. FinalizerFacts'
    BY <2>3, <2>4, <2>5, OthersKeep DEF FinalizerFacts, StudyGrows
  <2>7. NamedOpened' /\ CompleteNamed'
    BY <2>4 DEF StudyInv, NamedOpened, CompleteNamed
  <2> QED BY <2>4, <2>6, <2>7, OpenedStays DEF StudyInv
<1> QED BY <1>1, <1>2, <1>3 DEF Starts

LEMMA EvaluateKeeps ==
  ASSUME TypeOK, StudyInv, Settled, NEW c \in Invocations, Evaluate(c)
  PROVE  StudyInv'
<1>1. pc[c] = "evaluate" /\ asked[c] \in Identities /\ Final(asked[c])
  BY AskedTyped DEF Evaluate, StudyInv, FinalizerFacts, StudyFacts, Finalizing
<1>2. Moves(c) /\ pc'[c] = "experiments" /\ asked'[c] = asked[c]
  BY GotoMoves DEF Evaluate
<1>3. opened' = opened \cup {asked[c]} /\ UNCHANGED <<experiments, named, complete>>
  BY DEF Evaluate, study
<1>4. StudyFacts(c)'
  BY <1>1, <1>2, <1>3, FinalStays DEF StudyFacts, Finalizing
<1>5. FinalizerFacts'
  BY <1>2, <1>3, <1>4, OthersKeep DEF FinalizerFacts, StudyGrows
<1>6. OpenedFinal'
  BY <1>1, <1>3, FinalStays DEF StudyInv, OpenedFinal, TypeOK
<1>7. NamedOpened' /\ CompleteNamed'
  BY <1>3 DEF StudyInv, NamedOpened, CompleteNamed
<1> QED BY <1>5, <1>6, <1>7 DEF StudyInv

LEMMA ExperimentsKeep ==
  ASSUME TypeOK, StudyInv, Settled, NEW c \in Invocations, WriteExperiments(c)
  PROVE  StudyInv'
<1>1. /\ pc[c] = "experiments" /\ asked[c] \in Identities /\ DatasetOf(c) \in Datasets
      /\ Final(asked[c]) /\ asked[c] \in opened
  BY AskedTyped DEF WriteExperiments, StudyInv, FinalizerFacts, StudyFacts, Finalizing
<1>2. UNCHANGED <<named, complete, opened>>
  BY DEF WriteExperiments, history
<1>3. CASE experiments[DatasetOf(c)] \in {None, asked[c].commit}
  <2>1. Moves(c) /\ pc'[c] = "manifest" /\ asked'[c] = asked[c]
    BY <1>3, GotoMoves DEF WriteExperiments
  <2>2. experiments' = [experiments EXCEPT ![DatasetOf(c)] = asked[c].commit]
    BY <1>3 DEF WriteExperiments
  <2>3. StudyGrows
    BY <1>1, <1>2, <1>3, <2>2 DEF StudyGrows, TypeOK
  <2>4. StudyFacts(c)'
    <3>1. experiments'[DatasetOf(c)] = asked[c].commit
      BY <1>1, <2>2 DEF TypeOK
    <3> QED BY <1>1, <1>2, <2>1, <3>1, FinalStays DEF StudyFacts, Finalizing, DatasetOf
  <2>5. FinalizerFacts'
    BY <2>1, <2>3, <2>4, OthersKeep DEF FinalizerFacts
  <2>6. NamedOpened'
    <3> SUFFICES ASSUME NEW d \in Datasets, named[d] # None
                 PROVE  named[d] \in opened /\ named[d].dataset = d /\ experiments'[d] = named[d].commit
      BY <1>2 DEF NamedOpened
    <3>1. named[d] \in opened /\ named[d].dataset = d /\ experiments[d] = named[d].commit
      BY DEF StudyInv, NamedOpened
    <3>2. experiments[d] # None
      BY <3>1, NoneAssumption DEF TypeOK, Identities
    <3> QED BY <2>3, <3>1, <3>2 DEF StudyGrows
  <2>7. CompleteNamed'
    BY <1>2 DEF StudyInv, CompleteNamed
  <2> QED BY <1>2, <2>5, <2>6, <2>7, OpenedStays DEF StudyInv
<1>4. CASE experiments[DatasetOf(c)] \notin {None, asked[c].commit}
  <2>1. Aside(c)
    BY <1>2, <1>4, LeaveMoves DEF WriteExperiments, Aside, Claiming, Finalizing
  <2> QED BY <2>1, AsideKeeps
<1> QED BY <1>3, <1>4

LEMMA ManifestKeeps ==
  ASSUME TypeOK, StudyInv, Settled, NEW c \in Invocations, WriteManifest(c)
  PROVE  StudyInv'
<1>1. /\ pc[c] = "manifest" /\ asked[c] \in Identities /\ DatasetOf(c) \in Datasets
      /\ Final(asked[c]) /\ asked[c] \in opened
      /\ experiments[DatasetOf(c)] = asked[c].commit
  BY AskedTyped DEF WriteManifest, StudyInv, FinalizerFacts, StudyFacts, Finalizing
<1>2. UNCHANGED <<experiments, complete, opened>>
  BY DEF WriteManifest, history
<1>3. CASE named[DatasetOf(c)] \in {None, asked[c]}
  <2>1. Moves(c) /\ pc'[c] = "result" /\ asked'[c] = asked[c]
    BY <1>3, GotoMoves DEF WriteManifest
  <2>2. named' = [named EXCEPT ![DatasetOf(c)] = asked[c]]
    BY <1>3 DEF WriteManifest
  <2>3. StudyGrows
    BY <1>1, <1>2, <1>3, <2>2 DEF StudyGrows, TypeOK
  <2>4. named'[DatasetOf(c)] = asked[c]
    BY <1>1, <2>2 DEF TypeOK
  <2>5. StudyFacts(c)'
    BY <1>1, <1>2, <2>1, <2>4, FinalStays DEF StudyFacts, Finalizing, DatasetOf
  <2>6. FinalizerFacts'
    BY <2>1, <2>3, <2>5, OthersKeep DEF FinalizerFacts
  <2>7. NamedOpened'
    <3> SUFFICES ASSUME NEW d \in Datasets, named'[d] # None
                 PROVE  named'[d] \in opened /\ named'[d].dataset = d /\ experiments[d] = named'[d].commit
      BY <1>2 DEF NamedOpened
    <3>1. CASE d = DatasetOf(c)
      BY <1>1, <2>4, <3>1 DEF DatasetOf
    <3>2. CASE d # DatasetOf(c)
      BY <2>2, <3>2 DEF StudyInv, NamedOpened, TypeOK
    <3> QED BY <3>1, <3>2
  <2>8. CompleteNamed'
    BY <1>2, <2>3 DEF StudyInv, CompleteNamed, StudyGrows, TypeOK
  <2> QED BY <1>2, <2>6, <2>7, <2>8, OpenedStays DEF StudyInv
<1>4. CASE named[DatasetOf(c)] \notin {None, asked[c]}
  <2>1. Aside(c)
    BY <1>2, <1>4, LeaveMoves DEF WriteManifest, Aside, Claiming, Finalizing
  <2> QED BY <2>1, AsideKeeps
<1> QED BY <1>3, <1>4

LEMMA ResultKeeps ==
  ASSUME TypeOK, StudyInv, Settled, NEW c \in Invocations, WriteResult(c)
  PROVE  StudyInv'
<1>1. /\ pc[c] = "result" /\ asked[c] \in Identities /\ DatasetOf(c) \in Datasets
      /\ named[DatasetOf(c)] = asked[c]
  BY AskedTyped DEF WriteResult, StudyInv, FinalizerFacts, StudyFacts
<1>2. Moves(c) /\ pc'[c] = "idle"
  BY LeaveMoves DEF WriteResult
<1>3. complete' = complete \cup {DatasetOf(c)} /\ UNCHANGED <<experiments, named, opened>>
  BY DEF WriteResult, history
<1>4. StudyFacts(c)'
  BY <1>2 DEF StudyFacts, Finalizing
<1>5. FinalizerFacts'
  BY <1>2, <1>3, <1>4, OthersKeep DEF FinalizerFacts, StudyGrows
<1>6. NamedOpened'
  BY <1>3 DEF StudyInv, NamedOpened
<1>7. CompleteNamed'
  BY <1>1, <1>3, NoneAssumption DEF StudyInv, CompleteNamed
<1> QED BY <1>3, <1>5, <1>6, <1>7, OpenedStays DEF StudyInv

LEMMA VerifyKeeps ==
  ASSUME TypeOK, StudyInv, Settled, NEW c \in Invocations, VerifyExperiments(c) \/ VerifyChain(c)
  PROVE  StudyInv'
<1>1. UNCHANGED <<experiments, named, complete, opened>>
  BY DEF VerifyExperiments, VerifyChain, study, history
<1>2. CASE pc[c] = "resume experiments"
  <2>1. Aside(c)
    <3>1. Goto(c, "unreconstructed") \/ Leave(c)
      BY <1>2 DEF VerifyExperiments, VerifyChain
    <3> QED BY <1>1, <3>1, PlacesTyped, LeaveMoves DEF Goto, Moves, Aside, Claiming, Finalizing
  <2> QED BY <2>1, AsideKeeps
<1>3. CASE pc[c] \in {"verify experiments", "verify chain"}
  <2>1. named[DatasetOf(c)] = asked[c] /\ DatasetOf(c) \in complete
    BY <1>3 DEF StudyInv, FinalizerFacts, StudyFacts
  <2>2. CASE Leave(c)
    <3>1. Aside(c)
      BY <1>1, <2>2, LeaveMoves DEF Aside, Claiming, Finalizing
    <3> QED BY <3>1, AsideKeeps
  <2>3. CASE Goto(c, "verify chain") \/ Goto(c, "verified")
    <3>1. Moves(c) /\ pc'[c] \in {"verify chain", "verified"} /\ asked'[c] = asked[c]
      BY <2>3, GotoMoves
    <3>2. StudyFacts(c)'
      BY <1>1, <2>1, <3>1 DEF StudyFacts, Finalizing, DatasetOf
    <3>3. FinalizerFacts'
      BY <1>1, <3>1, <3>2, OthersKeep DEF FinalizerFacts, StudyGrows
    <3>4. NamedOpened' /\ CompleteNamed'
      BY <1>1 DEF StudyInv, NamedOpened, CompleteNamed
    <3> QED BY <1>1, <3>3, <3>4, OpenedStays DEF StudyInv
  <2> QED BY <1>3, <2>2, <2>3 DEF VerifyExperiments, VerifyChain
<1> QED BY <1>2, <1>3 DEF VerifyExperiments, VerifyChain

LEMMA StudyStep == IInv /\ [Next]_vars => StudyInv'
<1> SUFFICES ASSUME TypeOK, SealInv, StudyInv, [Next]_vars PROVE StudyInv'
  BY DEF IInv
<1>0. Settled
  BY AllSettle
<1> USE <1>0
<1>1. ASSUME NEW c \in Invocations, Starts(c) PROVE StudyInv'
  BY <1>1, StartKeeps
<1>2. ASSUME NEW c \in Invocations, Step(c) PROVE StudyInv'
  <2>0. Leave(c) => Moves(c) /\ pc'[c] \notin Claiming
    BY LeaveMoves DEF Claiming, Finalizing
  <2>1. CASE PublishHandoff(c) \/ WritePreFinal(c) \/ ResumeReplay(c)
    <3>1. Goto(c, "last pre-final file") \/ Goto(c, "resume experiments") \/ Leave(c)
      BY <2>1 DEF PublishHandoff, WritePreFinal, ResumeReplay
    <3>2. Moves(c) /\ pc'[c] \notin Claiming
      BY <2>0, <3>1, PlacesTyped DEF Goto, Moves, Claiming, Finalizing
    <3>3. Aside(c)
      BY <2>1, <3>2 DEF PublishHandoff, WritePreFinal, ResumeReplay, Aside, study, history
    <3> QED BY <3>3, AsideKeeps
  <2>2. CASE Sealing(c)
    <3>1. \/ Goto(c, "seal file") \/ Goto(c, "receipt dir") \/ Goto(c, "receipt file")
          \/ Leave(c)
      BY <2>2 DEF Sealing, MakeSealDir, WriteSeal, MakeReceiptDir, WriteReceipt
    <3>2. Moves(c) /\ pc'[c] \notin Claiming
      BY <2>0, <3>1, PlacesTyped DEF Goto, Moves, Claiming, Finalizing
    <3>3. Aside(c)
      BY <2>2, <3>2 DEF Sealing, MakeSealDir, WriteSeal, MakeReceiptDir, WriteReceipt, Aside,
                        study, history
    <3> QED BY <3>3, AsideKeeps
  <2> QED BY <1>2, <2>1, <2>2, EvaluateKeeps, ExperimentsKeep, ManifestKeeps, ResultKeeps, VerifyKeeps
          DEF Step, Sealing
<1>3. ASSUME NEW c \in Invocations, Interrupt(c) PROVE StudyInv'
  <2>1. Aside(c)
    BY <1>3, LeaveMoves DEF Interrupt, Aside, Claiming, Finalizing, study
  <2> QED BY <2>1, AsideKeeps
<1>4. CASE Checkout \/ Ingest \/ UNCHANGED vars
  <2>1. UNCHANGED <<pc, asked, experiments, named, complete, opened, receipts, seals>>
    BY <1>4 DEF Checkout, Ingest, vars, study, history, access
  <2>2. FinalizerFacts'
    <3> SUFFICES ASSUME NEW e \in Invocations PROVE StudyFacts(e)'
      BY DEF FinalizerFacts
    <3>1. pc[e] \in Finalizing => Final(asked[e])'
      BY <2>1, AskedTyped, FinalStays DEF StudyInv, FinalizerFacts, StudyFacts, Finalizing
    <3> QED BY <2>1, <3>1 DEF StudyInv, FinalizerFacts, StudyFacts, DatasetOf, Final, Loads
  <2>3. NamedOpened' /\ CompleteNamed'
    BY <2>1 DEF StudyInv, NamedOpened, CompleteNamed
  <2> QED BY <2>1, <2>2, <2>3, OpenedStays DEF StudyInv
<1> QED BY <1>1, <1>2, <1>3, <1>4 DEF Next

-----------------------------------------------------------------------------
(* The inductive invariant holds in every reachable state, for any number  *)
(* of commands, commits, datasets and workflow runs.                       *)
THEOREM InvariantHolds == Spec => []IInv
<1>1. Init => IInv
  BY InitInv
<1>2. IInv /\ [Next]_vars => IInv'
  BY TypeStep, SealStep, StudyStep DEF IInv
<1> QED BY <1>1, <1>2, PTL DEF Spec

(* Every variable keeps its type.                                          *)
THEOREM TypeCorrect == Spec => []TypeOK
<1>1. IInv => TypeOK
  BY DEF IInv
<1> QED BY <1>1, InvariantHolds, PTL

(* FinalAccessStore.authorize grants a seal once, under any race.          *)
THEOREM SealsGrantedOnce == Spec => []GrantedOnce
<1>1. IInv => GrantedOnce
  BY DEF IInv, SealInv
<1> QED BY <1>1, InvariantHolds, PTL

(* A seal without a receipt needs an interruption.                         *)
THEOREM RacesAreWon == Spec => []SealIsWon
<1>1. IInv => SealIsWon
  BY DEF IInv, SealInv
<1> QED BY <1>1, InvariantHolds, PTL

(* Every evaluation of a dataset in a root is under the same granted       *)
(* receipt, whatever commits were checked out and authorized.              *)
THEOREM OneReceiptOpens == Spec => []OpenedUnderSeal
<1>1. IInv => OpenedUnderSeal
  BY FinalUnique DEF IInv, StudyInv, OpenedFinal, OpenedUnderSeal, Final, Loads, TypeOK
<1> QED BY <1>1, InvariantHolds, PTL

(* strategy-verify accepts only the study of an evaluation that happened   *)
(* under the receipt it names.                                             *)
THEOREM VerifiedIsEvaluated == Spec => []VerifiedWasEvaluated
<1>1. ASSUME IInv, NEW c \in Invocations, pc[c] = "verified"
      PROVE  /\ DatasetOf(c) \in complete /\ named[DatasetOf(c)] = asked[c]
             /\ experiments[DatasetOf(c)] = asked[c].commit
             /\ handoff[DatasetOf(c)].commit = asked[c].commit
             /\ asked[c] \in opened
  <2> USE <1>1
  <2>1. asked[c] \in Identities /\ DatasetOf(c) \in Datasets /\ asked[c] # None
    BY AskedTyped, NoneAssumption DEF IInv
  <2>2. named[DatasetOf(c)] = asked[c] /\ DatasetOf(c) \in complete
    BY DEF IInv, StudyInv, FinalizerFacts, StudyFacts
  <2>3. asked[c] \in opened /\ experiments[DatasetOf(c)] = asked[c].commit
    BY <2>1, <2>2 DEF IInv, StudyInv, NamedOpened
  <2>4. handoff[DatasetOf(c)].commit = asked[c].commit
    BY <2>3 DEF IInv, StudyInv, OpenedFinal, Final, DatasetOf
  <2> QED BY <2>2, <2>3, <2>4
<1>2. IInv => VerifiedWasEvaluated
  BY <1>1 DEF VerifiedWasEvaluated
<1> QED BY <1>2, InvariantHolds, PTL
=============================================================================
