------------------------ MODULE ImmutableStoreProofs ------------------------
(***************************************************************************)
(* ImmutableStore for every set of writers, paths, contents and inodes.    *)
(* Ownership is the strengthening: an inode that a live activation still   *)
(* writes is named by that activation alone and has no final name yet.     *)
(***************************************************************************)
EXTENDS ImmutableStore, TLAPS

Owning == {"write", "sync", "link", "compare", "unlink"}

BusyShape ==
  \A w \in Writers : writer[w].pc # "idle" =>
    /\ writer[w].path \in Paths
    /\ writer[w].content \in Contents
    /\ writer[w].pc = "unlink" => writer[w].outcome \in {"ok", "conflict", "error"}

Ownership ==
  \A w \in Writers : writer[w].pc \in Owning =>
    /\ writer[w].ino \in temp
    /\ \A v \in Writers : v # w /\ writer[v].pc \in Owning => writer[v].ino # writer[w].ino

Staging ==
  \A w \in Writers :
    /\ writer[w].pc \in {"write", "sync", "link"} => ~ Linked(writer[w].ino)
    /\ writer[w].pc \in {"sync", "link"} => inode[writer[w].ino] = writer[w].content
    /\ writer[w].pc = "link" => writer[w].ino \in durable

Published ==
  \A p \in Paths : link[p] # None => inode[link[p]] \in Contents /\ link[p] \in durable

Compared ==
  \A w \in Writers : writer[w].pc = "compare" => link[writer[w].path] # None

NamesInUse == \A i \in temp : inode[i] # Free

IInv == /\ TypeOK /\ BusyShape /\ Ownership /\ Staging
        /\ Published /\ Compared /\ NamesInUse /\ ReportsTruth

LEMMA InitInv == Init => IInv
  BY DistinctValues
  DEF Init, IInv, TypeOK, BusyShape, Ownership, Staging, Published, Compared,
      NamesInUse, ReportsTruth, Idle, Activations, Points, Outcomes, Owning, Linked, Bytes

(* Every activation step preserves the invariant; so does the power loss.  *)
LEMMA StepInv ==
  ASSUME IInv, NEW w \in Writers,
         Activate(w)
  PROVE  IInv'
<1> USE DistinctValues
    DEF IInv, TypeOK, BusyShape, Ownership, Staging, Published, Compared, NamesInUse,
        ReportsTruth, Idle, Activations, Points, Outcomes, Owning, Linked, Bytes,
        Move, Goto, Finish, Return
<1>1. ASSUME NEW p \in Paths, NEW c \in Contents, Begin(w, p, c) PROVE IInv'
  BY <1>1 DEF Begin
<1>2. ASSUME NEW i \in Inodes, Create(w, i) PROVE IInv'
  BY <1>2 DEF Create
<1>3. CASE Write(w)
  BY <1>3 DEF Write
<1>4. CASE Sync(w)
  BY <1>4 DEF Sync
<1>5. CASE Link(w)
  <2>1. CASE link[writer[w].path] = None
    <3>1. (TypeOK /\ BusyShape /\ Ownership)'
      BY <1>5, <2>1 DEF Link
    <3>2. (Staging /\ Published)'
      BY <1>5, <2>1 DEF Link
    <3>3. (Compared /\ NamesInUse)'
      BY <1>5, <2>1 DEF Link
    <3>4. ReportsTruth'
      BY <1>5, <2>1 DEF Link
    <3> QED BY <3>1, <3>2, <3>3, <3>4
  <2>2. CASE link[writer[w].path] # None
    BY <1>5, <2>2 DEF Link
  <2> QED BY <2>1, <2>2
<1>6. CASE Compare(w)
  <2>1. ASSUME NEW r \in {"ok", "conflict"}, Finish(w, r),
               r = "ok" <=> Bytes(writer[w].path) = writer[w].content
        PROVE  IInv'
    <3>1. TypeOK'
      BY <1>6, <2>1 DEF Compare
    <3>2. (BusyShape /\ Ownership /\ Staging)'
      BY <1>6, <2>1 DEF Compare
    <3>3. (Published /\ Compared /\ NamesInUse)'
      BY <1>6, <2>1 DEF Compare
    <3>4. ReportsTruth'
      BY <1>6, <2>1 DEF Compare
    <3> QED BY <3>1, <3>2, <3>3, <3>4
  <2> QED BY <1>6, <2>1 DEF Compare
<1>7. CASE Unlink(w)
  BY <1>7 DEF Unlink
<1>8. CASE Fail(w)
  BY <1>8 DEF Fail
<1>9. CASE Kill(w)
  BY <1>9 DEF Kill
<1> QED BY <1>1, <1>2, <1>3, <1>4, <1>5, <1>6, <1>7, <1>8, <1>9 DEF Activate, Step

LEMMA PowerLossInv == IInv /\ PowerLoss => IInv'
  BY DistinctValues
  DEF IInv, TypeOK, BusyShape, Ownership, Staging, Published, Compared, NamesInUse,
      ReportsTruth, Idle, Activations, Points, Outcomes, Owning, Linked, Bytes, PowerLoss, Crash

LEMMA StutterInv == IInv /\ UNCHANGED vars => IInv'
  BY DEF IInv, TypeOK, BusyShape, Ownership, Staging, Published, Compared, NamesInUse,
         ReportsTruth, Linked, Bytes, vars

(* The invariant holds whatever crashes, fails or loses power, and when.   *)
THEOREM InvariantHolds == Spec => []IInv
<1>1. IInv /\ [Next]_vars => IInv'
  BY StepInv, PowerLossInv, StutterInv DEF Next
<1> QED BY InitInv, <1>1, PTL DEF Spec

(* Type correctness, whatever crashes, fails or loses power.               *)
THEOREM TypeCorrect == Spec => []TypeOK
  BY InvariantHolds, PTL DEF IInv

(* local_immutable.py:22: no final name ever refers to an incomplete file, *)
(* for any number of writers, a power loss at any system call included.    *)
THEOREM NeverPartial == Spec => []NoPartialExposure
<1>1. IInv => NoPartialExposure
  BY DEF IInv, Published, NoPartialExposure
<1> QED BY InvariantHolds, <1>1, PTL

(* An activation reports "ok" or "conflict" according to the path's bytes. *)
THEOREM OutcomesTrue == Spec => []ReportsTruth
  BY InvariantHolds, PTL DEF IInv

-----------------------------------------------------------------------------
LEMMA InitRefines == Init => Register!Init
  BY DEF Init, Register!Init, Idle, Bytes

(* A return that leaves the final names alone answers the abstract request *)
(* if its outcome is true of them.                                         *)
LEMMA ReturnAnswers ==
  ASSUME TypeOK, BusyShape, NEW w \in Writers, writer[w].pc # "idle",
         NEW a \in {"ok", "conflict", "error", "killed"}, Return(w, a),
         \A p \in Paths : Bytes(p)' = Bytes(p),
         a = "ok" => Bytes(writer[w].path) = writer[w].content,
         a = "conflict" => Bytes(writer[w].path) \in Contents \ {writer[w].content}
  PROVE  Register!Next
<1>1. Register!Answer(w, a)
  <2>1. UNCHANGED [p \in Paths |-> Bytes(p)]
    OBVIOUS
  <2>2. Register!Permitted(w, a)
    BY DistinctValues DEF Register!Permitted, BusyShape
  <2>3. [path |-> writer[w].path, content |-> writer[w].content] # None
    BY DistinctValues DEF BusyShape
  <2> QED BY <2>1, <2>2, <2>3 DEF Register!Answer, Return, Idle, TypeOK, BusyShape
<1> QED BY <1>1 DEF Register!Next

LEMMA StepRefines ==
  ASSUME IInv, NEW w \in Writers,
         Activate(w)
  PROVE  Register!Next \/ UNCHANGED Register!vars
<1> USE DistinctValues DEF IInv, TypeOK, BusyShape, Ownership, Staging, Published, Owning,
                           Activations, Points, Linked, Bytes
<1>1. ASSUME NEW p \in Paths, NEW c \in Contents, Begin(w, p, c)
      PROVE  Register!Next
  <2>1. Register!Ask(w, p, c)
    BY <1>1 DEF Begin, Register!Ask
  <2> QED BY <2>1 DEF Register!Next
<1>2. ASSUME NEW i \in Inodes, Create(w, i) PROVE UNCHANGED Register!vars
  BY <1>2 DEF Create, Move, NamesInUse, Register!vars
<1>3. CASE Write(w)
  BY <1>3 DEF Write, Goto, Move, Register!vars
<1>4. CASE Sync(w) \/ Compare(w)
  BY <1>4 DEF Sync, Compare, Goto, Finish, Move, Register!vars
<1>5. CASE Link(w)
  <2>1. CASE link[writer[w].path] = None
    <3>1. Register!Publish(w)
      BY <1>5, <2>1 DEF Link, Finish, Move, Register!Publish
    <3> QED BY <3>1 DEF Register!Next
  <2>2. CASE link[writer[w].path] # None
    BY <1>5, <2>2 DEF Link, Goto, Move, Register!vars
  <2> QED BY <2>1, <2>2
<1>6. CASE Unlink(w)
  <2>1. \A p \in Paths : Bytes(p)' = Bytes(p)
    BY <1>6 DEF Unlink
  <2>2. writer[w].outcome \in {"ok", "conflict", "error"}
    BY <1>6 DEF Unlink
  <2>3. Return(w, writer[w].outcome)
    BY <1>6 DEF Unlink
  <2> QED BY <1>6, <2>1, <2>2, <2>3, ReturnAnswers DEF Unlink, ReportsTruth
<1>7. CASE Fail(w)
  <2>1. CASE writer[w].pc \in {"create", "unlink"}
    BY <1>7, <2>1, ReturnAnswers DEF Fail
  <2>2. CASE writer[w].pc \notin {"create", "unlink"}
    BY <1>7, <2>2 DEF Fail, Finish, Move, Register!vars
  <2> QED BY <2>1, <2>2
<1>8. CASE Kill(w)
  BY <1>8, ReturnAnswers DEF Kill
<1> QED BY <1>1, <1>2, <1>3, <1>4, <1>5, <1>6, <1>7, <1>8 DEF Activate, Step

(* A power loss takes names away and tears what was not synced: a final    *)
(* name that stays refers to the bytes that it referred to.                *)
LEMMA PowerLossRefines == IInv /\ PowerLoss => Register!Next
<1> SUFFICES ASSUME IInv,
                    NEW gone \in SUBSET Paths, NEW erased \in SUBSET temp,
                    NEW torn \in SUBSET (Inodes \ durable), Crash(gone, erased, torn)
             PROVE  Register!Next
  BY DEF PowerLoss
<1>1. \A p \in Paths : Bytes(p)' = IF p \in gone THEN None ELSE Bytes(p)
  BY DistinctValues DEF IInv, TypeOK, Published, Bytes, Crash
<1>2. \A w \in Writers : writer'[w].pc = "idle"
  BY DEF Idle, Crash
<1>3. \A w \in Writers : writer[w].pc # "idle" =>
        [path |-> writer[w].path, content |-> writer[w].content] # None
  BY DistinctValues DEF IInv, BusyShape
<1>4. \A w \in Writers : writer'[w].outcome =
        IF writer[w].pc = "idle" THEN writer[w].outcome ELSE "killed"
  BY DEF Idle, Crash
<1>5. Register!Lose(gone)
  BY <1>1, <1>2, <1>3, <1>4 DEF Register!Lose
<1> QED BY <1>5 DEF Register!Next

(* Writers over names and inodes implement the write-once registers.       *)
THEOREM Refinement == Spec => ImplementsWriteOnce
<1>1. IInv /\ [Next]_vars => [Register!Next]_(Register!vars)
  <2>1. IInv /\ UNCHANGED vars => UNCHANGED Register!vars
    BY DEF vars, Register!vars, Bytes
  <2> QED BY <2>1, StepRefines, PowerLossRefines DEF Next
<1> QED BY InvariantHolds, InitRefines, <1>1, PTL DEF Spec, ImplementsWriteOnce, Register!Spec
=============================================================================
