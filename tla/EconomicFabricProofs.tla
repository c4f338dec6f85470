------------------------ MODULE EconomicFabricProofs ------------------------
(***************************************************************************)
(* EconomicStore and EconomicFabric for any number of processes, readers,  *)
(* datasets and files.                                                     *)
(*                                                                         *)
(* The writers: whoever fills a file created it, so no two processes fill  *)
(* one, and a complete file is never touched again; a writer at its n-th   *)
(* file therefore leaves n - 1 complete ones behind it, and only the plan  *)
(* that a manifest closes can write it.                                    *)
(*                                                                         *)
(* The readers: a file that reads as complete is one of a dataset that was *)
(* written, the manifest names the content of all the others, and a        *)
(* manifest on disk closes its bundle.                                     *)
(*                                                                         *)
(* The questions: evidence places every observation that is admitted, and  *)
(* of a finite set of vintages some are the newest.                        *)
(***************************************************************************)
EXTENDS EconomicFabric, FiniteSetTheorems, WellFoundedInduction, TLAPS

(* The file that a writer fills is torn, and is its own.                   *)
Holding == \A w \in Writers : writer[w].pc = "fill" => file[Item(w).path] = Torn
Apart ==
  \A v, w \in Writers :
    v # w /\ writer[v].pc = "fill" /\ writer[w].pc = "fill" => Item(v).path # Item(w).path

(* The files that a writer has passed are complete.                        *)
Passed(w) ==
  \A k \in 1 .. Len(writer[w].plan) :
    k < writer[w].next \/ writer[w].pc = "done" =>
      file[writer[w].plan[k].path] = writer[w].plan[k].payload
Behind ==
  \A w \in Writers : writer[w].pc \in {"look", "compare", "open", "fill", "done"} => Passed(w)

IInv == TypeOK /\ Holding /\ Apart /\ Behind /\ ManifestCloses

-----------------------------------------------------------------------------
LEMMA SequenceTyped ==
  ASSUME NEW S, NEW s \in Seq(S)
  PROVE  Len(s) \in Nat /\ \A k \in 1 .. Len(s) : s[k] \in S
  OBVIOUS

LEMMA PlanTyped ==
  ASSUME NEW plan \in Plans
  PROVE  /\ plan \in Seq([path : Paths, payload : Payloads])
         /\ Len(plan) \in Nat \ {0}
         /\ Last(plan) = plan[Len(plan)]
         /\ \A k \in 1 .. Len(plan) : plan[k] \in [path : Paths, payload : Payloads]
<1>1. plan \in Seq([path : Paths, payload : Payloads]) /\ Len(plan) # 0
  BY PlansAssumption
<1>2. Len(plan) \in Nat /\ \A k \in 1 .. Len(plan) : plan[k] \in [path : Paths, payload : Payloads]
  BY <1>1, SequenceTyped
<1> QED BY <1>1, <1>2 DEF Last

LEMMA ItemTyped ==
  ASSUME TypeOK, NEW w \in Writers, writer[w].pc \in Busy \cup {"done"}
  PROVE  /\ writer[w].plan \in Plans
         /\ writer[w].next \in 1 .. Len(writer[w].plan)
         /\ Item(w) \in [path : Paths, payload : Payloads]
<1>1. writer[w].plan \in Plans /\ writer[w].next \in 1 .. Len(writer[w].plan)
  BY DEF TypeOK
<1> QED BY <1>1, PlanTyped DEF Item

LEMMA PayloadsAreNotGaps ==
  ASSUME NEW payload \in Payloads
  PROVE  payload # Absent /\ payload # Torn /\ Absent # Torn
  BY PlansAssumption

LEMMA InitInv == Init => IInv
<1> SUFFICES ASSUME Init PROVE IInv
  OBVIOUS
<1>1. \A w \in Writers : writer[w] = Idle
  BY DEF Init
<1>2. TypeOK
  BY <1>1 DEF Init, TypeOK, Idle, Busy
<1>3. Holding /\ Apart /\ Behind
  BY <1>1 DEF Holding, Apart, Behind, Idle
<1>4. ManifestCloses
  <2> SUFFICES ASSUME NEW b \in Bundles \cup Legacy, file[Last(b).path] = Last(b).payload
               PROVE  FALSE
    BY DEF ManifestCloses
  <2>1. b \in Plans
    BY DEF Plans
  <2>2. Last(b) \in [path : Paths, payload : Payloads]
    BY <2>1, PlanTyped
  <2> QED BY <2>2, PayloadsAreNotGaps DEF Init
<1> QED BY <1>2, <1>3, <1>4 DEF IInv

-----------------------------------------------------------------------------
(* What a step does to the files: it keeps those that are complete, and    *)
(* those that somebody else fills.                                         *)
Keeps == \A p \in Paths : file[p] \in Payloads => file'[p] = file[p]

LEMMA KeepsWritten ==
  ASSUME Keeps, NEW plan \in Plans, NEW k \in 1 .. Len(plan),
         file[plan[k].path] = plan[k].payload
  PROVE  file'[plan[k].path] = plan[k].payload
  BY PlanTyped DEF Keeps

(* A writer that moves on from a file that is complete.                    *)
LEMMA AdvanceTyped ==
  ASSUME TypeOK, NEW w \in Writers, writer[w].pc \in {"compare", "fill"}, Advance(w)
  PROVE  /\ writer' \in [Writers -> [pc : Busy \cup {"idle", "done", "failed"},
                                     plan : Plans \cup {<<>>}, next : Nat]]
         /\ \A v \in Writers \ {w} : writer'[v] = writer[v]
         /\ writer'[w].plan = writer[w].plan
         /\ \/ /\ writer[w].next = Len(writer[w].plan)
               /\ writer'[w].pc = "done" /\ writer'[w].next = writer[w].next
            \/ /\ writer[w].next # Len(writer[w].plan)
               /\ writer'[w].pc = "look" /\ writer'[w].next = writer[w].next + 1
               /\ writer'[w].next \in 1 .. Len(writer[w].plan)
<1>0. writer[w].pc \in Busy
  BY DEF Busy
<1>1. /\ writer[w].plan \in Plans
      /\ writer[w].next \in 1 .. Len(writer[w].plan)
      /\ Len(writer[w].plan) \in Nat \ {0}
  BY <1>0, ItemTyped, PlanTyped
<1>2. writer \in [Writers -> [pc : Busy \cup {"idle", "done", "failed"},
                              plan : Plans \cup {<<>>}, next : Nat]]
  BY DEF TypeOK
<1>3. CASE writer[w].next = Len(writer[w].plan)
  BY <1>1, <1>2, <1>3 DEF Advance, Goto
<1>4. CASE writer[w].next # Len(writer[w].plan)
  <2>1. writer' = [writer EXCEPT ![w] =
           [pc |-> "look", plan |-> writer[w].plan, next |-> writer[w].next + 1]]
    BY <1>4 DEF Advance
  <2>2. writer[w].next + 1 \in 1 .. Len(writer[w].plan)
    BY <1>1, <1>4
  <2> QED BY <1>1, <1>2, <1>4, <2>1, <2>2 DEF Busy
<1> QED BY <1>3, <1>4

(* The parts of the invariant that speak of one writer, for one that does  *)
(* not move.                                                               *)
LEMMA OthersBehind ==
  ASSUME IInv, Keeps, NEW v \in Writers, writer'[v] = writer[v],
         writer'[v].pc \in {"look", "compare", "open", "fill", "done"}
  PROVE  Passed(v)'
<1>1. Passed(v)
  BY DEF IInv, Behind
<1>2. writer[v].plan \in Plans
  BY ItemTyped DEF IInv, Busy
<1> SUFFICES ASSUME NEW k \in 1 .. Len(writer[v].plan),
                    k < writer[v].next \/ writer[v].pc = "done"
             PROVE  file'[writer[v].plan[k].path] = writer[v].plan[k].payload
  BY DEF Passed
<1> QED BY <1>1, <1>2, KeepsWritten DEF Passed

(* A step that changes no file but creates one, and lets w neither fill    *)
(* nor pass a file without reason, keeps the invariant.                    *)
LEMMA QuietStep ==
  ASSUME IInv, NEW w \in Writers, UNCHANGED file,
         TypeOK',
         \A v \in Writers \ {w} : writer'[v] = writer[v],
         writer'[w].pc # "fill",
         writer'[w].pc \in {"look", "compare", "open", "fill", "done"} => Passed(w)'
  PROVE  IInv'
<1>1. Keeps
  BY DEF Keeps
<1>2. Holding'
  BY DEF IInv, Holding, Item
<1>3. Apart'
  BY DEF IInv, Apart, Item
<1>4. Behind'
  BY <1>1, OthersBehind DEF Behind
<1>5. ManifestCloses'
  BY DEF IInv, ManifestCloses, Written
<1> QED BY <1>2, <1>3, <1>4, <1>5 DEF IInv

LEMMA FailKeeps ==
  ASSUME IInv, NEW w \in Writers, UNCHANGED file, Fail(w)
  PROVE  IInv'
<1>1. /\ \A v \in Writers \ {w} : writer'[v] = writer[v]
      /\ writer'[w] = [Idle EXCEPT !.pc = "failed"]
  BY DEF IInv, TypeOK, Fail
<1>2. TypeOK'
  BY <1>1 DEF IInv, TypeOK, Fail, Idle, Busy
<1> QED BY <1>1, <1>2, QuietStep DEF Idle

LEMMA BeginKeeps ==
  ASSUME IInv, NEW w \in Writers, Begin(w)
  PROVE  IInv'
<1>1. PICK plan \in Plans :
        writer' = [writer EXCEPT ![w] =
          [pc |-> IF plan \in Legacy THEN "scan" ELSE "look", plan |-> plan, next |-> 1]]
  BY DEF Begin
<1>2. /\ \A v \in Writers \ {w} : writer'[v] = writer[v]
      /\ writer'[w] = [pc |-> IF plan \in Legacy THEN "scan" ELSE "look",
                       plan |-> plan, next |-> 1]
  BY <1>1 DEF IInv, TypeOK
<1>3. Len(plan) \in Nat \ {0}
  BY PlanTyped
<1>4. TypeOK'
  BY <1>1, <1>2, <1>3 DEF IInv, TypeOK, Begin, Busy
<1>5. writer'[w].pc # "done" /\ writer'[w].next = 1 /\ writer'[w].plan = plan
  BY <1>2
<1>6. Passed(w)'
  BY <1>3, <1>5 DEF Passed
<1> QED BY <1>2, <1>4, <1>6, QuietStep DEF Begin

LEMMA ScanKeeps ==
  ASSUME IInv, NEW w \in Writers, Scan(w)
  PROVE  IInv'
<1>0. UNCHANGED file
  BY DEF Scan
<1>1. CASE file[Item(w).path] \notin {Absent, Item(w).payload}
  BY <1>0, <1>1, FailKeeps DEF Scan
<1>2. CASE file[Item(w).path] \in {Absent, Item(w).payload}
  <2>1. writer' = [writer EXCEPT ![w] =
              IF writer[w].next = Len(writer[w].plan)
                THEN [writer[w] EXCEPT !.pc = "look", !.next = 1]
                ELSE [writer[w] EXCEPT !.next = writer[w].next + 1]]
    BY <1>2 DEF Scan
  <2>2. writer \in [Writers -> [pc : Busy \cup {"idle", "done", "failed"},
                                plan : Plans \cup {<<>>}, next : Nat]]
    BY DEF IInv, TypeOK
  <2>3. /\ writer[w].plan \in Plans
        /\ writer[w].next \in 1 .. Len(writer[w].plan)
        /\ Len(writer[w].plan) \in Nat \ {0}
        /\ writer[w].pc = "scan"
    BY ItemTyped, PlanTyped DEF IInv, Scan, Busy
  <2>4. \A v \in Writers \ {w} : writer'[v] = writer[v]
    BY <2>1, <2>2
  <2>5. writer'[w].plan = writer[w].plan
    BY <2>1, <2>2
  <2>6. \/ writer'[w].pc = "look" /\ writer'[w].next = 1
        \/ /\ writer'[w].pc = "scan"
           /\ writer'[w].next = writer[w].next + 1
           /\ writer'[w].next \in 1 .. Len(writer[w].plan)
    <3>1. CASE writer[w].next = Len(writer[w].plan)
      BY <2>1, <2>2, <3>1
    <3>2. CASE writer[w].next # Len(writer[w].plan)
      <4>1. writer[w].next + 1 \in 1 .. Len(writer[w].plan)
        BY <2>3, <3>2
      <4> QED BY <2>1, <2>2, <2>3, <3>2, <4>1
    <3> QED BY <3>1, <3>2
  <2>7. writer'[w].next \in 1 .. Len(writer[w].plan)
    BY <2>3, <2>6
  <2>8. writer'[w] \in [pc : Busy \cup {"idle", "done", "failed"},
                        plan : Plans \cup {<<>>}, next : Nat]
    <3>1. writer[w] \in [pc : Busy \cup {"idle", "done", "failed"},
                         plan : Plans \cup {<<>>}, next : Nat]
      BY <2>2
    <3>2. CASE writer[w].next = Len(writer[w].plan)
      BY <2>1, <2>2, <3>1, <3>2 DEF Busy
    <3>3. CASE writer[w].next # Len(writer[w].plan)
      <4>1. writer'[w] = [writer[w] EXCEPT !.next = writer[w].next + 1]
        BY <2>1, <2>2, <3>3
      <4>2. writer[w].next + 1 \in Nat
        BY <3>1
      <4> QED BY <3>1, <4>1, <4>2
    <3> QED BY <3>2, <3>3
  <2>9. TypeOK'
    <3>1. writer' \in [Writers -> [pc : Busy \cup {"idle", "done", "failed"},
                                   plan : Plans \cup {<<>>}, next : Nat]]
      BY <2>1, <2>2, <2>4, <2>8
    <3> QED BY <1>0, <2>3, <2>4, <2>5, <2>7, <3>1 DEF IInv, TypeOK
  <2>10. writer'[w].pc = "look" => Passed(w)'
    BY <2>3, <2>5, <2>6 DEF Passed
  <2> QED BY <1>0, <2>4, <2>6, <2>9, <2>10, QuietStep
<1> QED BY <1>1, <1>2

(* Steps that only change where a writer is.                               *)
LEMMA GotoKeeps ==
  ASSUME IInv, NEW w \in Writers, NEW point \in {"open", "compare"},
         writer[w].pc \in {"look", "open"}, UNCHANGED file, Goto(w, point)
  PROVE  IInv'
<1>1. writer \in [Writers -> [pc : Busy \cup {"idle", "done", "failed"},
                              plan : Plans \cup {<<>>}, next : Nat]]
  BY DEF IInv, TypeOK
<1>2. /\ \A v \in Writers \ {w} : writer'[v] = writer[v]
      /\ writer'[w].pc = point
      /\ writer'[w].plan = writer[w].plan
      /\ writer'[w].next = writer[w].next
  BY <1>1 DEF Goto
<1>3. writer[w].plan \in Plans /\ writer[w].next \in 1 .. Len(writer[w].plan)
  BY ItemTyped DEF IInv, Busy
<1>4. writer' \in [Writers -> [pc : Busy \cup {"idle", "done", "failed"},
                               plan : Plans \cup {<<>>}, next : Nat]]
  BY <1>1 DEF Goto, Busy
<1>5. TypeOK'
  BY <1>2, <1>3, <1>4 DEF IInv, TypeOK
<1>6. Passed(w)'
  BY <1>2 DEF IInv, Behind, Passed
<1> QED BY <1>2, <1>5, <1>6, QuietStep

LEMMA LookKeeps ==
  ASSUME IInv, NEW w \in Writers, Look(w)
  PROVE  IInv'
<1>1. PICK point \in {"open", "compare"} : Goto(w, point)
  BY DEF Look
<1> QED BY <1>1, GotoKeeps DEF Look

LEMMA AdvanceOk ==
  ASSUME IInv, NEW w \in Writers, writer[w].pc \in {"compare", "fill"}, Advance(w), Keeps,
         file'[Item(w).path] = Item(w).payload
  PROVE  Passed(w)'
<1>1. /\ writer[w].plan \in Plans
      /\ writer[w].next \in 1 .. Len(writer[w].plan)
  BY ItemTyped DEF IInv, Busy
<1>2. Passed(w)
  BY DEF IInv, Behind
<1>3. Len(writer[w].plan) \in Nat
  BY <1>1, PlanTyped
<1> SUFFICES ASSUME NEW k \in 1 .. Len(writer'[w].plan),
                    k < writer'[w].next \/ writer'[w].pc = "done"
             PROVE  file'[writer'[w].plan[k].path] = writer'[w].plan[k].payload
  BY DEF Passed
<1>4. writer'[w].plan = writer[w].plan /\ k \in 1 .. Len(writer[w].plan)
  BY AdvanceTyped DEF IInv
<1>5. k < writer[w].next \/ k = writer[w].next
  <2>1. CASE writer[w].next = Len(writer[w].plan)
    BY <1>1, <1>3, <1>4, <2>1
  <2>2. CASE writer[w].next # Len(writer[w].plan)
    <3>1. writer'[w].pc = "look" /\ writer'[w].next = writer[w].next + 1
      BY <2>2, AdvanceTyped DEF IInv
    <3> QED BY <1>1, <1>3, <1>4, <3>1
  <2> QED BY <2>1, <2>2
<1>6. CASE k < writer[w].next
  <2>1. file[writer[w].plan[k].path] = writer[w].plan[k].payload
    BY <1>2, <1>4, <1>6 DEF Passed
  <2> QED BY <1>1, <1>4, <2>1, KeepsWritten
<1>7. CASE k = writer[w].next
  BY <1>4, <1>7 DEF Item
<1> QED BY <1>5, <1>6, <1>7

LEMMA AdvanceTypeOK ==
  ASSUME IInv, NEW w \in Writers, writer[w].pc \in {"compare", "fill"}, Advance(w),
         file' \in [Paths -> Payloads \cup {Absent, Torn}]
  PROVE  TypeOK'
<1>1. writer[w].plan \in Plans /\ writer[w].next \in 1 .. Len(writer[w].plan)
  BY ItemTyped DEF IInv, Busy
<1>2. writer'[w].plan \in Plans /\ writer'[w].next \in 1 .. Len(writer'[w].plan)
  BY <1>1, AdvanceTyped DEF IInv
<1>3. /\ \A v \in Writers \ {w} : writer'[v] = writer[v]
      /\ writer' \in [Writers -> [pc : Busy \cup {"idle", "done", "failed"},
                                  plan : Plans \cup {<<>>}, next : Nat]]
  BY AdvanceTyped DEF IInv
<1> QED BY <1>2, <1>3 DEF IInv, TypeOK

LEMMA CompareKeeps ==
  ASSUME IInv, NEW w \in Writers, Compare(w)
  PROVE  IInv'
<1>0. UNCHANGED file /\ writer[w].pc = "compare"
  BY DEF Compare
<1>1. CASE Fail(w)
  BY <1>0, <1>1, FailKeeps
<1>2. CASE ~ Fail(w)
  <2>1. file[Item(w).path] = Item(w).payload /\ Advance(w)
    BY <1>2 DEF Compare
  <2>2. Keeps
    BY <1>0 DEF Keeps
  <2>3. Passed(w)'
    BY <1>0, <2>1, <2>2, AdvanceOk
  <2>4. TypeOK'
    BY <1>0, <2>1, AdvanceTypeOK DEF IInv, TypeOK
  <2>5. /\ \A v \in Writers \ {w} : writer'[v] = writer[v]
        /\ writer'[w].pc # "fill"
    BY <1>0, <2>1, AdvanceTyped DEF IInv
  <2> QED BY <1>0, <2>3, <2>4, <2>5, QuietStep
<1> QED BY <1>1, <1>2

LEMMA OpenKeeps ==
  ASSUME IInv, NEW w \in Writers, Open(w)
  PROVE  IInv'
<1>0. writer[w].pc = "open" /\ writer[w].pc \in Busy
  BY DEF Open, Busy
<1>1. CASE file[Item(w).path] # Absent
  <2>1. UNCHANGED file /\ (Fail(w) \/ Goto(w, "compare"))
    BY <1>1 DEF Open
  <2> QED BY <1>0, <2>1, FailKeeps, GotoKeeps
<1>2. CASE file[Item(w).path] = Absent
  <2> DEFINE path == Item(w).path
  <2>1. file' = [file EXCEPT ![path] = Torn] /\ Goto(w, "fill")
    BY <1>2 DEF Open
  <2>2. /\ writer[w].plan \in Plans
        /\ writer[w].next \in 1 .. Len(writer[w].plan)
        /\ path \in Paths
    BY <1>0, ItemTyped DEF IInv
  <2>3. /\ file \in [Paths -> Payloads \cup {Absent, Torn}]
        /\ writer \in [Writers -> [pc : Busy \cup {"idle", "done", "failed"},
                                   plan : Plans \cup {<<>>}, next : Nat]]
    BY DEF IInv, TypeOK
  <2>4. /\ \A v \in Writers \ {w} : writer'[v] = writer[v]
        /\ writer'[w].pc = "fill"
        /\ writer'[w].plan = writer[w].plan
        /\ writer'[w].next = writer[w].next
    BY <2>1, <2>3 DEF Goto
  <2>5. file'[path] = Torn /\ \A p \in Paths \ {path} : file'[p] = file[p]
    BY <2>1, <2>2, <2>3
  <2>6. Keeps
    BY <1>2, <2>2, <2>5, PayloadsAreNotGaps DEF Keeps
  <2>7. TypeOK'
    <3>1. writer' \in [Writers -> [pc : Busy \cup {"idle", "done", "failed"},
                                   plan : Plans \cup {<<>>}, next : Nat]]
      BY <2>1, <2>3 DEF Goto, Busy
    <3>2. file' \in [Paths -> Payloads \cup {Absent, Torn}]
      BY <2>1, <2>3
    <3> QED BY <2>2, <2>4, <3>1, <3>2 DEF IInv, TypeOK
  <2>8. \A v \in Writers : writer'[v].plan = writer[v].plan /\ writer'[v].next = writer[v].next
    BY <2>4
  <2>9. \A v \in Writers : Item(v)' = Item(v)
    BY <2>8 DEF Item
  <2>10. \A v \in Writers \ {w} : writer[v].pc = "fill" => Item(v).path \in Paths /\ Item(v).path # path
    <3> SUFFICES ASSUME NEW v \in Writers \ {w}, writer[v].pc = "fill"
                 PROVE  Item(v).path \in Paths /\ Item(v).path # path
      OBVIOUS
    <3>1. Item(v).path \in Paths
      BY ItemTyped DEF IInv, Busy
    <3>2. file[Item(v).path] = Torn
      BY DEF IInv, Holding
    <3> QED BY <1>2, <3>1, <3>2, PlansAssumption
  <2>11. Holding'
    BY <2>4, <2>5, <2>9, <2>10 DEF IInv, Holding
  <2>12. Apart'
    BY <2>4, <2>9, <2>10 DEF IInv, Apart
  <2>13. Passed(w)'
    <3> SUFFICES ASSUME NEW k \in 1 .. Len(writer[w].plan), k < writer[w].next
                 PROVE  file'[writer[w].plan[k].path] = writer[w].plan[k].payload
      BY <2>4 DEF Passed
    <3>1. file[writer[w].plan[k].path] = writer[w].plan[k].payload
      BY <1>0 DEF IInv, Behind, Passed
    <3> QED BY <2>2, <2>6, <3>1, KeepsWritten
  <2>14. Behind'
    BY <2>4, <2>6, <2>13, OthersBehind DEF Behind
  <2>15. ManifestCloses'
    <3> SUFFICES ASSUME NEW b \in Bundles \cup Legacy, file'[Last(b).path] = Last(b).payload,
                        NEW k \in 1 .. Len(b)
                 PROVE  file'[b[k].path] = b[k].payload
      BY DEF ManifestCloses, Written
    <3>1. b \in Plans
      BY DEF Plans
    <3>2. Last(b) \in [path : Paths, payload : Payloads]
      BY <3>1, PlanTyped
    <3>3. file[Last(b).path] = Last(b).payload
      BY <2>5, <3>2, PayloadsAreNotGaps
    <3>4. file[b[k].path] = b[k].payload
      BY <3>3 DEF IInv, ManifestCloses, Written
    <3> QED BY <2>6, <3>1, <3>4, KeepsWritten
  <2> QED BY <2>7, <2>11, <2>12, <2>14, <2>15 DEF IInv
<1> QED BY <1>1, <1>2

(* Who writes the manifest of a bundle writes that bundle, and it is the   *)
(* last file of it.                                                        *)
LEMMA OnlyItsPlan ==
  ASSUME NEW plan \in Plans, NEW n \in 1 .. Len(plan), NEW b \in Bundles \cup Legacy,
         plan[n].path = Last(b).path, plan[n].payload = Last(b).payload
  PROVE  plan = b /\ n = Len(b)
<1>1. b \in Plans
  BY DEF Plans
<1>2. /\ Len(plan) \in Nat \ {0} /\ Last(plan) = plan[Len(plan)]
      /\ plan[n] \in [path : Paths, payload : Payloads]
      /\ Last(b) \in [path : Paths, payload : Payloads]
  BY <1>1, PlanTyped
<1>3. plan[n] = Last(b)
  BY <1>2
<1>4. plan \notin Puts
  BY <1>2, PlansAssumption, ManifestAssumption
<1>5. plan \in Bundles \cup Legacy
  BY <1>4 DEF Plans
<1>6. Last(plan).path = Last(b).path
  BY <1>5, ManifestAssumption
<1>7. n = Len(plan)
  BY <1>2, <1>6, PlansAssumption
<1>8. Last(plan) = Last(b)
  BY <1>2, <1>3, <1>7
<1> QED BY <1>5, <1>7, <1>8, ManifestAssumption

LEMMA FillKeeps ==
  ASSUME IInv, NEW w \in Writers, Fill(w)
  PROVE  IInv'
<1> DEFINE path == Item(w).path
           payload == Item(w).payload
<1>0. writer[w].pc = "fill" /\ writer[w].pc \in Busy
  BY DEF Fill, Busy
<1>1. /\ writer[w].plan \in Plans
      /\ writer[w].next \in 1 .. Len(writer[w].plan)
      /\ path \in Paths /\ payload \in Payloads
  BY <1>0, ItemTyped DEF IInv
<1>2. file \in [Paths -> Payloads \cup {Absent, Torn}]
  BY DEF IInv, TypeOK
<1>3. file' = [file EXCEPT ![path] = payload] /\ Advance(w)
  BY DEF Fill
<1>4. file'[path] = payload /\ \A p \in Paths \ {path} : file'[p] = file[p]
  BY <1>1, <1>2, <1>3
<1>5. file[path] = Torn
  BY <1>0 DEF IInv, Holding
<1>6. Keeps
  BY <1>1, <1>4, <1>5, PayloadsAreNotGaps DEF Keeps
<1>7. Passed(w)'
  BY <1>0, <1>3, <1>4, <1>6, AdvanceOk
<1>8. file' \in [Paths -> Payloads \cup {Absent, Torn}]
  BY <1>1, <1>2, <1>3
<1>9. TypeOK'
  BY <1>0, <1>3, <1>8, AdvanceTypeOK
<1>10. /\ \A v \in Writers \ {w} : writer'[v] = writer[v]
       /\ writer'[w].pc # "fill"
  BY <1>0, <1>3, AdvanceTyped DEF IInv
<1>11. \A v \in Writers : writer'[v].pc = "fill" =>
         /\ v # w /\ writer[v].pc = "fill" /\ Item(v)' = Item(v)
         /\ Item(v).path \in Paths \ {path}
  <2> SUFFICES ASSUME NEW v \in Writers, writer'[v].pc = "fill"
               PROVE  /\ v # w /\ writer[v].pc = "fill" /\ Item(v)' = Item(v)
                      /\ Item(v).path \in Paths \ {path}
    OBVIOUS
  <2>1. v # w /\ writer'[v] = writer[v]
    BY <1>10
  <2>2. Item(v)' = Item(v)
    BY <2>1 DEF Item
  <2>3. Item(v).path \in Paths
    BY <2>1, ItemTyped DEF IInv, Busy
  <2> QED BY <1>0, <2>1, <2>2, <2>3 DEF IInv, Apart
<1>12. Holding'
  BY <1>4, <1>11 DEF IInv, Holding
<1>13. Apart'
  BY <1>11 DEF IInv, Apart
<1>14. Behind'
  BY <1>6, <1>7, <1>10, OthersBehind DEF Behind
<1>15. ManifestCloses'
  <2> SUFFICES ASSUME NEW b \in Bundles \cup Legacy, file'[Last(b).path] = Last(b).payload,
                      NEW k \in 1 .. Len(b)
               PROVE  file'[b[k].path] = b[k].payload
    BY DEF ManifestCloses, Written
  <2>1. b \in Plans
    BY DEF Plans
  <2>2. Last(b) \in [path : Paths, payload : Payloads]
    BY <2>1, PlanTyped
  <2>3. CASE Last(b).path # path
    <3>1. file[Last(b).path] = Last(b).payload
      BY <1>4, <2>2, <2>3
    <3>2. file[b[k].path] = b[k].payload
      BY <3>1 DEF IInv, ManifestCloses, Written
    <3> QED BY <1>6, <2>1, <3>2, KeepsWritten
  <2>4. CASE Last(b).path = path
    <3>1. payload = Last(b).payload
      BY <1>4, <2>4
    <3>2. writer[w].plan = b /\ writer[w].next = Len(b)
      BY <1>1, <2>4, <3>1, OnlyItsPlan DEF Item
    <3>3. writer'[w].pc = "done" /\ writer'[w].plan = b
      BY <1>0, <1>3, <3>2, AdvanceTyped DEF IInv
    <3> QED BY <1>7, <3>3 DEF Passed
  <2> QED BY <2>3, <2>4
<1> QED BY <1>9, <1>12, <1>13, <1>14, <1>15 DEF IInv

LEMMA NextInv == IInv /\ [Next]_vars => IInv'
<1> SUFFICES ASSUME IInv, [Next]_vars PROVE IInv'
  OBVIOUS
<1>1. CASE UNCHANGED vars
  BY <1>1 DEF vars, IInv, TypeOK, Holding, Apart, Behind, Passed, Item, ManifestCloses, Written
<1>2. CASE Next
  <2> PICK w \in Writers :
        Begin(w) \/ Scan(w) \/ Look(w) \/ Compare(w) \/ Open(w) \/ Fill(w) \/ Interrupt(w)
    BY <1>2 DEF Next
  <2>1. CASE Begin(w)
    BY <2>1, BeginKeeps
  <2>2. CASE Scan(w)
    BY <2>2, ScanKeeps
  <2>3. CASE Look(w)
    BY <2>3, LookKeeps
  <2>4. CASE Compare(w)
    BY <2>4, CompareKeeps
  <2>5. CASE Open(w)
    BY <2>5, OpenKeeps
  <2>6. CASE Fill(w)
    BY <2>6, FillKeeps
  <2>7. CASE Interrupt(w)
    BY <2>7, FailKeeps DEF Interrupt
  <2> QED BY <2>1, <2>2, <2>3, <2>4, <2>5, <2>6, <2>7
<1> QED BY <1>1, <1>2

(* The inductive invariant of the store.                                   *)
THEOREM InvariantHolds == Spec => []IInv
  BY InitInv, NextInv, PTL DEF Spec

(* Every file is absent, torn or one of the payloads, and a call is at a   *)
(* file of its plan (economics/data/storage.py:131-163).                   *)
THEOREM TypeCorrect == Spec => []TypeOK
<1>1. IInv => TypeOK
  BY DEF IInv
<1> QED BY <1>1, InvariantHolds, PTL

(* put and both bundle writers return only when every file they name is    *)
(* complete with its own payload, whoever writes, races or is killed       *)
(* meanwhile, and no later step takes that back (storage.py:131-163,       *)
(* dataset_v2.py:441-470, dataset.py:373-390).                             *)
THEOREM ReceiptsStayTrue == Spec => []ReceiptsAreTrue
<1>1. IInv => ReceiptsAreTrue
  <2> SUFFICES ASSUME IInv, NEW w \in Writers, writer[w].pc = "done"
               PROVE  Written(writer[w].plan)
    BY DEF ReceiptsAreTrue
  <2>1. Passed(w)
    BY DEF IInv, Behind
  <2> QED BY <2>1 DEF Passed, Written
<1> QED BY <1>1, InvariantHolds, PTL

(* A manifest on disk closes its bundle: all its files are complete and    *)
(* its own (dataset_v2.py:441-470, dataset.py:373-390).                    *)
THEOREM ManifestsClose == Spec => []ManifestCloses
<1>1. IInv => ManifestCloses
  BY DEF IInv
<1> QED BY <1>1, InvariantHolds, PTL

-----------------------------------------------------------------------------
(***************************************************************************)
(* Files: what a plan holds, and what a complete file can be.              *)
(***************************************************************************)
Has(name) == Range(Ledgers(Candidates[name].schema)) \cup {"manifest"}

LEMMA LedgersAre ==
  /\ Ledgers("v2") = <<"series", "observations-v2", "events", "evidence", "inventory">>
  /\ Ledgers("v1") = <<"series", "observations", "inventory">>
  /\ Range(Ledgers("v2")) = {"series", "observations-v2", "events", "evidence", "inventory"}
  /\ Range(Ledgers("v1")) = {"series", "observations", "inventory"}
<1>1. /\ Ledgers("v2") = <<"series", "observations-v2", "events", "evidence", "inventory">>
      /\ Ledgers("v1") = <<"series", "observations", "inventory">>
  BY DEF Ledgers
<1> DEFINE two == <<"series", "observations-v2", "events", "evidence", "inventory">>
           one == <<"series", "observations", "inventory">>
<1>2. /\ DOMAIN two = {1, 2, 3, 4, 5} /\ two[1] = "series" /\ two[2] = "observations-v2"
      /\ two[3] = "events" /\ two[4] = "evidence" /\ two[5] = "inventory"
  OBVIOUS
<1>3. DOMAIN one = {1, 2, 3} /\ one[1] = "series" /\ one[2] = "observations" /\ one[3] = "inventory"
  OBVIOUS
<1> HIDE DEF one, two
<1>4. Range(two) = {"series", "observations-v2", "events", "evidence", "inventory"}
  BY <1>2 DEF Range
<1>5. Range(one) = {"series", "observations", "inventory"}
  BY <1>3 DEF Range
<1> QED BY <1>1, <1>4, <1>5 DEF one, two

LEMMA LedgerSeq ==
  ASSUME NEW schema \in {"v1", "v2"}
  PROVE  LET lines == Ledgers(schema)
         IN  /\ lines \in Seq(Range(lines)) /\ Len(lines) \in Nat /\ Len(lines) > 0
             /\ \A k \in 1 .. Len(lines) : lines[k] \in Range(lines)
<1> DEFINE two == <<"series", "observations-v2", "events", "evidence", "inventory">>
           one == <<"series", "observations", "inventory">>
<1>1. /\ two \in Seq({"series", "observations-v2", "events", "evidence", "inventory"})
      /\ Len(two) = 5
  OBVIOUS
<1>2. one \in Seq({"series", "observations", "inventory"}) /\ Len(one) = 3
  OBVIOUS
<1> HIDE DEF one, two
<1>3. Ledgers("v2") \in Seq(Range(Ledgers("v2"))) /\ Len(Ledgers("v2")) = 5
  BY <1>1, LedgersAre DEF two
<1>4. Ledgers("v1") \in Seq(Range(Ledgers("v1"))) /\ Len(Ledgers("v1")) = 3
  BY <1>2, LedgersAre DEF one
<1> DEFINE lines == Ledgers(schema)
<1>5. lines \in Seq(Range(lines)) /\ Len(lines) \in Nat /\ Len(lines) > 0
  <2>1. CASE schema = "v2"
    <3>1. lines = Ledgers("v2")
      BY <2>1
    <3> HIDE DEF lines
    <3> QED BY <1>3, <3>1
  <2>2. CASE schema = "v1"
    <3>1. lines = Ledgers("v1")
      BY <2>2
    <3> HIDE DEF lines
    <3> QED BY <1>4, <3>1
  <2> QED BY <2>1, <2>2
<1> HIDE DEF lines
<1>6. \A k \in 1 .. Len(lines) : lines[k] \in Range(lines)
  BY <1>5, SequenceTyped
<1> QED BY <1>5, <1>6 DEF lines

LEMMA SchemasAre ==
  ASSUME NEW name \in Admitted
  PROVE  name \in DOMAIN Candidates /\ Candidates[name].schema \in {"v1", "v2"}
BY RowsAssumption DEF Admitted

LEMMA TabulatedIs == \A f : Tabulated(f) = f
BY DEF Tabulated

\* The first candidate with the same content has that content.
First(name, ledger) ==
  CHOOSE other \in Admitted :
    /\ ledger \in Has(other)
    /\ Content(Candidates[other], ledger) = Content(Candidates[name], ledger)

LEMMA BytesOfIs ==
  /\ DOMAIN BytesOf = Admitted
  /\ \A name \in Admitted :
       /\ DOMAIN BytesOf[name] = Has(name)
       /\ \A ledger \in Has(name) :
            BytesOf[name][ledger] = [ledger |-> ledger, of |-> First(name, ledger)]
<1> DEFINE row(name) == [ledger \in Has(name) |-> [ledger |-> ledger, of |-> First(name, ledger)]]
<1>1. BytesOf = Tabulated([name \in Admitted |-> Tabulated(row(name))])
  BY DEF BytesOf, Has, First
<1>2. \A name : Tabulated(row(name)) = row(name)
  BY TabulatedIs
<1> HIDE DEF row
<1>3. BytesOf = [name \in Admitted |-> row(name)]
  BY <1>1, <1>2, TabulatedIs
<1> QED BY <1>3 DEF row

LEMMA BytesAre ==
  ASSUME NEW name \in Admitted, NEW ledger \in Has(name)
  PROVE  \E other \in Admitted :
           /\ BytesOf[name][ledger] = [ledger |-> ledger, of |-> other]
           /\ ledger \in Has(other)
           /\ Content(Candidates[other], ledger) = Content(Candidates[name], ledger)
<1> DEFINE Fits(other) ==
             /\ ledger \in Has(other)
             /\ Content(Candidates[other], ledger) = Content(Candidates[name], ledger)
<1>1. BytesOf[name][ledger] = [ledger |-> ledger, of |-> First(name, ledger)]
  BY BytesOfIs
<1>2. Fits(name) /\ First(name, ledger) = CHOOSE other \in Admitted : Fits(other)
  BY DEF First
<1> HIDE DEF Fits
<1>3. First(name, ledger) \in Admitted /\ Fits(First(name, ledger))
  BY <1>2
<1> QED BY <1>1, <1>3 DEF Fits

LEMMA SetToSeqIs ==
  ASSUME NEW S, IsFiniteSet(S)
  PROVE  /\ SetToSeq(S) \in [1 .. Cardinality(S) -> S]
         /\ Cardinality(S) \in Nat
         /\ \A x \in S : \E k \in 1 .. Cardinality(S) : SetToSeq(S)[k] = x
<1> DEFINE n == Cardinality(S)
<1>1. n \in Nat /\ ExistsBijection(1 .. n, S)
  BY FS_CardinalityType
<1>2. \E f \in [1 .. n -> S] : IsInjective(f)
  BY <1>1 DEF ExistsBijection, Bijection, Injection
<1>3. SetToSeq(S) \in [1 .. n -> S] /\ IsInjective(SetToSeq(S))
  BY <1>2 DEF SetToSeq
<1>4. Cardinality(1 .. n) = n
  BY <1>1, FS_Interval
<1>5. SetToSeq(S) \in Injection(1 .. n, S)
  BY <1>3 DEF Injection
<1>6. SetToSeq(S) \in Surjection(1 .. n, S)
  BY <1>4, <1>5, FS_Injection
<1> QED BY <1>1, <1>3, <1>6 DEF Surjection

LEMMA Concatenated ==
  ASSUME NEW S, NEW s \in Seq(S), NEW t \in Seq(S), Len(t) > 0
  PROVE  /\ s \o t \in Seq(S) /\ Len(s \o t) = Len(s) + Len(t)
         /\ \A k \in 1 .. Len(s \o t) :
              \/ k \in 1 .. Len(s) /\ (s \o t)[k] = s[k]
              \/ k - Len(s) \in 1 .. Len(t) /\ (s \o t)[k] = t[k - Len(s)]
         /\ \A k \in 1 .. Len(s) : (s \o t)[k] = s[k]
         /\ (s \o t)[Len(s \o t)] = t[Len(t)]
OBVIOUS

\* What the files of a bundle are.
LEMMA PlanIs ==
  ASSUME NEW name \in Admitted
  PROVE  LET plan == PlanOf(name)
             d == Candidates[name]
         IN  /\ Last(plan) = FileOf("manifest", BytesOf[name]["manifest"])
             /\ \A k \in 1 .. Len(plan) :
                  \/ \E receipt \in d.inventory :
                       plan[k] = FileOf(receipt.path, Raw(receipt.digest))
                  \/ \E ledger \in Has(name) : plan[k] = FileOf(ledger, BytesOf[name][ledger])
             /\ Len(plan) > 0
             /\ \A receipt \in d.inventory : \E k \in 1 .. Len(plan) :
                  plan[k] = FileOf(receipt.path, Raw(receipt.digest))
<1> DEFINE d == Candidates[name]
           receipts == SetToSeq(d.inventory)
           ledgers == Append(Ledgers(d.schema), "manifest")
           paths == {receipt.path : receipt \in d.inventory} \cup Has(name)
           payloads == {Raw(receipt.digest) : receipt \in d.inventory}
                         \cup {BytesOf[name][ledger] : ledger \in Has(name)}
           PlanFile == [path : paths, payload : payloads]
           raw == [k \in DOMAIN receipts |-> FileOf(receipts[k].path, Raw(receipts[k].digest))]
           rest == [k \in DOMAIN ledgers |-> FileOf(ledgers[k], BytesOf[name][ledgers[k]])]
           plan == PlanOf(name)
<1>1. IsFiniteSet(d.inventory) /\ d.schema \in {"v1", "v2"}
  BY RowsAssumption DEF Admitted
<1>2. /\ receipts \in [1 .. Cardinality(d.inventory) -> d.inventory] /\ Cardinality(d.inventory) \in Nat
      /\ \A receipt \in d.inventory : \E k \in 1 .. Cardinality(d.inventory) : receipts[k] = receipt
  BY <1>1, SetToSeqIs
<1>3. plan = raw \o rest
  BY DEF PlanOf
<1>4. \E n \in Nat : /\ n > 0 /\ DOMAIN ledgers = 1 .. n
                     /\ \A k \in 1 .. n : ledgers[k] \in Has(name)
                     /\ ledgers[n] = "manifest"
  <2> DEFINE lines == Ledgers(d.schema)
  <2>1. /\ lines \in Seq(Range(lines)) /\ Len(lines) \in Nat
        /\ \A k \in 1 .. Len(lines) : lines[k] \in Range(lines)
    BY <1>1, LedgerSeq
  <2>2. Has(name) = Range(lines) \cup {"manifest"} /\ ledgers = Append(lines, "manifest")
    BY DEF Has
  <2> HIDE DEF lines, ledgers
  <2>3. /\ DOMAIN ledgers = 1 .. (Len(lines) + 1)
        /\ \A k \in 1 .. Len(lines) : ledgers[k] = lines[k]
        /\ ledgers[Len(lines) + 1] = "manifest"
    BY <2>1, <2>2
  <2>4. \A k \in 1 .. (Len(lines) + 1) : ledgers[k] \in Has(name)
    <3> SUFFICES ASSUME NEW k \in 1 .. (Len(lines) + 1) PROVE ledgers[k] \in Has(name)
      OBVIOUS
    <3>1. k \in 1 .. Len(lines) \/ k = Len(lines) + 1
      BY <2>1
    <3> QED BY <2>1, <2>2, <2>3, <3>1
  <2>5. Len(lines) + 1 \in Nat /\ Len(lines) + 1 > 0
    BY <2>1
  <2> QED BY <2>3, <2>4, <2>5
<1>5. PICK n \in Nat : /\ n > 0 /\ DOMAIN ledgers = 1 .. n
                       /\ \A k \in 1 .. n : ledgers[k] \in Has(name)
                       /\ ledgers[n] = "manifest"
  BY <1>4
<1> DEFINE m == Cardinality(d.inventory)
<1> HIDE DEF receipts, ledgers, d, m
<1>6. /\ raw \in Seq(PlanFile) /\ Len(raw) = m /\ m \in Nat
      /\ \A k \in 1 .. m : raw[k] = FileOf(receipts[k].path, Raw(receipts[k].digest))
  <2>1. DOMAIN raw = 1 .. m /\ m \in Nat
    BY <1>2 DEF m
  <2>2. \A k \in 1 .. m : receipts[k] \in d.inventory
    BY <1>2 DEF m
  <2>3. \A k \in 1 .. m : raw[k] = FileOf(receipts[k].path, Raw(receipts[k].digest))
    BY <2>1
  <2>4. \A k \in 1 .. m : raw[k] \in PlanFile
    <3> SUFFICES ASSUME NEW k \in 1 .. m PROVE raw[k] \in PlanFile
      OBVIOUS
    <3>1. raw[k] = FileOf(receipts[k].path, Raw(receipts[k].digest))
      BY <2>3
    <3>2. receipts[k] \in d.inventory
      BY <2>2
    <3>3. receipts[k].path \in paths /\ Raw(receipts[k].digest) \in payloads
      BY <3>2
    <3> HIDE DEF paths, payloads
    <3> QED BY <3>1, <3>3 DEF FileOf
  <2> HIDE DEF PlanFile
  <2>5. raw \in [1 .. m -> PlanFile]
    BY <2>1, <2>4
  <2> HIDE DEF raw
  <2> QED BY <2>1, <2>3, <2>5
<1>7. /\ rest \in Seq(PlanFile) /\ Len(rest) = n
      /\ \A k \in 1 .. n : rest[k] = FileOf(ledgers[k], BytesOf[name][ledgers[k]])
  <2>1. DOMAIN rest = 1 .. n
    BY <1>5
  <2>2. \A k \in 1 .. n : rest[k] = FileOf(ledgers[k], BytesOf[name][ledgers[k]])
    BY <2>1
  <2>3. \A k \in 1 .. n : rest[k] \in PlanFile
    BY <1>5, <2>2 DEF FileOf
  <2> HIDE DEF PlanFile
  <2>4. rest \in [1 .. n -> PlanFile]
    BY <2>1, <2>3
  <2> HIDE DEF rest
  <2> QED BY <2>1, <2>2, <2>4
<1> HIDE DEF PlanFile, raw, rest, plan
<1>8. /\ Len(plan) = m + n
      /\ \A k \in 1 .. Len(plan) : \/ k \in 1 .. m /\ plan[k] = raw[k]
                                   \/ k - m \in 1 .. n /\ plan[k] = rest[k - m]
      /\ \A k \in 1 .. m : plan[k] = raw[k]
      /\ plan[Len(plan)] = rest[n]
  <2>1. /\ Len(raw \o rest) = Len(raw) + Len(rest)
        /\ \A k \in 1 .. Len(raw \o rest) :
             \/ k \in 1 .. Len(raw) /\ (raw \o rest)[k] = raw[k]
             \/ k - Len(raw) \in 1 .. Len(rest) /\ (raw \o rest)[k] = rest[k - Len(raw)]
        /\ \A k \in 1 .. Len(raw) : (raw \o rest)[k] = raw[k]
        /\ (raw \o rest)[Len(raw \o rest)] = rest[Len(rest)]
    BY <1>5, <1>6, <1>7, Concatenated
  <2>2. plan = raw \o rest /\ Len(raw) = m /\ Len(rest) = n
    BY <1>3, <1>6, <1>7
  <2>3. Len(plan) = m + n /\ plan[Len(plan)] = rest[n]
    BY <2>1, <2>2
  <2>4. \A k \in 1 .. m : plan[k] = raw[k]
    BY <2>1, <2>2
  <2>5. \A k \in 1 .. Len(plan) : \/ k \in 1 .. m /\ plan[k] = raw[k]
                                  \/ k - m \in 1 .. n /\ plan[k] = rest[k - m]
    BY <2>1, <2>2
  <2> QED BY <2>3, <2>4, <2>5
<1>9. Last(plan) = FileOf("manifest", BytesOf[name]["manifest"])
  BY <1>5, <1>7, <1>8 DEF Last
<1>10. \A k \in 1 .. m : \E receipt \in d.inventory : raw[k] = FileOf(receipt.path, Raw(receipt.digest))
  BY <1>2, <1>6 DEF m
<1>11. \A k \in 1 .. n : \E ledger \in Has(name) : rest[k] = FileOf(ledger, BytesOf[name][ledger])
  BY <1>5, <1>7
<1>12. Len(plan) > 0
  BY <1>5, <1>6, <1>8
<1>13. \A receipt \in d.inventory : \E k \in 1 .. Len(plan) :
         plan[k] = FileOf(receipt.path, Raw(receipt.digest))
  <2> SUFFICES ASSUME NEW receipt \in d.inventory
               PROVE  \E k \in 1 .. Len(plan) : plan[k] = FileOf(receipt.path, Raw(receipt.digest))
    OBVIOUS
  <2>1. PICK k \in 1 .. m : receipts[k] = receipt
    BY <1>2 DEF m
  <2>2. plan[k] = FileOf(receipt.path, Raw(receipt.digest)) /\ k \in 1 .. Len(plan)
    BY <1>5, <1>6, <1>8, <2>1
  <2> QED BY <2>2
<1> QED BY <1>8, <1>9, <1>10, <1>11, <1>12, <1>13 DEF plan, d

\* A file that is read by name is that file of a dataset that was written.
LEMMA LedgerItem ==
  ASSUME NEW plan \in Plans, NEW k \in 1 .. Len(plan), plan[k].path \in LedgerFiles
  PROVE  \E name \in Admitted :
           /\ plan = PlanOf(name) /\ plan[k].path \in Has(name)
           /\ plan[k].payload = BytesOf[name][plan[k].path]
<1>1. ASSUME plan \in Puts PROVE FALSE
  <2>1. k = 1 /\ plan[k].path \in RawPaths
    BY <1>1, PlansAssumption DEF RawPaths
  <2> QED BY <2>1, LayoutAssumption
<1>2. PICK name \in Admitted : plan = PlanOf(name)
  BY <1>1, CandidatesAssumption DEF Plans, PlansOf
<1>3. ASSUME NEW receipt \in Candidates[name].inventory,
             plan[k] = FileOf(receipt.path, Raw(receipt.digest))
      PROVE  FALSE
  <2>1. plan[k].path = receipt.path
    BY <1>3 DEF FileOf
  <2>2. receipt.path \in RawPaths
    BY DEF RawPaths
  <2> QED BY <2>1, <2>2, LayoutAssumption
<1>4. PICK ledger \in Has(name) : plan[k] = FileOf(ledger, BytesOf[name][ledger])
  BY <1>2, <1>3, PlanIs
<1> QED BY <1>2, <1>4 DEF FileOf

-----------------------------------------------------------------------------
(***************************************************************************)
(* Readers: every file that a reader took for complete is one of a dataset *)
(* that was written, in the order in which the files are read.             *)
(***************************************************************************)

\* What a file of that name can be.
Lines(ledger) == {BytesOf[name][ledger] : name \in {n \in Admitted : ledger \in Has(n)}}
AnyLines == UNION {Lines(ledger) : ledger \in LedgerFiles}

(* A complete file is a file of a plan.                                    *)
FilesKnown ==
  \A p \in Paths : file[p] \in Payloads =>
    \E plan \in Plans : \E k \in 1 .. Len(plan) :
      plan[k].path = p /\ plan[k].payload = file[p]

Gathers == {"build", "bytes", "manifest", "replayed", "verified"}
CallType ==
  [pc : Gathers \cup {"idle", "load", "refused"}, schema : {"v1", "v2"},
   got : Seq(AnyLines), next : Nat]
Gathered(call) ==
  /\ \A k \in 1 .. Len(call.got) :
       k \in 1 .. Len(Ledgers(call.schema)) /\ call.got[k] \in Lines(Ledgers(call.schema)[k])
  /\ call.pc = "load" =>
       Len(call.got) = call.next - 1 /\ call.next \in 1 .. Len(Ledgers(call.schema))
  /\ call.pc \in Gathers => Len(call.got) = Len(Ledgers(call.schema))
  /\ call.pc = "bytes" => call.next \in 1 .. Len(call.got)
ReadersOK == reader \in [Readers -> CallType] /\ \A r \in Readers : Gathered(reader[r])

FInv == IInv /\ FilesKnown /\ ReadersOK /\ ReplayIsWhole

LEMMA FilesMove ==
  ASSUME IInv, Next
  PROVE  \/ UNCHANGED file
         \/ \E p \in Paths : file[p] \notin Payloads /\ file' = [file EXCEPT ![p] = Torn]
         \/ \E plan \in Plans : \E k \in 1 .. Len(plan) :
              /\ file[plan[k].path] \notin Payloads
              /\ file' = [file EXCEPT ![plan[k].path] = plan[k].payload]
<1> PICK w \in Writers :
      Begin(w) \/ Scan(w) \/ Look(w) \/ Compare(w) \/ Open(w) \/ Fill(w) \/ Interrupt(w)
  BY DEF Next
<1>1. CASE Begin(w) \/ Scan(w) \/ Look(w) \/ Compare(w) \/ Interrupt(w)
  BY <1>1 DEF Begin, Scan, Look, Compare, Interrupt
<1>2. CASE Open(w)
  <2>1. CASE file[Item(w).path] = Absent
    <3>1. writer[w].pc \in Busy
      BY <1>2 DEF Open, Busy
    <3>2. Item(w).path \in Paths
      BY <3>1, ItemTyped DEF IInv
    <3> QED BY <1>2, <2>1, <3>2, PlansAssumption DEF Open
  <2>2. CASE file[Item(w).path] # Absent
    BY <1>2, <2>2 DEF Open
  <2> QED BY <2>1, <2>2
<1>3. CASE Fill(w)
  <2>1. writer[w].pc = "fill" /\ writer[w].pc \in Busy
    BY <1>3 DEF Fill, Busy
  <2>2. writer[w].plan \in Plans /\ writer[w].next \in 1 .. Len(writer[w].plan)
    BY <2>1, ItemTyped DEF IInv
  <2>3. file[Item(w).path] \notin Payloads
    BY <2>1, PlansAssumption DEF IInv, Holding
  <2>4. file' = [file EXCEPT ![Item(w).path] = Item(w).payload]
    BY <1>3 DEF Fill
  <2> QED BY <2>2, <2>3, <2>4 DEF Item
<1> QED BY <1>1, <1>2, <1>3

LEMMA FilesKept ==
  ASSUME IInv, FilesKnown, Next
  PROVE  Keeps /\ FilesKnown'
<1>0. file \in [Paths -> Payloads \cup {Absent, Torn}] /\ Torn \notin Payloads
  BY PlansAssumption DEF IInv, TypeOK
<1>1. CASE UNCHANGED file
  BY <1>1 DEF Keeps, FilesKnown
<1>2. ASSUME NEW p \in Paths, file[p] \notin Payloads, file' = [file EXCEPT ![p] = Torn]
      PROVE  Keeps /\ FilesKnown'
  <2>1. file'[p] = Torn /\ \A q \in Paths \ {p} : file'[q] = file[q]
    BY <1>0, <1>2
  <2>2. Keeps
    BY <1>2, <2>1 DEF Keeps
  <2>3. FilesKnown'
    BY <1>0, <2>1 DEF FilesKnown
  <2> QED BY <2>2, <2>3
<1>3. ASSUME NEW plan \in Plans, NEW k \in 1 .. Len(plan), file[plan[k].path] \notin Payloads,
             file' = [file EXCEPT ![plan[k].path] = plan[k].payload]
      PROVE  Keeps /\ FilesKnown'
  <2>1. plan[k].path \in Paths
    BY PlanTyped
  <2>2. /\ file'[plan[k].path] = plan[k].payload
        /\ \A q \in Paths \ {plan[k].path} : file'[q] = file[q]
    BY <1>0, <1>3, <2>1
  <2>3. Keeps
    BY <1>3, <2>2 DEF Keeps
  <2>4. FilesKnown'
    BY <2>2 DEF FilesKnown
  <2> QED BY <2>3, <2>4
<1> QED BY <1>1, <1>2, <1>3, FilesMove

\* A complete file by a name of the bundle.
LEMMA LedgerFile ==
  ASSUME IInv, FilesKnown, NEW p \in LedgerFiles, file[p] \notin {Absent, Torn}
  PROVE  \E name \in Admitted :
           /\ p \in Has(name) /\ file[p] = BytesOf[name][p] /\ PlanOf(name) \in Plans
<1>1. p \in Paths /\ file[p] \in Payloads
  BY LayoutAssumption DEF IInv, TypeOK
<1>2. PICK plan \in Plans : \E k \in 1 .. Len(plan) :
        plan[k].path = p /\ plan[k].payload = file[p]
  BY <1>1 DEF FilesKnown
<1>3. PICK k \in 1 .. Len(plan) : plan[k].path = p /\ plan[k].payload = file[p]
  BY <1>2
<1> QED BY <1>3, LedgerItem

LEMMA ReadingsAre ==
  ASSUME IInv, FilesKnown, NEW p \in Range(Ledgers("v1")) \cup Range(Ledgers("v2")),
         NEW payload \in Readings(p), payload \notin {Absent, Torn}
  PROVE  payload \in Lines(p)
<1>1. CASE payload = file[p]
  BY <1>1, LedgerFile DEF Lines, LedgerFiles
<1>2. CASE payload \in Parts[p]
  <2>1. Parts[p] \subseteq {BytesOf[name][p] : name \in {n \in Admitted : p \in DOMAIN BytesOf[n]}}
    BY TabulatedIs DEF Parts
  <2> QED BY <1>2, <2>1, BytesOfIs DEF Lines
<1> QED BY <1>1, <1>2 DEF Readings

\* Two reads of a reader that does not move agree, and so do the datasets.
LEMMA LoadedSame ==
  ASSUME NEW q \in Readers, reader'[q] = reader[q]
  PROVE  Loaded(q)' = Loaded(q) /\ \A name : Same(q, name)' = Same(q, name)
BY DEF Loaded, Loaded1, Loaded2, Rows, Same

LEMMA WrittenKept ==
  ASSUME Keeps, NEW plan \in Plans, Written(plan)
  PROVE  Written(plan)'
BY KeepsWritten DEF Written

LEMMA AdmittedPlans ==
  ASSUME NEW name \in Admitted
  PROVE  PlanOf(name) \in Bundles \cup Legacy
BY SchemasAre, CandidatesAssumption DEF PlansOf

LEMMA WriterSteps ==
  ASSUME FInv, [Next]_vars, UNCHANGED reader
  PROVE  FInv'
<1>1. IInv'
  BY NextInv DEF FInv
<1>2. Keeps /\ FilesKnown'
  <2>1. CASE UNCHANGED vars
    BY <2>1 DEF vars, Keeps, FInv, FilesKnown
  <2>2. CASE Next
    BY <2>2, FilesKept DEF FInv
  <2> QED BY <2>1, <2>2
<1>3. ReadersOK'
  BY DEF FInv, ReadersOK
<1>4. ReplayIsWhole'
  <2> SUFFICES ASSUME NEW r \in Readers, Accepted(r)'
               PROVE  \E name \in Admitted : Same(r, name)' /\ Written(PlanOf(name))'
    BY DEF ReplayIsWhole
  <2>1. PICK name \in Admitted : Same(r, name) /\ Written(PlanOf(name))
    BY DEF FInv, ReplayIsWhole, Accepted
  <2>2. PlanOf(name) \in Plans
    BY AdmittedPlans DEF Plans
  <2> QED BY <1>2, <2>1, <2>2, LoadedSame, WrittenKept
<1> QED BY <1>1, <1>2, <1>3, <1>4 DEF FInv

\* A step of a reader.
LEMMA ReaderStep ==
  ASSUME FInv, NEW r \in Readers, UNCHANGED <<file, writer>>, NEW call \in CallType,
         reader' = [reader EXCEPT ![r] = call], Gathered(call),
         Accepted(r)' => \E name \in Admitted : Same(r, name)' /\ Written(PlanOf(name))'
  PROVE  FInv'
<1>1. IInv' /\ FilesKnown'
  BY DEF FInv, IInv, TypeOK, Holding, Apart, Behind, Passed, Item, ManifestCloses, Written,
         FilesKnown
<1>2. /\ reader' \in [Readers -> CallType] /\ reader'[r] = call
      /\ \A q \in Readers \ {r} : reader'[q] = reader[q]
  BY DEF FInv, ReadersOK
<1>3. ReadersOK'
  BY <1>2 DEF FInv, ReadersOK
<1>4. ReplayIsWhole'
  <2> SUFFICES ASSUME NEW q \in Readers, q # r, Accepted(q)'
               PROVE  \E name \in Admitted : Same(q, name)' /\ Written(PlanOf(name))'
    BY DEF ReplayIsWhole
  <2>1. reader'[q] = reader[q]
    BY <1>2
  <2>2. PICK name \in Admitted : Same(q, name) /\ Written(PlanOf(name))
    BY <2>1 DEF FInv, ReplayIsWhole, Accepted
  <2>3. Written(PlanOf(name))'
    BY <2>2 DEF Written
  <2> QED BY <2>1, <2>2, <2>3, LoadedSame
<1> QED BY <1>1, <1>3, <1>4 DEF FInv

LEMMA CallTyped ==
  ASSUME FInv, NEW r \in Readers
  PROVE  reader[r] \in CallType /\ Gathered(reader[r])
BY DEF FInv, ReadersOK

\* Moving on without a verdict, or with a refusal.
LEMMA MoveKeeps ==
  ASSUME FInv, NEW r \in Readers, UNCHANGED <<file, writer>>,
         NEW point \in Gathers \cup {"refused"}, Move(r, point),
         reader[r].pc \in Gathers \/ point = "refused",
         point \in {"replayed", "verified"} =>
           \E name \in Admitted : Same(r, name) /\ Written(PlanOf(name))
  PROVE  FInv'
<1> DEFINE call == [reader[r] EXCEPT !.pc = point, !.next = 1]
<1>1. reader[r] \in CallType /\ Gathered(reader[r])
  BY CallTyped
<1>2. reader' = [reader EXCEPT ![r] = call]
  BY DEF Move
<1>3. /\ call \in CallType /\ call.pc = point /\ call.next = 1
      /\ call.got = reader[r].got /\ call.schema = reader[r].schema
  BY <1>1 DEF CallType
<1>4. Len(Ledgers(call.schema)) > 0 /\ Len(Ledgers(call.schema)) \in Nat
  BY <1>3, LedgerSeq DEF CallType
<1>5. reader'[r] = call
  BY <1>2, <1>3 DEF FInv, ReadersOK
<1> HIDE DEF call
<1>6. Gathered(call)
  BY <1>1, <1>3, <1>4 DEF Gathered, Gathers
<1>7. Accepted(r)' => \E name \in Admitted : Same(r, name)' /\ Written(PlanOf(name))'
  <2> SUFFICES ASSUME Accepted(r)'
               PROVE  \E name \in Admitted : Same(r, name)' /\ Written(PlanOf(name))'
    OBVIOUS
  <2>1. point \in {"replayed", "verified"}
    BY <1>3, <1>5 DEF Accepted
  <2>2. PICK name \in Admitted : Same(r, name) /\ Written(PlanOf(name))
    BY <2>1
  <2>3. Same(r, name)'
    BY <1>3, <1>5, <2>2 DEF Loaded, Loaded1, Loaded2, Rows, Same
  <2>4. Written(PlanOf(name))'
    BY <2>2 DEF Written
  <2> QED BY <2>3, <2>4
<1> QED BY <1>2, <1>3, <1>6, <1>7, ReaderStep

LEMMA BeginReplayKeeps ==
  ASSUME FInv, NEW r \in Readers, BeginReplay(r)
  PROVE  FInv'
<1>1. PICK schema \in {"v1", "v2"} :
        reader' = [reader EXCEPT ![r] = [NotReading EXCEPT !.pc = "load", !.schema = schema]]
  BY DEF BeginReplay
<1> DEFINE call == [NotReading EXCEPT !.pc = "load", !.schema = schema]
<1>2. reader' = [reader EXCEPT ![r] = call]
  BY <1>1
<1>3. /\ call \in CallType /\ call.pc = "load" /\ call.got = <<>> /\ call.next = 1
      /\ call.schema = schema
  <2>1. NotReading \in CallType /\ NotReading.got = <<>> /\ NotReading.next = 1
    BY DEF NotReading, CallType
  <2> QED BY <2>1 DEF CallType
<1>4. reader'[r] = call
  BY <1>2 DEF FInv, ReadersOK
<1> HIDE DEF call
<1>5. Len(call.got) = 0 /\ Len(Ledgers(schema)) > 0 /\ Len(Ledgers(schema)) \in Nat
  BY <1>3, LedgerSeq
<1>6. Gathered(call)
  BY <1>3, <1>5 DEF Gathered, Gathers
<1>7. ~ Accepted(r)'
  BY <1>3, <1>4 DEF Accepted
<1> QED BY <1>2, <1>3, <1>6, <1>7, ReaderStep DEF BeginReplay

LEMMA LoadLedgerKeeps ==
  ASSUME FInv, NEW r \in Readers, LoadLedger(r)
  PROVE  FInv'
<1>1. PICK payload \in Readings(Ledger(r)) :
        IF ~Readable(payload) THEN Move(r, "refused")
        ELSE reader' = [reader EXCEPT
               ![r].got = Append(@, payload),
               ![r].pc = IF reader[r].next = Len(Ledgers(reader[r].schema)) THEN "build" ELSE @,
               ![r].next = @ + 1]
  BY DEF LoadLedger
<1>2. CASE ~ Readable(payload)
  BY <1>1, <1>2, MoveKeeps DEF LoadLedger
<1>3. CASE Readable(payload)
  <2> DEFINE old == reader[r]
             ledgers == Ledgers(old.schema)
             call == [old EXCEPT
                        !.got = Append(old.got, payload),
                        !.pc = IF old.next = Len(ledgers) THEN "build" ELSE "load",
                        !.next = old.next + 1]
  <2>1. old \in CallType /\ Gathered(old) /\ old.pc = "load"
    BY CallTyped DEF LoadLedger
  <2>2. reader' = [reader EXCEPT ![r] = call]
    BY <1>1, <1>3, <2>1
  <2>3. /\ old.schema \in {"v1", "v2"} /\ old.got \in Seq(AnyLines) /\ old.next \in Nat
    BY <2>1 DEF CallType
  <2>4. ledgers \in Seq(Range(ledgers)) /\ Len(ledgers) \in Nat
    BY <2>3, LedgerSeq
  <2>5. Len(old.got) = old.next - 1 /\ old.next \in 1 .. Len(ledgers)
    BY <2>1 DEF Gathered
  <2>6. ledgers[old.next] \in Range(Ledgers("v1")) \cup Range(Ledgers("v2"))
    <3>1. ledgers[old.next] \in Range(ledgers)
      BY <2>3, <2>5, LedgerSeq
    <3> HIDE DEF old
    <3> QED BY <2>3, <3>1
  <2>7. payload \in Lines(ledgers[old.next])
    BY <1>3, <2>6, ReadingsAre DEF Ledger, Readable, FInv
  <2>8. payload \in AnyLines
    BY <2>6, <2>7 DEF AnyLines, LedgerFiles
  <2>9. /\ call \in CallType /\ call.pc \in {"build", "load"}
        /\ call.schema = old.schema /\ call.got = Append(old.got, payload)
        /\ call.next = old.next + 1
        /\ call.pc = (IF old.next = Len(ledgers) THEN "build" ELSE "load")
    <3> DEFINE got == Append(old.got, payload)
               pc == IF old.next = Len(ledgers) THEN "build" ELSE "load"
    <3>1. got \in Seq(AnyLines) /\ old.next + 1 \in Nat
      BY <2>3, <2>8
    <3>2. pc \in {"build", "load"} /\ pc \in Gathers \cup {"idle", "load", "refused"}
      BY DEF Gathers
    <3>3. call = [old EXCEPT !.got = got, !.pc = pc, !.next = old.next + 1]
      OBVIOUS
    <3> HIDE DEF got, pc, old, call
    <3>4. /\ call \in CallType /\ call.pc = pc /\ call.schema = old.schema /\ call.got = got
          /\ call.next = old.next + 1
      BY <2>1, <2>3, <3>1, <3>2, <3>3 DEF CallType
    <3> QED BY <3>2, <3>4 DEF got, pc
  <2>10. reader'[r] = call
    BY <2>2 DEF FInv, ReadersOK
  <2> HIDE DEF call, old, ledgers
  <2>11. /\ Len(call.got) = old.next
         /\ \A k \in 1 .. old.next :
              \/ k \in 1 .. Len(old.got) /\ call.got[k] = old.got[k]
              \/ k = old.next /\ call.got[k] = payload
    BY <2>3, <2>5, <2>8, <2>9
  <2>12. \A k \in 1 .. Len(old.got) : k \in 1 .. Len(ledgers) /\ old.got[k] \in Lines(ledgers[k])
    BY <2>1 DEF Gathered, ledgers
  <2>13. \A k \in 1 .. Len(call.got) : k \in 1 .. Len(ledgers) /\ call.got[k] \in Lines(ledgers[k])
    BY <2>5, <2>7, <2>11, <2>12
  <2>14. Gathered(call)
    <3>1. Ledgers(call.schema) = ledgers
      BY <2>9 DEF ledgers
    <3>2. CASE old.next = Len(ledgers)
      BY <2>9, <2>11, <2>13, <3>1, <3>2 DEF Gathered, Gathers
    <3>3. CASE old.next # Len(ledgers)
      <4>1. call.pc = "load" /\ call.next \in 1 .. Len(ledgers) /\ Len(call.got) = call.next - 1
        BY <2>4, <2>5, <2>9, <2>11, <3>3
      <4> QED BY <2>13, <3>1, <4>1 DEF Gathered, Gathers
    <3> QED BY <3>2, <3>3
  <2>15. ~ Accepted(r)'
    BY <2>9, <2>10 DEF Accepted
  <2> QED BY <2>2, <2>9, <2>14, <2>15, ReaderStep DEF LoadLedger
<1> QED BY <1>2, <1>3

LEMMA RebuildKeeps ==
  ASSUME FInv, NEW r \in Readers, Rebuild(r)
  PROVE  FInv'
BY MoveKeeps DEF Rebuild, Gathers

LEMMA CompareBytesKeeps ==
  ASSUME FInv, NEW r \in Readers, CompareBytes(r)
  PROVE  FInv'
<1>1. PICK payload \in Readings(Ledger(r)) :
        IF payload # reader[r].got[reader[r].next] THEN Move(r, "refused")
        ELSE IF reader[r].next = Len(reader[r].got) THEN Move(r, "manifest")
        ELSE reader' = [reader EXCEPT ![r].next = @ + 1]
  BY DEF CompareBytes
<1>2. reader[r].pc = "bytes" /\ UNCHANGED <<file, writer>>
  BY DEF CompareBytes
<1>3. CASE Move(r, "refused") \/ Move(r, "manifest")
  BY <1>2, <1>3, MoveKeeps DEF Gathers
<1>4. CASE /\ reader[r].next # Len(reader[r].got)
           /\ reader' = [reader EXCEPT ![r].next = @ + 1]
  <2> DEFINE call == [reader[r] EXCEPT !.next = reader[r].next + 1]
  <2>1. reader[r] \in CallType /\ Gathered(reader[r])
    BY CallTyped
  <2>2. reader' = [reader EXCEPT ![r] = call]
    BY <1>4
  <2>3. /\ call \in CallType /\ call.pc = "bytes" /\ call.next = reader[r].next + 1
        /\ call.got = reader[r].got /\ call.schema = reader[r].schema
    BY <1>2, <2>1 DEF CallType
  <2>4. reader'[r] = call
    BY <2>2 DEF FInv, ReadersOK
  <2> HIDE DEF call
  <2>5. Len(reader[r].got) \in Nat /\ reader[r].next \in 1 .. Len(reader[r].got)
    BY <1>2, <2>1 DEF CallType, Gathered
  <2>6. call.next \in 1 .. Len(call.got)
    BY <1>4, <2>3, <2>5
  <2>7. Gathered(call)
    BY <1>2, <2>1, <2>3, <2>6 DEF Gathered, Gathers
  <2>8. ~ Accepted(r)'
    BY <2>3, <2>4 DEF Accepted
  <2> QED BY <1>2, <2>2, <2>3, <2>7, <2>8, ReaderStep
<1> QED BY <1>1, <1>3, <1>4

-----------------------------------------------------------------------------
\* What is kept to the millisecond once is kept so.
LEMMA MilliTwice ==
  ASSUME NEW t \in Nat \cup {None}
  PROVE  /\ ToMilli(t) \in Nat \cup {None} /\ ToMilli(ToMilli(t)) = ToMilli(t)
         /\ t # None => /\ ToMilli(t) \in Nat /\ ToMilli(t) <= t /\ t < ToMilli(t) + Milli
<1>1. CASE t = None
  BY <1>1 DEF ToMilli
<1>2. CASE t \in Nat
  <2> DEFINE q == t \div Milli
  <2>1. Milli \in Nat \ {0} /\ None \notin Nat
    BY TicksAssumption
  <2>2. q \in Nat
    BY <1>2, <2>1, Z3
  <2>3. q * Milli <= t /\ t < q * Milli + Milli
    BY <1>2, <2>1, Z3
  <2>4. q * Milli \in Nat
    BY <2>1, <2>2, Z3
  <2>5. (q * Milli) \div Milli = q
    BY <2>1, <2>2, Z3
  <2>6. ToMilli(t) = q * Milli
    BY <1>2, <2>1 DEF ToMilli
  <2> HIDE DEF q
  <2>7. ToMilli(ToMilli(t)) = q * Milli
    BY <2>1, <2>4, <2>5, <2>6 DEF ToMilli
  <2> QED BY <1>2, <2>1, <2>3, <2>4, <2>6, <2>7
<1> QED BY <1>1, <1>2

LEMMA SerialisedIs ==
  ASSUME NEW r, LegacyRowValid(r)
  PROVE  LET s == Serialised(r)
         IN  /\ Serialised(s) = s
             /\ s.at = ToMilli(r.at) /\ s.time = ToMilli(r.time) /\ s.series = r.series
<1> DEFINE s == Serialised(r)
           t == Serialised(s)
<1>1. /\ DOMAIN r = LegacyFields /\ r = [field \in LegacyFields |-> r[field]]
      /\ {r.at, r.time, r.retrieved} \subseteq Nat /\ r.vintage \in Nat \cup {None}
  BY DEF LegacyRowValid
<1>2. /\ DOMAIN s = LegacyFields /\ s = [field \in LegacyFields |-> s[field]]
      /\ s.at = ToMilli(r.at) /\ s.time = ToMilli(r.time) /\ s.vintage = ToMilli(r.vintage)
      /\ s.retrieved = ToMilli(r.retrieved)
      /\ \A field \in LegacyFields \ {"at", "time", "vintage", "retrieved"} : s[field] = r[field]
  BY <1>1 DEF Serialised, LegacyFields
<1> HIDE DEF s
<1>3. /\ DOMAIN t = LegacyFields /\ t = [field \in LegacyFields |-> t[field]]
      /\ t.at = ToMilli(s.at) /\ t.time = ToMilli(s.time) /\ t.vintage = ToMilli(s.vintage)
      /\ t.retrieved = ToMilli(s.retrieved)
      /\ \A field \in LegacyFields \ {"at", "time", "vintage", "retrieved"} : t[field] = s[field]
  BY <1>2 DEF Serialised, LegacyFields
<1> HIDE DEF t
<1>4. /\ t.at = s.at /\ t.time = s.time /\ t.vintage = s.vintage /\ t.retrieved = s.retrieved
  BY <1>1, <1>2, <1>3, MilliTwice
<1>5. \A field \in LegacyFields : t[field] = s[field]
  BY <1>3, <1>4
<1>6. t = s
  BY <1>2, <1>3, <1>5
<1>7. s.series = r.series
  BY <1>2 DEF LegacyFields
<1> QED BY <1>2, <1>6, <1>7 DEF s, t

\* The rows that a reader has read under a name of a ledger.
LEMMA RowsAre ==
  ASSUME FInv, NEW r \in Readers, reader[r].pc \in Gathers,
         NEW k \in 1 .. Len(Ledgers(reader[r].schema)), NEW ledger,
         ledger = Ledgers(reader[r].schema)[k]
  PROVE  \E name \in Admitted : ledger \in Has(name) /\ Rows(r, ledger) = Content(Candidates[name], ledger)
<1> DEFINE got == reader[r].got
           Found(n) == got[n].ledger = ledger
           n == CHOOSE i \in DOMAIN got : Found(i)
<1>1. reader[r] \in CallType /\ Gathered(reader[r])
  BY CallTyped
<1>2. /\ got \in Seq(AnyLines) /\ DOMAIN got = 1 .. Len(got)
      /\ Len(got) = Len(Ledgers(reader[r].schema))
  BY <1>1 DEF CallType, Gathered
<1>3. ASSUME NEW i \in DOMAIN got
      PROVE  \E name, other \in Admitted :
               /\ got[i] = [ledger |-> Ledgers(reader[r].schema)[i], of |-> other]
               /\ Ledgers(reader[r].schema)[i] \in Has(other)
  <2> DEFINE file_ == Ledgers(reader[r].schema)[i]
  <2>1. got[i] \in Lines(file_)
    BY <1>1, <1>2, <1>3 DEF Gathered
  <2> HIDE DEF got, file_
  <2>2. PICK name \in Admitted : file_ \in Has(name) /\ got[i] = BytesOf[name][file_]
    BY <2>1 DEF Lines
  <2>3. PICK other \in Admitted :
          BytesOf[name][file_] = [ledger |-> file_, of |-> other] /\ file_ \in Has(other)
    BY <2>2, BytesAre
  <2> QED BY <2>2, <2>3 DEF file_
<1>4. k \in DOMAIN got /\ Found(k)
  <2>1. k \in DOMAIN got
    BY <1>2
  <2>2. PICK other \in Admitted : got[k] = [ledger |-> Ledgers(reader[r].schema)[k], of |-> other]
    BY <1>3, <2>1
  <2> HIDE DEF got
  <2> QED BY <2>1, <2>2
<1> HIDE DEF Found
<1>5. n \in DOMAIN got /\ Found(n)
  BY <1>4
<1> HIDE DEF n
<1>6. PICK other \in Admitted : /\ got[n] = [ledger |-> Ledgers(reader[r].schema)[n], of |-> other]
                                /\ Ledgers(reader[r].schema)[n] \in Has(other)
  BY <1>3, <1>5
<1>7. Rows(r, ledger) = Content(Candidates[got[n].of], ledger)
  BY DEF Rows, n, Found
<1> HIDE DEF got
<1>8. got[n].of = other /\ ledger \in Has(other)
  BY <1>5, <1>6 DEF Found
<1> QED BY <1>7, <1>8

\* What was read is stored as it is.
LEMMA LoadedIsStored ==
  ASSUME FInv, NEW r \in Readers, reader[r].pc \in Gathers
  PROVE  Stored(Loaded(r)) = Loaded(r) /\ Loaded(r).schema = reader[r].schema
<1>0. reader[r].schema \in {"v1", "v2"}
  BY CallTyped DEF CallType
<1>1. CASE reader[r].schema = "v2"
  BY <1>1 DEF Stored, Loaded, Loaded2
<1>2. CASE reader[r].schema = "v1"
  <2> DEFINE rows == Rows(r, "observations")
             one == <<"series", "observations", "inventory">>
  <2>1. 2 \in 1 .. Len(Ledgers("v1")) /\ Ledgers("v1")[2] = "observations"
    <3>1. Len(one) = 3 /\ one[2] = "observations"
      OBVIOUS
    <3> HIDE DEF one
    <3>2. Ledgers("v1") = one
      BY LedgersAre DEF one
    <3> QED BY <3>1, <3>2
  <2>2. PICK name \in Admitted :
          "observations" \in Has(name) /\ rows = Content(Candidates[name], "observations")
    BY <1>2, <2>1, RowsAre
  <2>3. Candidates[name].schema = "v1"
    BY <2>2, SchemasAre, LedgersAre DEF Has
  <2> DEFINE d == Candidates[name]
  <2>4. rows = {Serialised(q) : q \in d.observations}
    <3>1. rows = Stored(d).observations
      BY <2>2 DEF Content
    <3>2. "observations" \in DOMAIN d
      BY RowsAssumption, SchemasAre
    <3> QED BY <2>3, <3>1, <3>2 DEF Stored
  <2>5. \A q \in d.observations : LegacyRowValid(q)
    BY <2>3, RowsAssumption, SchemasAre
  <2> HIDE DEF rows, d
  <2>6. \A row \in rows : Serialised(row) = row
    BY <2>4, <2>5, SerialisedIs
  <2>7. {Serialised(row) : row \in rows} = rows
    BY <2>6
  <2>8. Loaded(r) = [schema |-> "v1", registry |-> Rows(r, "series"),
                     inventory |-> Rows(r, "inventory"), observations |-> rows]
    BY <1>2 DEF Loaded, Loaded1, rows
  <2>9. Stored(Loaded(r)) = [Loaded(r) EXCEPT !.observations = {Serialised(row) : row \in rows}]
    BY <2>8 DEF Stored
  <2> QED BY <1>2, <2>7, <2>8, <2>9
<1> QED BY <1>0, <1>1, <1>2

LEMMA StoredSchema ==
  ASSUME NEW name \in Admitted
  PROVE  Stored(Candidates[name]).schema = Candidates[name].schema
<1>1. "schema" \in DOMAIN Candidates[name]
  BY SchemasAre, RowsAssumption
<1> QED BY <1>1 DEF Stored

LEMMA ReadManifestKeeps ==
  ASSUME FInv, NEW r \in Readers, ReadManifest(r)
  PROVE  FInv'
<1> DEFINE payload == file["manifest"]
           Reads == /\ payload \notin {Absent, Torn}
                    /\ Content(Candidates[payload.of], "manifest") = Manifest(Loaded(r))
<1>1. /\ reader[r].pc = "manifest" /\ reader[r].pc \in Gathers /\ UNCHANGED <<file, writer>>
      /\ Move(r, IF Reads THEN "replayed" ELSE "refused")
  BY DEF ReadManifest, Gathers
<1>2. CASE ~ Reads
  <2>1. Move(r, "refused")
    BY <1>1, <1>2
  <2> QED BY <1>1, <2>1, MoveKeeps
<1>3. CASE Reads
  <2>1. PICK name \in Admitted : "manifest" \in Has(name) /\ payload = BytesOf[name]["manifest"]
    BY <1>3, LedgerFile DEF LedgerFiles, FInv
  <2>2. PICK other \in Admitted :
          /\ BytesOf[name]["manifest"] = [ledger |-> "manifest", of |-> other]
          /\ Content(Candidates[other], "manifest") = Content(Candidates[name], "manifest")
    BY <2>1, BytesAre
  <2>3. Manifest(Candidates[name]) = Manifest(Loaded(r))
    BY <1>3, <2>1, <2>2 DEF Content
  <2>4. Stored(Candidates[name]) = Stored(Loaded(r))
    BY <2>3 DEF Manifest
  <2>5. Same(r, name)
    BY <1>1, <2>4, LoadedIsStored, StoredSchema DEF Same
  <2>6. Written(PlanOf(name))
    <3>1. Last(PlanOf(name)) = FileOf("manifest", payload)
      BY <2>1, PlanIs
    <3>2. file[Last(PlanOf(name)).path] = Last(PlanOf(name)).payload
      BY <3>1 DEF FileOf
    <3> QED BY <3>2, AdmittedPlans DEF FInv, IInv, ManifestCloses
  <2>7. Move(r, "replayed")
    BY <1>1, <1>3
  <2> QED BY <1>1, <2>5, <2>6, <2>7, MoveKeeps DEF Gathers
<1> QED BY <1>2, <1>3

LEMMA VerifyKeeps ==
  ASSUME FInv, NEW r \in Readers, Verify(r)
  PROVE  FInv'
<1>1. /\ reader[r].pc = "replayed" /\ UNCHANGED <<file, writer>>
      /\ Move(r, "verified") \/ Move(r, "refused")
  BY DEF Verify
<1>2. \E name \in Admitted : Same(r, name) /\ Written(PlanOf(name))
  BY <1>1 DEF FInv, ReplayIsWhole, Accepted
<1> QED BY <1>1, <1>2, MoveKeeps DEF Gathers

LEMMA FabricInitInv == FabricInit => FInv
<1> SUFFICES ASSUME FabricInit PROVE FInv
  OBVIOUS
<1>1. IInv
  BY InitInv DEF FabricInit
<1>2. FilesKnown
  BY PlansAssumption DEF FabricInit, Init, FilesKnown
<1>3. \A r \in Readers : reader[r] = NotReading
  BY DEF FabricInit
<1>4. NotReading \in CallType /\ Gathered(NotReading)
  <2>1. NotReading \in CallType /\ NotReading.got = <<>> /\ NotReading.pc = "idle"
    BY DEF NotReading, CallType
  <2>2. Len(NotReading.got) = 0
    BY <2>1
  <2> QED BY <2>1, <2>2 DEF Gathered, Gathers
<1>5. ReadersOK
  BY <1>3, <1>4 DEF FabricInit, ReadersOK
<1>6. ReplayIsWhole
  BY <1>3 DEF ReplayIsWhole, Accepted, NotReading
<1> QED BY <1>1, <1>2, <1>5, <1>6 DEF FInv

LEMMA FabricNextInv == FInv /\ [FabricNext]_fabricVars => FInv'
<1> SUFFICES ASSUME FInv, [FabricNext]_fabricVars PROVE FInv'
  OBVIOUS
<1>1. CASE UNCHANGED fabricVars
  BY <1>1, WriterSteps DEF fabricVars, vars
<1>2. CASE Next /\ UNCHANGED reader
  BY <1>2, WriterSteps
<1>3. ASSUME NEW r \in Readers, Read(r) PROVE FInv'
  BY <1>3, BeginReplayKeeps, LoadLedgerKeeps, RebuildKeeps, CompareBytesKeeps,
     ReadManifestKeeps, VerifyKeeps DEF Read
<1> QED BY <1>1, <1>2, <1>3 DEF FabricNext

(* The inductive invariant of the fabric.                                  *)
THEOREM FabricHolds == FabricSpec => []FInv
  BY FabricInitInv, FabricNextInv, PTL DEF FabricSpec

(* A replay returns a dataset only if one that was written is all of it on *)
(* disk, whoever writes into the directory, races or is killed meanwhile   *)
(* (replay_v2.py:263-309, verification_v2.py:23-77, dataset.py:368-410).   *)
THEOREM ReplaysAreWhole == FabricSpec => []ReplayIsWhole
<1>1. FInv => ReplayIsWhole
  BY DEF FInv
<1> QED BY <1>1, FabricHolds, PTL

-----------------------------------------------------------------------------
(***************************************************************************)
(* Confirmations: only Verify confirms, and what it compares the directory *)
(* with is the inventory of the bundle that it found whole.                *)
(***************************************************************************)
LEMMA OnlyVerifyConfirms ==
  ASSUME FInv, NEW r \in Readers, [FabricNext]_fabricVars,
         reader[r].pc # "verified", reader'[r].pc = "verified"
  PROVE  Verify(r)
<1>1. reader \in [Readers -> CallType] /\ reader[r] \in CallType
  BY DEF FInv, ReadersOK
<1>2. PICK q \in Readers : Read(q)
  BY DEF FabricNext, fabricVars
<1>3. \A point : Move(q, point) =>
        /\ q # r => reader'[r] = reader[r]
        /\ q = r => reader'[r].pc = point
  BY <1>1 DEF Move, CallType
<1>4. ~ BeginReplay(q)
  <2> SUFFICES ASSUME BeginReplay(q) PROVE FALSE
    OBVIOUS
  <2>1. PICK schema \in {"v1", "v2"} :
          reader' = [reader EXCEPT ![q] = [NotReading EXCEPT !.pc = "load", !.schema = schema]]
    BY DEF BeginReplay
  <2> QED BY <1>1, <2>1 DEF NotReading
<1>5. ~ LoadLedger(q)
  <2> SUFFICES ASSUME LoadLedger(q) PROVE FALSE
    OBVIOUS
  <2>1. PICK payload : \/ Move(q, "refused")
                       \/ /\ reader[q].pc = "load"
                          /\ reader' = [reader EXCEPT
                               ![q].got = Append(@, payload),
                               ![q].pc = IF reader[q].next = Len(Ledgers(reader[q].schema))
                                           THEN "build" ELSE @,
                               ![q].next = @ + 1]
    BY DEF LoadLedger
  <2> DEFINE call == [reader[q] EXCEPT
                        !.got = Append(@, payload),
                        !.pc = IF reader[q].next = Len(Ledgers(reader[q].schema)) THEN "build" ELSE @,
                        !.next = @ + 1]
  <2>2. ASSUME reader[q].pc = "load", reader' = [reader EXCEPT ![q] = call] PROVE FALSE
    <3>1. call.pc \in {"build", "load"}
      BY <1>1, <2>2 DEF CallType
    <3> HIDE DEF call
    <3>2. q = r => reader'[r] = call
      BY <1>1, <2>2
    <3>3. q # r => reader'[r] = reader[r]
      BY <1>1, <2>2
    <3> QED BY <3>1, <3>2, <3>3
  <2>3. Move(q, "refused") \/ (reader[q].pc = "load" /\ reader' = [reader EXCEPT ![q] = call])
    BY <2>1
  <2> QED BY <1>3, <2>2, <2>3
<1>6. ~ CompareBytes(q)
  <2> SUFFICES ASSUME CompareBytes(q) PROVE FALSE
    OBVIOUS
  <2>1. \/ Move(q, "refused") \/ Move(q, "manifest")
        \/ reader' = [reader EXCEPT ![q].next = @ + 1]
    BY DEF CompareBytes
  <2>2. ASSUME reader' = [reader EXCEPT ![q].next = @ + 1] PROVE FALSE
    <3> DEFINE call == [reader[q] EXCEPT !.next = @ + 1]
    <3>1. call.pc = reader[q].pc
      BY <1>1 DEF CallType
    <3>2. reader' = [reader EXCEPT ![q] = call]
      BY <2>2
    <3> HIDE DEF call
    <3> QED BY <1>1, <3>1, <3>2
  <2> QED BY <1>1, <1>3, <2>1, <2>2
<1>7. ~ Rebuild(q) /\ ~ ReadManifest(q)
  BY <1>3 DEF Rebuild, ReadManifest
<1>8. Verify(q)
  BY <1>2, <1>4, <1>5, <1>6, <1>7 DEF Read
<1> QED BY <1>3, <1>8 DEF Verify

LEMMA InventoryIs ==
  ASSUME NEW r \in Readers, NEW name \in Admitted, Same(r, name)
  PROVE  Loaded(r).inventory = Candidates[name].inventory
<1> DEFINE d == Candidates[name]
<1>1. Loaded(r) = Stored(d) /\ "inventory" \in DOMAIN Loaded(r)
  BY DEF Same, Loaded, Loaded1, Loaded2
<1>2. CASE d.schema = "v2"
  BY <1>1, <1>2 DEF Stored
<1>3. CASE d.schema # "v2"
  <2>1. Stored(d) = [d EXCEPT !.observations = {Serialised(row) : row \in @}]
    BY <1>3 DEF Stored
  <2> HIDE DEF d
  <2>2. "inventory" \in DOMAIN d
    BY <1>1, <2>1
  <2> QED BY <1>1, <2>1, <2>2 DEF d
<1> QED BY <1>2, <1>3

LEMMA VerifyAlone ==
  ASSUME FInv, NEW r \in Readers, Verify(r), reader'[r].pc = "verified"
  PROVE  \E name \in Admitted :
           /\ Same(r, name) /\ Written(PlanOf(name))
           /\ \A path \in RawPaths :
                file[path] # Absent => FileOf(path, file[path]) \in FilesOf(name)
<1> DEFINE inventory == Loaded(r).inventory
<1>1. /\ {path \in RawPaths : file[path] # Absent} = {receipt.path : receipt \in inventory}
      /\ RawHolds(inventory)
  <2>1. ~ Move(r, "refused")
    BY DEF FInv, ReadersOK, CallType, Move
  <2> QED BY <2>1 DEF Verify
<1>2. PICK name \in Admitted : Same(r, name) /\ Written(PlanOf(name))
  BY DEF Verify, FInv, ReplayIsWhole, Accepted
<1>3. inventory = Candidates[name].inventory
  BY <1>2, InventoryIs
<1> HIDE DEF inventory
<1>4. ASSUME NEW path \in RawPaths, file[path] # Absent
      PROVE  FileOf(path, file[path]) \in FilesOf(name)
  <2>1. PICK receipt \in inventory : receipt.path = path
    BY <1>1, <1>4
  <2>2. FileOf(path, file[path]) = FileOf(receipt.path, Raw(receipt.digest))
    BY <1>1, <2>1 DEF RawHolds
  <2>3. \E k \in 1 .. Len(PlanOf(name)) :
          PlanOf(name)[k] = FileOf(receipt.path, Raw(receipt.digest))
    BY <1>3, <2>1, PlanIs
  <2> QED BY <2>2, <2>3 DEF FilesOf
<1> QED BY <1>2, <1>4

(* A verification confirms a dataset only where all the raw evidence on    *)
(* disk is evidence of its bundle, whatever other writers put beside it    *)
(* (verification_v2.py:51-80, verification.py:40-68).                      *)
THEOREM ConfirmationsAreAlone == FabricSpec => ConfirmsAlone
<1>1. FInv /\ [FabricNext]_fabricVars =>
        [\A r \in Readers : reader[r].pc # "verified" /\ reader'[r].pc = "verified" =>
           \E name \in Admitted :
             /\ Same(r, name) /\ Written(PlanOf(name))
             /\ \A path \in RawPaths :
                  file[path] # Absent => FileOf(path, file[path]) \in FilesOf(name)]_fabricVars
  BY OnlyVerifyConfirms, VerifyAlone
<1> QED BY <1>1, FabricHolds, PTL DEF FabricSpec, ConfirmsAlone

-----------------------------------------------------------------------------
(***************************************************************************)
(* Selections: of a finite set of vintages some are the newest.            *)
(***************************************************************************)
LEMMA SmallestSubset ==
  ASSUME NEW D, IsFiniteSet(D), NEW C, C \subseteq SUBSET D, C # {}
  PROVE  \E s \in C : \A t \in C : t \subseteq s => t = s
<1> DEFINE R == StrictSubsetOrdering(D)
<1>1. IsWellFoundedOn(R, SUBSET D)
  BY FS_StrictSubsetOrderingWellFounded, FS_FiniteSubsetsOfFinite
<1>2. PICK s \in C : \A t \in C : ~ (<<t, s>> \in R)
  <2> HIDE DEF R
  <2> QED BY <1>1, WFMin
<1>3. \A t \in C : t \subseteq s => t = s
  BY <1>2 DEF StrictSubsetOrdering
<1> QED BY <1>3

LEMMA SomeNewest ==
  ASSUME NEW T, IsFiniteSet(T), T # {}, \A r \in T : r.time \in Nat
  PROVE  \E r \in T : \A q \in T : q.time <= r.time
<1> DEFINE Ends(s) == \E r \in s : \A q \in s : q.time <= r.time
           Bad == {s \in SUBSET T : s # {} /\ ~ Ends(s)}
<1>1. SUFFICES ASSUME Bad # {} PROVE FALSE
  <2>1. T \in SUBSET T
    OBVIOUS
  <2> QED BY <2>1
<1>2. PICK s \in Bad : \A t \in Bad : t \subseteq s => t = s
  <2> HIDE DEF Bad
  <2>1. Bad \subseteq SUBSET T
    BY DEF Bad
  <2> QED BY <1>1, <2>1, SmallestSubset
<1>3. PICK x \in s : TRUE
  BY <1>2
<1> DEFINE rest == s \ {x}
<1>4. rest \notin Bad /\ rest \in SUBSET T
  <2>1. rest # s /\ rest \subseteq s
    BY <1>3
  <2> HIDE DEF Bad
  <2>2. rest \notin Bad
    BY <1>2, <2>1
  <2> QED BY <2>2, <1>2 DEF Bad
<1>5. CASE rest = {}
  <2>1. s = {x}
    BY <1>3, <1>5
  <2>2. x.time \in Nat
    BY <1>2, <1>3
  <2>3. Ends(s)
    BY <2>1, <2>2
  <2> QED BY <1>2, <2>3
<1>6. CASE rest # {}
  <2>1. PICK r \in rest : \A q \in rest : q.time <= r.time
    BY <1>4, <1>6
  <2>2. \A q \in s : q.time \in Nat /\ (q \in rest \/ q = x)
    BY <1>2
  <2>3. Ends(s)
    <3>1. CASE x.time <= r.time
      BY <2>1, <2>2, <3>1
    <3>2. CASE ~ x.time <= r.time
      <4>1. \A q \in s : q.time <= x.time
        BY <1>3, <2>1, <2>2, <3>2
      <4> QED BY <1>3, <4>1
    <3> QED BY <3>1, <3>2
  <2> QED BY <1>2, <2>3
<1> QED BY <1>5, <1>6

(* Of every key the newest row, unless two of them appeared together.      *)
Rivals(visible, key, r) == {q \in visible : key[q] = key[r] /\ q.time = r.time /\ q # r}
NewestOf(visible, key) == {r \in visible : \A q \in visible : key[q] = key[r] => q.time <= r.time}
OfKey(visible, key, k) == Newest({r \in visible : key[r] = k})

LEMMA SelectionIs ==
  ASSUME NEW visible, IsFiniteSet(visible), \A r \in visible : r.time \in Nat,
         NEW key, NEW keys, keys = {key[r] : r \in visible}
  PROVE  LET newest == NewestOf(visible, key)
             alone == \A k \in keys : Cardinality(OfKey(visible, key, k)) = 1
         IN  /\ (\E r \in newest : Rivals(visible, key, r) # {}) <=> ~ alone
             /\ UNION {OfKey(visible, key, k) : k \in keys} = newest
<1> DEFINE newest == NewestOf(visible, key)
           of(k) == OfKey(visible, key, k)
<1>1. \A k \in keys : of(k) = {r \in newest : key[r] = k}
  BY DEF OfKey, Newest, NewestOf
<1>2. \A k \in keys : of(k) # {} /\ IsFiniteSet(of(k))
  <2> SUFFICES ASSUME NEW k \in keys PROVE of(k) # {} /\ IsFiniteSet(of(k))
    OBVIOUS
  <2> DEFINE T == {r \in visible : key[r] = k}
  <2>1. IsFiniteSet(T) /\ T # {} /\ \A r \in T : r.time \in Nat
    <3>1. T \in SUBSET visible
      OBVIOUS
    <3> HIDE DEF T
    <3>2. IsFiniteSet(T)
      BY <3>1, FS_Subset
    <3> QED BY <3>2 DEF T
  <2> HIDE DEF T
  <2>2. \E r \in T : \A q \in T : q.time <= r.time
    BY <2>1, SomeNewest
  <2>3. of(k) = Newest(T)
    BY DEF OfKey, T
  <2>4. Newest(T) # {} /\ Newest(T) \in SUBSET T
    BY <2>2 DEF Newest
  <2> HIDE DEF of
  <2> QED BY <2>1, <2>3, <2>4, FS_Subset
<1>3. UNION {of(k) : k \in keys} = newest
  <2>1. \A r \in newest : key[r] \in keys
    BY DEF NewestOf
  <2> HIDE DEF newest, of
  <2>2. \A r \in newest : r \in of(key[r])
    BY <1>1, <2>1
  <2>3. newest \subseteq UNION {of(k) : k \in keys}
    BY <2>1, <2>2
  <2>4. UNION {of(k) : k \in keys} \subseteq newest
    BY <1>1
  <2> QED BY <2>3, <2>4
<1>4. ASSUME NEW r \in newest, Rivals(visible, key, r) # {}
      PROVE  \E k \in keys : Cardinality(of(k)) # 1
  <2>1. PICK q \in visible : key[q] = key[r] /\ q.time = r.time /\ q # r
    BY <1>4 DEF Rivals
  <2>2. key[r] \in keys /\ q \in newest
    BY <2>1 DEF NewestOf
  <2> HIDE DEF newest, of
  <2>3. r \in of(key[r]) /\ q \in of(key[r])
    BY <1>1, <2>1, <2>2
  <2>4. Cardinality(of(key[r])) # 1
    BY <1>2, <2>1, <2>2, <2>3, FS_Singleton
  <2> QED BY <2>2, <2>4
<1>5. ASSUME NEW k \in keys, Cardinality(of(k)) # 1
      PROVE  \E r \in newest : Rivals(visible, key, r) # {}
  <2>1. PICK r \in of(k) : TRUE
    BY <1>2
  <2>2. of(k) # {r}
    <3> HIDE DEF of
    <3> QED BY <1>2, <1>5, FS_Singleton
  <2>3. PICK q \in of(k) : q # r
    BY <2>1, <2>2
  <2>4. /\ r \in newest /\ key[r] = k /\ q \in newest /\ key[q] = k
        /\ r \in visible /\ q \in visible
    BY <1>1, <2>1, <2>3 DEF NewestOf
  <2>5. q.time = r.time
    <3>1. q.time <= r.time /\ r.time <= q.time
      BY <2>4 DEF NewestOf
    <3>2. q.time \in Nat /\ r.time \in Nat
      BY <2>4
    <3> QED BY <3>1, <3>2
  <2>6. q \in Rivals(visible, key, r)
    BY <2>3, <2>4, <2>5 DEF Rivals
  <2> QED BY <2>4, <2>6
<1> HIDE DEF newest, of
<1> QED BY <1>3, <1>4, <1>5 DEF newest, of

\* The same of the two selections, whose keys are operators.
LEMMA SelectionSound2 ==
  ASSUME NEW visible, IsFiniteSet(visible), \A r \in visible : r.time \in Nat
  PROVE  SelectionSound(visible, LatestBy(visible, Period2), Period2)
<1> DEFINE key == [r \in visible |-> Period2(r)]
           keys == {key[r] : r \in visible}
           newest == NewestOf(visible, key)
           alone == \A k \in keys : Cardinality(OfKey(visible, key, k)) = 1
<1>1. /\ (\E r \in newest : Rivals(visible, key, r) # {}) <=> ~ alone
      /\ UNION {OfKey(visible, key, k) : k \in keys} = newest
  <2> HIDE DEF key
  <2> QED BY SelectionIs
<1>2. \A r \in visible : key[r] = Period2(r)
  OBVIOUS
<1> HIDE DEF key
<1>3. /\ keys = {Period2(r) : r \in visible}
      /\ \A k : OfKey(visible, key, k) = Newest({r \in visible : Period2(r) = k})
      /\ newest = {r \in visible : \A q \in visible : Period2(q) = Period2(r) => q.time <= r.time}
      /\ \A r \in visible : Rivals(visible, key, r) =
           {q \in visible : Period2(q) = Period2(r) /\ q.time = r.time /\ q # r}
  <2>1. keys = {Period2(r) : r \in visible}
    BY <1>2
  <2>2. \A k : {r \in visible : key[r] = k} = {r \in visible : Period2(r) = k}
    BY <1>2
  <2>3. newest = {r \in visible : \A q \in visible : Period2(q) = Period2(r) => q.time <= r.time}
    BY <1>2 DEF NewestOf
  <2>4. \A r \in visible : Rivals(visible, key, r) =
          {q \in visible : Period2(q) = Period2(r) /\ q.time = r.time /\ q # r}
    BY <1>2 DEF Rivals
  <2> QED BY <2>1, <2>2, <2>3, <2>4 DEF OfKey
<1>4. LatestBy(visible, Period2) = IF alone THEN newest ELSE Tied
  <2>1. LatestBy(visible, Period2) =
          IF \A k \in {Period2(r) : r \in visible} :
               Cardinality(Newest({r \in visible : Period2(r) = k})) = 1
            THEN UNION {Newest({r \in visible : Period2(r) = k}) : k \in {Period2(r) : r \in visible}}
            ELSE Tied
    BY DEF LatestBy
  <2>2. LatestBy(visible, Period2) =
          IF alone THEN UNION {OfKey(visible, key, k) : k \in keys} ELSE Tied
    <3> DEFINE of(k) == Newest({r \in visible : Period2(r) = k})
               all == {Period2(r) : r \in visible}
    <3>1. LatestBy(visible, Period2) =
            IF \A k \in all : Cardinality(of(k)) = 1 THEN UNION {of(k) : k \in all} ELSE Tied
      BY <2>1
    <3>2. keys = all /\ \A k : OfKey(visible, key, k) = of(k)
      BY <1>3
    <3> HIDE DEF of, all, keys
    <3>3. (\A k \in all : Cardinality(of(k)) = 1) <=> alone
      BY <3>2
    <3>4. {of(k) : k \in all} = {OfKey(visible, key, k) : k \in keys}
      BY <3>2
    <3> HIDE DEF alone
    <3> QED BY <3>1, <3>3, <3>4
  <2> QED BY <1>1, <2>2
<1>5. newest \subseteq visible
  BY DEF NewestOf
<1>6. (\E r \in newest : {q \in visible : Period2(q) = Period2(r) /\ q.time = r.time /\ q # r} # {})
        <=> ~ alone
  BY <1>1, <1>3, <1>5
<1> HIDE DEF alone, newest, keys
<1>7. SelectionSound(visible, LatestBy(visible, Period2), Period2) =
        IF \E r \in newest : {q \in visible : Period2(q) = Period2(r) /\ q.time = r.time /\ q # r} # {}
          THEN LatestBy(visible, Period2) = Tied
          ELSE LatestBy(visible, Period2) = newest
  BY <1>3 DEF SelectionSound
<1> QED BY <1>4, <1>6, <1>7

LEMMA SelectionSound1 ==
  ASSUME NEW visible, IsFiniteSet(visible), \A r \in visible : r.time \in Nat
  PROVE  SelectionSound(visible, LatestBy(visible, Period1), Period1)
<1> DEFINE key == [r \in visible |-> Period1(r)]
           keys == {key[r] : r \in visible}
           newest == NewestOf(visible, key)
           alone == \A k \in keys : Cardinality(OfKey(visible, key, k)) = 1
<1>1. /\ (\E r \in newest : Rivals(visible, key, r) # {}) <=> ~ alone
      /\ UNION {OfKey(visible, key, k) : k \in keys} = newest
  <2> HIDE DEF key
  <2> QED BY SelectionIs
<1>2. \A r \in visible : key[r] = Period1(r)
  OBVIOUS
<1> HIDE DEF key
<1>3. /\ keys = {Period1(r) : r \in visible}
      /\ \A k : OfKey(visible, key, k) = Newest({r \in visible : Period1(r) = k})
      /\ newest = {r \in visible : \A q \in visible : Period1(q) = Period1(r) => q.time <= r.time}
      /\ \A r \in visible : Rivals(visible, key, r) =
           {q \in visible : Period1(q) = Period1(r) /\ q.time = r.time /\ q # r}
  <2>1. keys = {Period1(r) : r \in visible}
    BY <1>2
  <2>2. \A k : {r \in visible : key[r] = k} = {r \in visible : Period1(r) = k}
    BY <1>2
  <2>3. newest = {r \in visible : \A q \in visible : Period1(q) = Period1(r) => q.time <= r.time}
    BY <1>2 DEF NewestOf
  <2>4. \A r \in visible : Rivals(visible, key, r) =
          {q \in visible : Period1(q) = Period1(r) /\ q.time = r.time /\ q # r}
    BY <1>2 DEF Rivals
  <2> QED BY <2>1, <2>2, <2>3, <2>4 DEF OfKey
<1>4. LatestBy(visible, Period1) = IF alone THEN newest ELSE Tied
  <2>1. LatestBy(visible, Period1) =
          IF \A k \in {Period1(r) : r \in visible} :
               Cardinality(Newest({r \in visible : Period1(r) = k})) = 1
            THEN UNION {Newest({r \in visible : Period1(r) = k}) : k \in {Period1(r) : r \in visible}}
            ELSE Tied
    BY DEF LatestBy
  <2>2. LatestBy(visible, Period1) =
          IF alone THEN UNION {OfKey(visible, key, k) : k \in keys} ELSE Tied
    <3> DEFINE of(k) == Newest({r \in visible : Period1(r) = k})
               all == {Period1(r) : r \in visible}
    <3>1. LatestBy(visible, Period1) =
            IF \A k \in all : Cardinality(of(k)) = 1 THEN UNION {of(k) : k \in all} ELSE Tied
      BY <2>1
    <3>2. keys = all /\ \A k : OfKey(visible, key, k) = of(k)
      BY <1>3
    <3> HIDE DEF of, all, keys
    <3>3. (\A k \in all : Cardinality(of(k)) = 1) <=> alone
      BY <3>2
    <3>4. {of(k) : k \in all} = {OfKey(visible, key, k) : k \in keys}
      BY <3>2
    <3> HIDE DEF alone
    <3> QED BY <3>1, <3>3, <3>4
  <2> QED BY <1>1, <2>2
<1>5. newest \subseteq visible
  BY DEF NewestOf
<1>6. (\E r \in newest : {q \in visible : Period1(q) = Period1(r) /\ q.time = r.time /\ q # r} # {})
        <=> ~ alone
  BY <1>1, <1>3, <1>5
<1> HIDE DEF alone, newest, keys
<1>7. SelectionSound(visible, LatestBy(visible, Period1), Period1) =
        IF \E r \in newest : {q \in visible : Period1(q) = Period1(r) /\ q.time = r.time /\ q # r} # {}
          THEN LatestBy(visible, Period1) = Tied
          ELSE LatestBy(visible, Period1) = newest
  BY <1>3 DEF SelectionSound
<1> QED BY <1>4, <1>6, <1>7

-----------------------------------------------------------------------------
(***************************************************************************)
(* What was known when.                                                    *)
(***************************************************************************)
\* A day has begun when its first tick is there.
LEMMA DayIs ==
  ASSUME NEW t \in Nat, NEW day \in Nat
  PROVE  Day(t) < day <=> t < day * DayTicks
<1> DEFINE q == t \div DayTicks
<1>1. DayTicks \in Nat \ {0}
  BY TicksAssumption
<1>2. q \in Nat /\ q * DayTicks <= t /\ t < (q + 1) * DayTicks
  BY <1>1, Z3
<1>3. Day(t) = q
  BY DEF Day
<1> HIDE DEF q
<1>4. q < day => (q + 1) * DayTicks <= day * DayTicks
  BY <1>1, <1>2, Z3
<1>5. day <= q => day * DayTicks <= q * DayTicks
  BY <1>1, <1>2, Z3
<1>6. /\ q * DayTicks \in Nat /\ (q + 1) * DayTicks \in Nat /\ day * DayTicks \in Nat
  BY <1>1, <1>2, Z3
<1> DEFINE low == q * DayTicks
           high == (q + 1) * DayTicks
           begin == day * DayTicks
<1> HIDE DEF low, high, begin
<1>7. /\ low \in Nat /\ high \in Nat /\ begin \in Nat /\ low <= t /\ t < high
      /\ (q < day => high <= begin) /\ (day <= q => begin <= low)
  BY <1>2, <1>4, <1>5, <1>6 DEF low, high, begin
<1>8. q < day <=> t < begin
  BY <1>2, <1>7
<1> QED BY <1>3, <1>8 DEF begin

Typed2(d) ==
  /\ IsFiniteSet(d.observations) /\ Admit2(d)
  /\ \A r \in d.observations \cup d.evidence : {r.time, r.date} \subseteq Nat \cup {None}
  /\ \A item \in d.evidence : item.id # None

\* An observation is placed in time by its evidence and as its evidence is.
LEMMA Placed ==
  ASSUME NEW d, Typed2(d), NEW r \in d.observations
  PROVE  /\ \A item \in Evidences(d, r) :
              item.precision = r.precision /\ item.time = r.time /\ item.date = r.date
         /\ r.precision \in Exact \cup {"DATE_ONLY"} => Evidences(d, r) # {}
<1>1. PICK e \in d.events : e.id = r.event /\ SameAdmission(r, e)
  BY DEF Typed2, Admit2, ObservationClosure
<1>2. ResolvedEventEvidence(e, d.evidence)
  BY DEF Typed2, Admit2, EvidenceClosure
<1>3. r.admitted # None =>
        \E item \in d.evidence :
          /\ item.id = r.admitted /\ item.event = r.event /\ item.channel = r.channel
          /\ item.precision = r.precision /\ item.time = r.time /\ item.date = r.date
  BY <1>1, <1>2 DEF ResolvedEventEvidence, SameAdmission, SameAudience, SameAvailability
<1>4. \A a, b \in d.evidence : a.id = b.id => a = b
  BY DEF Typed2, Admit2, Unique
<1>5. ASSUME NEW item \in Evidences(d, r)
      PROVE  item.precision = r.precision /\ item.time = r.time /\ item.date = r.date
  <2>1. item \in d.evidence /\ item.id = r.admitted /\ item.id # None
    BY <1>5 DEF Evidences, Typed2
  <2> QED BY <1>3, <1>4, <2>1
<1>6. r.precision \in Exact \cup {"DATE_ONLY"} => r.admitted # None
  <2>1. ObservationValid(r)
    BY DEF Typed2, Admit2
  <2> QED BY <2>1 DEF ObservationValid, Exact
<1>7. r.admitted # None => Evidences(d, r) # {}
  BY <1>3 DEF Evidences
<1> QED BY <1>5, <1>6, <1>7

LEMMA ExactTimes ==
  ASSUME NEW d, Typed2(d), NEW r \in d.observations
  PROVE  /\ r.precision \in Exact => r.time \in Nat
         /\ r.precision = "DATE_ONLY" => r.date \in Nat
<1>1. ObservationValid(r) /\ r.time \in Nat \cup {None} /\ r.date \in Nat \cup {None}
  BY DEF Typed2, Admit2
<1> QED BY <1>1 DEF ObservationValid, Exact

LEMMA KnownIs ==
  ASSUME NEW d, Typed2(d), NEW cutoff
  PROVE  KnownAt(d, cutoff) = {r \in d.observations : r.precision \in Exact /\ r.time <= cutoff}
<1>1. \A r \in d.observations :
        (\E item \in Evidences(d, r) : item.precision \in Exact /\ item.time <= cutoff)
          <=> r.precision \in Exact /\ r.time <= cutoff
  BY Placed
<1> QED BY <1>1 DEF KnownAt

LEMMA KnownBeforeIs ==
  ASSUME NEW d, Typed2(d), NEW day \in Nat
  PROVE  AsOfDate(d, day, None) = KnownBefore(d, day)
<1>1. \A r \in d.observations :
        (\E item \in Evidences(d, r) :
           \/ item.precision \in Exact /\ item.time < day * DayTicks
           \/ item.precision = "DATE_ONLY" /\ item.date < day)
          <=> \/ r.precision \in Exact /\ r.time < day * DayTicks
              \/ r.precision = "DATE_ONLY" /\ r.date < day
  BY Placed
<1>2. \A r \in d.observations :
        r.precision \in Exact => (Day(r.time) < day <=> r.time < day * DayTicks)
  BY ExactTimes, DayIs
<1>3. KnownBefore(d, day) =
        {r \in d.observations : \/ r.precision \in Exact /\ Day(r.time) < day
                                \/ r.precision = "DATE_ONLY" /\ r.date < day}
  BY <1>1, <1>2 DEF KnownBefore
<1> QED BY <1>3 DEF AsOfDate, OfSeries

LEMMA LineageIs ==
  ASSUME NEW d, Typed2(d), NEW a \in d.observations, NEW b \in d.observations, NEW cutoff \in Nat
  PROVE  Admits(Merge({LineageOf(a), LineageOf(b)}), cutoff) <=> {a, b} \subseteq KnownAt(d, cutoff)
<1> DEFINE items == {LineageOf(a), LineageOf(b)}
           open == {i \in items : ~ i.resolved}
           reasons == UNION {item.reasons : item \in open}
           times == {item.time : item \in items}
<1>0. Merge(items) =
        IF reasons # {} THEN [resolved |-> FALSE, time |-> None, reasons |-> reasons]
        ELSE IF None \in times THEN Unresolved("MISSING_EXACT_ANCESTOR_TIME")
        ELSE Resolved(CHOOSE t \in times : \A other \in times : other <= t)
  BY DEF Merge
<1>1. {a, b} \subseteq KnownAt(d, cutoff) <=>
        /\ a.precision \in Exact /\ a.time <= cutoff
        /\ b.precision \in Exact /\ b.time <= cutoff
  BY KnownIs
<1>2. ASSUME NEW r \in {a, b}, r.precision \notin Exact
      PROVE  reasons # {}
  <2>1. LineageOf(r) = [resolved |-> FALSE, time |-> None, reasons |-> {r.precision}]
    BY <1>2 DEF LineageOf, Unresolved
  <2>2. LineageOf(r) \in open
    BY <2>1
  <2>3. r.precision \in reasons
    BY <2>1, <2>2
  <2> QED BY <2>3
<1>3. CASE a.precision \notin Exact \/ b.precision \notin Exact
  <2>1. Merge(items).resolved = FALSE
    <3>1. reasons # {}
      BY <1>2, <1>3
    <3> HIDE DEF items, open, reasons, times
    <3> QED BY <1>0, <3>1
  <2> QED BY <1>1, <1>3, <2>1 DEF Admits
<1>4. CASE a.precision \in Exact /\ b.precision \in Exact
  <2>1. a.time \in Nat /\ b.time \in Nat
    BY <1>4, ExactTimes
  <2>2. /\ LineageOf(a) = [resolved |-> TRUE, time |-> a.time, reasons |-> {}]
        /\ LineageOf(b) = [resolved |-> TRUE, time |-> b.time, reasons |-> {}]
    BY <1>4 DEF LineageOf, Resolved
  <2>3. reasons = {} /\ times = {a.time, b.time}
    BY <2>2
  <2> DEFINE last == CHOOSE t \in times : \A other \in times : other <= t
  <2>4. last \in times /\ \A other \in times : other <= last
    <3> HIDE DEF times
    <3>1. \E t \in times : \A other \in times : other <= t
      BY <2>1, <2>3
    <3> QED BY <3>1
  <2>5. None \notin times
    BY <2>1, <2>3, TicksAssumption
  <2> HIDE DEF items, open, reasons, times, last
  <2>6. Merge(items) = [resolved |-> TRUE, time |-> last, reasons |-> {}]
    BY <1>0, <2>3, <2>5 DEF Resolved, last
  <2>7. last \in {a.time, b.time} /\ a.time <= last /\ b.time <= last
    BY <2>3, <2>4
  <2>8. last # None
    BY <2>4, <2>5
  <2>9. Admits(Merge(items), cutoff) <=> last <= cutoff
    BY <2>6, <2>8 DEF Admits
  <2>10. last <= cutoff <=> a.time <= cutoff /\ b.time <= cutoff
    BY <2>1, <2>7
  <2> QED BY <1>1, <1>4, <2>9, <2>10 DEF items
<1> QED BY <1>3, <1>4

\* The instants and the days that are asked for.
LEMMA CutoffsAre ==
  ASSUME NEW d, \A r \in d.observations : r.time \in Nat \cup {None}, NEW cutoff \in Cutoffs(d)
  PROVE  cutoff \in Nat
<1>1. Instants(d) \subseteq Nat
  BY DEF Instants
<1>2. cutoff = 0 \/ \E t \in Instants(d) : cutoff \in {t, t + 1}
  <2> DEFINE both == {{t, t + 1} : t \in Instants(d)}
  <2>1. cutoff \in {0} \/ cutoff \in UNION both
    BY DEF Cutoffs
  <2>2. \A pair \in both : \E t \in Instants(d) : pair = {t, t + 1}
    OBVIOUS
  <2> HIDE DEF both
  <2> QED BY <2>1, <2>2
<1> QED BY <1>1, <1>2

LEMMA DayTyped ==
  ASSUME NEW t \in Nat
  PROVE  Day(t) \in Nat
<1>1. DayTicks \in Nat \ {0}
  BY TicksAssumption
<1>2. t \div DayTicks \in Nat
  BY <1>1, Z3
<1> QED BY <1>2 DEF Day

LEMMA CausalTwo ==
  ASSUME NEW d, Typed2(d)
  PROVE  Causal2(d)
<1>0. \A r \in d.observations : r.time \in Nat \cup {None}
  BY DEF Typed2
<1>1. ASSUME NEW cutoff \in Cutoffs(d), NEW series \in Seriess(d)
      PROVE  LET known == OfSeries(KnownAt(d, cutoff), series)
             IN  /\ AsOf2(d, cutoff, series) = known
                 /\ SelectionSound(known, Latest2(d, cutoff, series), Period2)
  <2> DEFINE known == OfSeries(KnownAt(d, cutoff), series)
  <2>1. AsOf2(d, cutoff, series) = known
    BY KnownIs DEF AsOf2
  <2>2. known \in SUBSET d.observations /\ \A r \in known : r.precision \in Exact
    BY KnownIs DEF OfSeries
  <2> HIDE DEF known
  <2>3. IsFiniteSet(known)
    BY <2>2, FS_Subset DEF Typed2
  <2>4. \A r \in known : r.time \in Nat
    BY <2>2, ExactTimes
  <2>5. SelectionSound(known, LatestBy(known, Period2), Period2)
    BY <2>3, <2>4, SelectionSound2
  <2>6. Latest2(d, cutoff, series) = LatestBy(known, Period2)
    BY <2>1 DEF Latest2
  <2> QED BY <2>1, <2>5, <2>6 DEF known
<1>2. ASSUME NEW day \in {Day(t) : t \in Cutoffs(d)} \cup ({r.date : r \in d.observations} \ {None})
      PROVE  AsOfDate(d, day, None) = KnownBefore(d, day)
  <2>1. CASE day \in {Day(t) : t \in Cutoffs(d)}
    <3>1. PICK t \in Cutoffs(d) : day = Day(t)
      BY <2>1
    <3>2. day \in Nat
      BY <1>0, <3>1, CutoffsAre, DayTyped
    <3> QED BY <3>2, KnownBeforeIs
  <2>2. CASE day \in {r.date : r \in d.observations} \ {None}
    <3>1. PICK r \in d.observations : day = r.date /\ day # None
      BY <2>2
    <3>2. r.date \in Nat \cup {None}
      BY DEF Typed2
    <3> QED BY <3>1, <3>2, KnownBeforeIs
  <2> QED BY <1>2, <2>1, <2>2
<1>3. ASSUME NEW a \in d.observations, NEW b \in d.observations, NEW cutoff \in Cutoffs(d)
      PROVE  Admits(Merge({LineageOf(a), LineageOf(b)}), cutoff) <=> {a, b} \subseteq KnownAt(d, cutoff)
  BY <1>0, CutoffsAre, LineageIs
<1> QED BY <1>1, <1>2, <1>3 DEF Causal2

Typed1(d) ==
  /\ IsFiniteSet(d.observations)
  /\ \A r \in d.observations : LegacyRowValid(r)
  /\ d.schema = "v1" /\ "observations" \in DOMAIN d

LEMMA CausalOne ==
  ASSUME NEW d, Typed1(d)
  PROVE  Causal1(d)
<1> DEFINE stored == Stored(d)
           rows == {Serialised(r) : r \in d.observations}
<1>0. \A r \in d.observations : r.time \in Nat /\ LegacyRowValid(r)
  BY DEF Typed1, LegacyRowValid
<1>1. stored.observations = rows
  BY DEF Stored, Typed1
<1>2. \A r \in d.observations :
        /\ Serialised(r).series = r.series /\ Serialised(r).time \in Nat
        /\ Serialised(r).time <= r.time /\ r.time < Serialised(r).time + Milli
  <2> SUFFICES ASSUME NEW r \in d.observations
               PROVE  /\ Serialised(r).series = r.series /\ Serialised(r).time \in Nat
                      /\ Serialised(r).time <= r.time /\ r.time < Serialised(r).time + Milli
    OBVIOUS
  <2>1. Serialised(r).series = r.series /\ Serialised(r).time = ToMilli(r.time)
    BY <1>0, SerialisedIs
  <2>2. r.time \in Nat \cup {None} /\ r.time # None
    BY <1>0, TicksAssumption
  <2> QED BY <2>1, <2>2, MilliTwice
<1>3. IsFiniteSet(rows)
  <2> DEFINE f == [r \in d.observations |-> Serialised(r)]
  <2>1. f \in Surjection(d.observations, rows)
    BY DEF Surjection
  <2> HIDE DEF f, rows
  <2> QED BY <2>1, FS_Surjection DEF Typed1
<1> HIDE DEF stored
<1> SUFFICES ASSUME NEW cutoff \in Cutoffs(d), NEW series \in Seriess(d)
             PROVE  LET known == AsOf1(stored, cutoff, series)
                    IN  /\ \A r \in d.observations :
                             r.time <= cutoff /\ series \in {None, r.series} => Serialised(r) \in known
                        /\ \A q \in known : \E r \in d.observations :
                             Serialised(r) = q /\ r.time < cutoff + Milli
                        /\ SelectionSound(known, Latest1(stored, cutoff, series), Period1)
  BY DEF Causal1, stored
<1> DEFINE known == AsOf1(stored, cutoff, series)
<1>4. known = {q \in rows : q.time <= cutoff /\ series \in {None, q.series}}
  BY <1>1 DEF AsOf1, OfSeries
<1>5. cutoff \in Nat
  <2>1. \A r \in d.observations : r.time \in Nat \cup {None}
    BY <1>0
  <2> QED BY <2>1, CutoffsAre
<1>6. \A r \in d.observations :
        r.time <= cutoff /\ series \in {None, r.series} => Serialised(r) \in known
  <2> SUFFICES ASSUME NEW r \in d.observations, r.time <= cutoff, series \in {None, r.series}
               PROVE  Serialised(r) \in known
    OBVIOUS
  <2>1. Serialised(r) \in rows
    OBVIOUS
  <2>2. Serialised(r).time <= cutoff
    BY <1>0, <1>2, <1>5
  <2> QED BY <1>2, <1>4, <2>1, <2>2
<1>7. \A q \in known : \E r \in d.observations : Serialised(r) = q /\ r.time < cutoff + Milli
  <2> SUFFICES ASSUME NEW q \in known
               PROVE  \E r \in d.observations : Serialised(r) = q /\ r.time < cutoff + Milli
    OBVIOUS
  <2>1. q \in rows /\ q.time <= cutoff
    BY <1>4
  <2>2. PICK r \in d.observations : q = Serialised(r)
    BY <2>1
  <2>3. Milli \in Nat
    BY TicksAssumption
  <2>4. r.time < cutoff + Milli
    <3>1. r.time < q.time + Milli /\ q.time \in Nat /\ r.time \in Nat
      BY <1>0, <1>2, <2>2
    <3> QED BY <1>5, <2>1, <2>3, <3>1
  <2> QED BY <2>2, <2>4
<1>8. SelectionSound(known, Latest1(stored, cutoff, series), Period1)
  <2>1. known \in SUBSET rows
    BY <1>4
  <2>2. \A q \in rows : q.time \in Nat
    BY <1>2
  <2> HIDE DEF known, rows
  <2>3. IsFiniteSet(known) /\ \A q \in known : q.time \in Nat
    BY <1>3, <2>1, <2>2, FS_Subset
  <2>4. SelectionSound(known, LatestBy(known, Period1), Period1)
    BY <2>3, SelectionSound1
  <2>5. Latest1(stored, cutoff, series) = LatestBy(known, Period1)
    BY DEF Latest1, known
  <2> QED BY <2>4, <2>5
<1> QED BY <1>6, <1>7, <1>8

LEMMA AdmittedIsCausal ==
  ASSUME NEW name \in Admitted
  PROVE  Causal[name]
<1> DEFINE d == Candidates[name]
<1>1. name \in DOMAIN Candidates /\ d.schema \in {"v1", "v2"} /\ Admit(d)
  BY SchemasAre DEF Admitted
<1>2. Causal[name] = IF d.schema = "v2" THEN Causal2(d) ELSE Causal1(d)
  BY TabulatedIs DEF Causal
<1>3. CASE d.schema = "v2"
  <2>1. Typed2(d)
    BY <1>1, <1>3, RowsAssumption DEF Typed2, Admit
  <2> QED BY <1>2, <1>3, <2>1, CausalTwo
<1>4. CASE d.schema = "v1"
  <2>1. Typed1(d)
    BY <1>1, <1>4, RowsAssumption DEF Typed1
  <2> QED BY <1>2, <1>4, <2>1, CausalOne
<1> QED BY <1>1, <1>3, <1>4

(* What a reader has replayed answers no question about a past instant     *)
(* from the future, and chooses between no two vintages that appeared      *)
(* together (asof_v2.py:43-119, asof.py:29-75, lineage.py:28-48,           *)
(* dataset_v2.py:221-240, serialization.py:18-21).                         *)
THEOREM NothingFromTheFuture == FabricSpec => []KnownThenOnly
<1>1. KnownThenOnly
  BY AdmittedIsCausal DEF KnownThenOnly
<1> QED BY <1>1, PTL
============================================================================
