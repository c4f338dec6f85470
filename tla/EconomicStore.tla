--------------------------- MODULE EconomicStore ---------------------------
(***************************************************************************)
(* The writers of the economic data fabric: LocalEconomicEvidenceStore.put *)
(* (economics/data/storage.py), write_economic_bundle (dataset.py, v1) and *)
(* write_economic_bundle_v2 (dataset_v2.py).  Unlike write_immutable they  *)
(* create the final name first and fill the file then, so that other       *)
(* processes, and whoever comes after a crash, can meet an incomplete file.*)
(***************************************************************************)
EXTENDS Naturals, SequencesExt

CONSTANTS
  Writers,
  Puts,       \* plans of put: one file
  Bundles,    \* plans of write_economic_bundle_v2: the files in order
  Legacy,     \* plans of write_economic_bundle
  Absent, Torn

\* A plan is a sequence of files, each with its complete payload.
Plans == Puts \cup Bundles \cup Legacy
Items == UNION {{plan[k] : k \in 1 .. Len(plan)} : plan \in Plans}
Paths == {item.path : item \in Items}
Payloads == {item.payload : item \in Items}

ASSUME PlansAssumption ==
  /\ \A plan \in Plans : plan \in Seq([path : Paths, payload : Payloads]) /\ Len(plan) # 0
  /\ \A plan \in Plans : \A j, k \in 1 .. Len(plan) : plan[j].path = plan[k].path => j = k
  /\ \A plan \in Puts : Len(plan) = 1
  /\ {Absent, Torn} \cap Payloads = {} /\ Absent # Torn
\* manifest.json is the last file of a bundle, holds the digests of the
\* others, and is no raw evidence.
ASSUME ManifestAssumption ==
  /\ \A b, c \in Bundles \cup Legacy : Last(b) = Last(c) => b = c
  /\ \A b, c \in Bundles \cup Legacy : Last(b).path = Last(c).path
  /\ \A b \in Bundles \cup Legacy, plan \in Puts : Last(plan).path # Last(b).path

VARIABLES
  file,   \* file[p]: a complete payload, Torn, or Absent
  writer  \* writer[w]: [pc, plan, next], the call that w makes or made last

vars == <<file, writer>>

Idle == [pc |-> "idle", plan |-> <<>>, next |-> 1]
Item(w) == writer[w].plan[writer[w].next]
Busy == {"scan", "look", "compare", "open", "fill"}

Goto(w, point) == writer' = [writer EXCEPT ![w].pc = point]
\* The call raises; nothing of it is left but the files.
Fail(w) == writer' = [writer EXCEPT ![w] = [Idle EXCEPT !.pc = "failed"]]

Init ==
  /\ file = [p \in Paths |-> Absent]
  /\ writer = [w \in Writers |-> Idle]

Begin(w) ==
  /\ writer[w].pc \notin Busy
  /\ \E plan \in Plans :
       writer' = [writer EXCEPT ![w] =
         [pc |-> IF plan \in Legacy THEN "scan" ELSE "look", plan |-> plan, next |-> 1]]
  /\ UNCHANGED file

\* The first loop of write_economic_bundle, which only compares.
Scan(w) ==
  /\ writer[w].pc = "scan"
  /\ IF file[Item(w).path] \notin {Absent, Item(w).payload}
       THEN Fail(w)
       ELSE LET call == writer[w]
            IN  writer' = [writer EXCEPT ![w] =
                  IF call.next = Len(call.plan) THEN [call EXCEPT !.pc = "look", !.next = 1]
                                                ELSE [call EXCEPT !.next = call.next + 1]]
  /\ UNCHANGED file

\* The next file of the plan, if there is one.
Advance(w) ==
  IF writer[w].next = Len(writer[w].plan)
    THEN Goto(w, "done")
    ELSE writer' = [writer EXCEPT ![w] =
           [pc |-> "look", plan |-> writer[w].plan, next |-> writer[w].next + 1]]

\* path.exists()
Look(w) ==
  /\ writer[w].pc = "look"
  /\ Goto(w, IF file[Item(w).path] = Absent THEN "open" ELSE "compare")
  /\ UNCHANGED file

\* Mutant of Compare: what is there counts as the payload.
CompareTrusts(w) ==
  /\ writer[w].pc = "compare"
  /\ Advance(w)
  /\ UNCHANGED file

\* path.read_bytes() != payload
Compare(w) ==
  /\ writer[w].pc = "compare"
  /\ IF file[Item(w).path] = Item(w).payload THEN Advance(w) ELSE Fail(w)
  /\ UNCHANGED file

\* path.open("xb"): if somebody else was faster, put and v1 compare, v2 raises.
Open(w) ==
  /\ writer[w].pc = "open"
  /\ IF file[Item(w).path] = Absent
       THEN file' = [file EXCEPT ![Item(w).path] = Torn] /\ Goto(w, "fill")
       ELSE /\ IF writer[w].plan \in Bundles THEN Fail(w) ELSE Goto(w, "compare")
            /\ UNCHANGED file

\* handle.write(payload), and the end of the with statement.
Fill(w) ==
  /\ writer[w].pc = "fill"
  /\ file' = [file EXCEPT ![Item(w).path] = Item(w).payload]
  /\ Advance(w)

\* The process is killed, or a system call fails.
Interrupt(w) ==
  /\ writer[w].pc \in Busy
  /\ Fail(w)
  /\ UNCHANGED file

Next ==
  \E w \in Writers :
    Begin(w) \/ Scan(w) \/ Look(w) \/ Compare(w) \/ Open(w) \/ Fill(w) \/ Interrupt(w)
Spec == Init /\ [][Next]_vars

-----------------------------------------------------------------------------
TypeOK ==
  /\ file \in [Paths -> Payloads \cup {Absent, Torn}]
  /\ writer \in [Writers -> [pc : Busy \cup {"idle", "done", "failed"},
                            plan : Plans \cup {<<>>}, next : Nat]]
  /\ \A w \in Writers : writer[w].pc \in Busy \cup {"done"} =>
       /\ writer[w].plan \in Plans
       /\ writer[w].next \in 1 .. Len(writer[w].plan)

Written(plan) == \A k \in 1 .. Len(plan) : file[plan[k].path] = plan[k].payload

(* A receipt, or a bundle manifest, is returned only when every file it    *)
(* names is complete with its digest, and stays so.                        *)
ReceiptsAreTrue == \A w \in Writers : writer[w].pc = "done" => Written(writer[w].plan)

(* The manifest closes its bundle: two bundles written into one root, with *)
(* crashes between and within files, never leave a manifest next to a file *)
(* that is missing, incomplete or of the other bundle.                     *)
ManifestCloses ==
  \A b \in Bundles \cup Legacy : file[Last(b).path] = Last(b).payload => Written(b)
=============================================================================
