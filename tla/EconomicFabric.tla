--------------------------- MODULE EconomicFabric ---------------------------
(***************************************************************************)
(* The economic data fabric as a whole: datasets that were admitted are    *)
(* written by the writers of EconomicStore into one bundle directory while *)
(* raw evidence arrives there and processes are killed, and readers replay *)
(* and verify that directory: replay_v2.py, verification_v2.py and their   *)
(* v1 twins.  What a reader accepts answers the questions of EconomicAsOf. *)
(***************************************************************************)
EXTENDS EconomicStore, EconomicAsOf

CONSTANTS
  Readers,
  Candidates   \* the inputs of the build functions, by name

Tabulated(f) == CHOOSE g \in {f} : g = f

Admitted == {name \in DOMAIN Candidates : Admit(Candidates[name])}

Ledgers(schema) ==
  IF schema = "v2" THEN <<"series", "observations-v2", "events", "evidence", "inventory">>
                   ELSE <<"series", "observations", "inventory">>

\* The content of a file of the bundle.
Content(d, ledger) ==
  CASE ledger = "series" -> d.registry
    [] ledger \in {"observations", "observations-v2"} -> Stored(d).observations
    [] ledger = "events" -> d.events
    [] ledger = "evidence" -> d.evidence
    [] ledger = "inventory" -> d.inventory
    [] ledger = "manifest" -> Manifest(d)

\* Bytes are known by the first candidate that has them.
BytesOf ==
  LET has(name) == Range(Ledgers(Candidates[name].schema)) \cup {"manifest"}
      first(name, ledger) ==
        CHOOSE other \in Admitted :
          /\ ledger \in has(other)
          /\ Content(Candidates[other], ledger) = Content(Candidates[name], ledger)
  IN  Tabulated([name \in Admitted |->
        Tabulated([ledger \in has(name) |-> [ledger |-> ledger, of |-> first(name, ledger)]])])
Raw(digest) == [ledger |-> "raw", of |-> digest]

FileOf(path, payload) == [path |-> path, payload |-> payload]

\* planned: the raw evidence, the ledgers, the manifest.
PlanOf(name) ==
  LET d == Candidates[name]
      receipts == SetToSeq(d.inventory)
      ledgers == Append(Ledgers(d.schema), "manifest")
  IN  [k \in DOMAIN receipts |-> FileOf(receipts[k].path, Raw(receipts[k].digest))]
        \o [k \in DOMAIN ledgers |-> FileOf(ledgers[k], BytesOf[name][ledgers[k]])]
PlansOf(schema) == {PlanOf(name) : name \in {n \in Admitted : Candidates[n].schema = schema}}

ASSUME CandidatesAssumption == Bundles = PlansOf("v2") /\ Legacy = PlansOf("v1")

RawPaths ==
  {plan[1].path : plan \in Puts}
    \cup UNION {{receipt.path : receipt \in Candidates[name].inventory} : name \in Admitted}

\* What the dataclasses and their parsers ensure of every row.
LegacyFields ==
  {"series", "at", "time", "vintage", "retrieved", "source", "release", "value", "unit", "raw"}
LegacyRowValid(r) ==
  /\ r = [field \in LegacyFields |-> r[field]]
  /\ {r.at, r.time, r.retrieved} \subseteq Nat /\ r.vintage \in Nat \cup {None}
ASSUME RowsAssumption ==
  \A name \in DOMAIN Candidates :
    LET d == Candidates[name] IN
    /\ d.schema \in {"v1", "v2"} /\ IsFiniteSet(d.observations) /\ IsFiniteSet(d.inventory)
    /\ {"schema", "observations"} \subseteq DOMAIN d
    /\ d.schema = "v1" => \A r \in d.observations : LegacyRowValid(r)
    /\ d.schema = "v2" =>
         /\ \A r \in d.observations \cup d.evidence : {r.time, r.date} \subseteq Nat \cup {None}
         /\ \A item \in d.evidence : item.id # None
\* Datasets of both schemas are written into the directory, and raw evidence
\* lies in a directory of its own.
LedgerFiles == Range(Ledgers("v1")) \cup Range(Ledgers("v2")) \cup {"manifest"}
ASSUME LayoutAssumption == LedgerFiles \subseteq Paths /\ LedgerFiles \cap RawPaths = {}

VARIABLE reader  \* reader[r]: [pc, schema, got, next], its replay and verification
fabricVars == <<file, writer, reader>>

NotReading == [pc |-> "idle", schema |-> "v2", got |-> <<>>, next |-> 1]
FabricInit == Init /\ reader = [r \in Readers |-> NotReading]

Move(r, point) == reader' = [reader EXCEPT ![r].pc = point, ![r].next = 1]
Ledger(r) == Ledgers(reader[r].schema)[reader[r].next]

\* The files whose lines are some of the lines of another file of that name.
Parts ==
  LET payloads(ledger) ==
        {BytesOf[name][ledger] : name \in {n \in Admitted : ledger \in DOMAIN BytesOf[n]}}
      rows(payload) == Content(Candidates[payload.of], payload.ledger)
  IN  Tabulated([ledger \in Range(Ledgers("v1")) \cup Range(Ledgers("v2")) |->
        {part \in payloads(ledger) : \E whole \in payloads(ledger) :
           part # whole /\ rows(part) \subseteq rows(whole)}])

\* Who reads a file that is being filled finds it unreadable, or so many of
\* its lines that they pass for another file.
Readings(path) ==
  IF file[path] = Torn THEN {Torn} \cup Parts[path] ELSE {file[path]}

BeginReplay(r) ==
  /\ reader[r].pc \in {"idle", "replayed", "verified", "refused"}
  /\ \E schema \in {"v1", "v2"} :
       reader' = [reader EXCEPT ![r] = [NotReading EXCEPT !.pc = "load", !.schema = schema]]
  /\ UNCHANGED <<file, writer>>

\* _jsonl: missing, invalid and empty files are refused.
Readable(payload) ==
  payload \notin {Absent, Torn} /\ Content(Candidates[payload.of], payload.ledger) # {}

LoadLedger(r) ==
  /\ reader[r].pc = "load"
  /\ \E payload \in Readings(Ledger(r)) :
       IF ~Readable(payload) THEN Move(r, "refused")
       ELSE reader' = [reader EXCEPT
              ![r].got = Append(@, payload),
              ![r].pc = IF reader[r].next = Len(Ledgers(reader[r].schema)) THEN "build" ELSE @,
              ![r].next = @ + 1]
  /\ UNCHANGED <<file, writer>>

\* The rows of the files that r has read, each through its contract.
Rows(r, ledger) ==
  LET k == CHOOSE k \in DOMAIN reader[r].got : reader[r].got[k].ledger = ledger
  IN  Content(Candidates[reader[r].got[k].of], ledger)
Loaded2(r) ==
  [schema |-> "v2", registry |-> Rows(r, "series"), inventory |-> Rows(r, "inventory"),
   observations |-> Rows(r, "observations-v2"),
   events |-> Rows(r, "events"), evidence |-> Rows(r, "evidence")]
Loaded1(r) ==
  [schema |-> "v1", registry |-> Rows(r, "series"), inventory |-> Rows(r, "inventory"),
   observations |-> Rows(r, "observations")]
Loaded(r) == IF reader[r].schema = "v2" THEN Loaded2(r) ELSE Loaded1(r)

RawHolds(inventory) ==
  \A receipt \in inventory : file[receipt.path] = Raw(receipt.digest)

\* _validate_raw, and the build from what was read.
Rebuild(r) ==
  /\ reader[r].pc = "build"
  /\ Move(r, IF RawHolds(Loaded(r).inventory) /\ Admit(Loaded(r)) THEN "bytes" ELSE "refused")
  /\ UNCHANGED <<file, writer>>

\* The files are read again and must be what the rebuilt dataset serialises to.
CompareBytes(r) ==
  /\ reader[r].pc = "bytes"
  /\ \E payload \in Readings(Ledger(r)) :
       IF payload # reader[r].got[reader[r].next] THEN Move(r, "refused")
       ELSE IF reader[r].next = Len(reader[r].got) THEN Move(r, "manifest")
       ELSE reader' = [reader EXCEPT ![r].next = @ + 1]
  /\ UNCHANGED <<file, writer>>

\* Mutant of ReadManifest: a manifest that is there is enough.
ReadManifestLoose(r) ==
  /\ reader[r].pc = "manifest"
  /\ Move(r, IF file["manifest"] \notin {Absent, Torn} THEN "replayed" ELSE "refused")
  /\ UNCHANGED <<file, writer>>

ReadManifest(r) ==
  /\ reader[r].pc = "manifest"
  /\ LET payload == file["manifest"]
     IN  Move(r, IF /\ payload \notin {Absent, Torn}
                    /\ Content(Candidates[payload.of], "manifest") = Manifest(Loaded(r))
                   THEN "replayed" ELSE "refused")
  /\ UNCHANGED <<file, writer>>

\* Mutant of Verify: raw evidence that is not declared is overlooked.
VerifyDeclared(r) ==
  /\ reader[r].pc = "replayed"
  /\ Move(r, IF /\ \A k \in DOMAIN reader[r].got :
                      file[Ledgers(reader[r].schema)[k]] = reader[r].got[k]
                 /\ RawHolds(Loaded(r).inventory)
                THEN "verified" ELSE "refused")
  /\ UNCHANGED <<file, writer>>

\* The rest of verify_economic_bundle: the digests, and no undeclared raw file.
Verify(r) ==
  /\ reader[r].pc = "replayed"
  /\ LET declared == {receipt.path : receipt \in Loaded(r).inventory}
     IN  Move(r, IF /\ \A k \in DOMAIN reader[r].got :
                         file[Ledgers(reader[r].schema)[k]] = reader[r].got[k]
                    /\ {path \in RawPaths : file[path] # Absent} = declared
                    /\ RawHolds(Loaded(r).inventory)
                   THEN "verified" ELSE "refused")
  /\ UNCHANGED <<file, writer>>

Read(r) ==
  \/ BeginReplay(r) \/ LoadLedger(r) \/ Rebuild(r)
  \/ CompareBytes(r) \/ ReadManifest(r) \/ Verify(r)

FabricNext ==
  \/ Next /\ UNCHANGED reader
  \/ \E r \in Readers : Read(r)
FabricSpec == FabricInit /\ [][FabricNext]_fabricVars

-----------------------------------------------------------------------------
Accepted(r) == reader[r].pc \in {"replayed", "verified"}
Same(r, name) ==
  /\ Candidates[name].schema = reader[r].schema
  /\ Loaded(r) = Stored(Candidates[name])

(* replay_economic_bundle(_v2) returns a dataset only if it is one that    *)
(* was written and all of it is on disk: neither what a killed writer left *)
(* nor the ledgers of two bundles that share files pass for a dataset.     *)
ReplayIsWhole ==
  \A r \in Readers : Accepted(r) =>
    \E name \in Admitted : Same(r, name) /\ Written(PlanOf(name))

(* verify_economic_bundle(_v2) confirms a dataset only where all the raw   *)
(* evidence on disk is, byte by byte, evidence of its bundle: what a put   *)
(* or another bundle left there, refused or killed, complete or torn, and  *)
(* whatever ledgers it had already shared with this one, is not confirmed  *)
(* along with it.                                                          *)
FilesOf(name) == {PlanOf(name)[k] : k \in 1 .. Len(PlanOf(name))}
ConfirmsAlone ==
  [][\A r \in Readers : reader[r].pc # "verified" /\ reader'[r].pc = "verified" =>
       \E name \in Admitted :
         /\ Same(r, name) /\ Written(PlanOf(name))
         /\ \A path \in RawPaths :
              file[path] # Absent => FileOf(path, file[path]) \in FilesOf(name)]_fabricVars

-----------------------------------------------------------------------------
\* The observations that evidence places at or before an instant, or before
\* a day begins.
Evidences(d, r) ==
  {item \in d.evidence : item.id = r.admitted /\ item.event = r.event /\ item.channel = r.channel}
KnownAt(d, cutoff) ==
  {r \in d.observations : \E item \in Evidences(d, r) :
     item.precision \in Exact /\ item.time <= cutoff}
KnownBefore(d, day) ==
  {r \in d.observations : \E item \in Evidences(d, r) :
     \/ item.precision \in Exact /\ item.time < day * DayTicks
     \/ item.precision = "DATE_ONLY" /\ item.date < day}

Instants(d) == {r.time : r \in d.observations} \ {None}
Cutoffs(d) == {0} \cup UNION {{t, t + 1} : t \in Instants(d)}
Seriess(d) == {definition.series : definition \in d.registry} \cup {None}

SelectionSound(known, answer, Key(_)) ==
  LET rivals(r) == {q \in known : Key(q) = Key(r) /\ q.time = r.time /\ q # r}
      newest == {r \in known : \A q \in known : Key(q) = Key(r) => q.time <= r.time}
  IN  IF \E r \in newest : rivals(r) # {} THEN answer = Tied
      ELSE answer = newest

Causal2(d) ==
  /\ \A cutoff \in Cutoffs(d), series \in Seriess(d) :
       LET known == OfSeries(KnownAt(d, cutoff), series)
       IN  /\ AsOf2(d, cutoff, series) = known
           /\ SelectionSound(known, Latest2(d, cutoff, series), Period2)
  /\ \A day \in {Day(t) : t \in Cutoffs(d)} \cup ({r.date : r \in d.observations} \ {None}) :
       AsOfDate(d, day, None) = KnownBefore(d, day)
  /\ \A a, b \in d.observations, cutoff \in Cutoffs(d) :
       Admits(Merge({LineageOf(a), LineageOf(b)}), cutoff) <=> {a, b} \subseteq KnownAt(d, cutoff)

\* v1 keeps milliseconds: what is replayed may be known early by less than one.
Causal1(d) ==
  LET stored == Stored(d)
  IN  \A cutoff \in Cutoffs(d), series \in Seriess(d) :
        LET known == AsOf1(stored, cutoff, series)
        IN  /\ \A r \in d.observations :
                 r.time <= cutoff /\ series \in {None, r.series} => Serialised(r) \in known
            /\ \A q \in known : \E r \in d.observations :
                 Serialised(r) = q /\ r.time < cutoff + Milli
            /\ SelectionSound(known, Latest1(stored, cutoff, series), Period1)

Causal ==
  Tabulated([name \in Admitted |->
    LET d == Candidates[name] IN IF d.schema = "v2" THEN Causal2(d) ELSE Causal1(d)])

(* No question about a past instant is answered from the future: what a    *)
(* replayed dataset shows at an instant is exactly what its retained       *)
(* evidence places there, a date-only statement only counts from the next  *)
(* day, a derived input waits for its last ancestor, and of two vintages   *)
(* that appeared together neither is chosen.                               *)
KnownThenOnly ==
  \A r \in Readers : Accepted(r) => \A name \in Admitted : Same(r, name) => Causal[name]
=============================================================================
