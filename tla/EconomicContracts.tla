------------------------- MODULE EconomicContracts -------------------------
(***************************************************************************)
(* The records of the economic data fabric and what a dataset has to       *)
(* satisfy to be built: availability.py, publication.py, observation.py,   *)
(* observation_v2.py, series.py, the receipts of storage.py, and the       *)
(* admission of dataset.py and dataset_v2.py.  Instants are ticks of less  *)
(* than a millisecond, dates are numbers of days.  Contents stand for      *)
(* their digests: the version_id of an observation is the row itself.      *)
(***************************************************************************)
EXTENDS Naturals, FiniteSets

CONSTANTS
  None,
  Milli,     \* ticks of a millisecond
  Grain,     \* ticks of the unit of every exact precision
  DayTicks

Exact == {"EXACT_SECOND", "EXACT_MINUTE", "EXACT_HOUR"}

ASSUME TicksAssumption ==
  /\ {Milli, DayTicks} \subseteq Nat \ {0}
  /\ Grain \in [Exact -> Nat \ {0}]
  /\ None \notin Nat

Unique(rows, Id(_)) == \A a, b \in rows : Id(a) = Id(b) => a = b

\* A walk along the predecessors from any of the ids ends.
Acyclic(ids, Predecessor(_)) ==
  \A some \in SUBSET ids \ {{}} : \E id \in some : Predecessor(id) \notin some

-----------------------------------------------------------------------------
\* EconomicAvailabilityEvidence
EvidenceValid(e) ==
  \/ /\ e.precision \in Exact
     /\ e.time # None /\ {e.date, e.from, e.to} = {None}
     /\ e.time % Grain[e.precision] = 0
     /\ e.time <= e.retrieved
  \/ /\ e.precision = "DATE_ONLY"
     /\ e.date # None /\ {e.time, e.from, e.to} = {None}
  \/ /\ e.precision = "INFERRED_INTERVAL"
     /\ {e.time, e.date} = {None} /\ None \notin {e.from, e.to}
     /\ e.from <= e.to /\ e.to <= e.retrieved
  \/ e.precision = "UNKNOWN" /\ {e.time, e.date, e.from, e.to} = {None}

\* EconomicPublicationEvent
EventValid(e) ==
  /\ e.published # None => e.published <= e.retrieved
  /\ \/ /\ e.status = "RESOLVED" /\ e.admitted \in e.ids
        /\ \/ /\ e.precision \in Exact
              /\ e.date = None /\ e.time # None /\ e.time <= e.retrieved
           \/ e.precision = "DATE_ONLY" /\ e.date # None /\ e.time = None
     \/ /\ e.status \in {"CONFLICTED", "UNKNOWN"}
        /\ {e.time, e.date, e.admitted} = {None}

\* EconomicObservationV2
ObservationValid(r) ==
  /\ r.start <= r.end
  /\ r.vintage # None => r.vintage <= r.retrieved
  /\ \/ /\ r.precision \in Exact
        /\ r.date = None /\ None \notin {r.time, r.admitted}
        /\ r.at <= r.time /\ r.time <= r.retrieved
     \/ r.precision = "DATE_ONLY" /\ r.time = None /\ None \notin {r.date, r.admitted}
     \/ /\ r.precision \in {"INFERRED_INTERVAL", "UNKNOWN"}
        /\ {r.time, r.date, r.admitted} = {None}

\* EconomicObservation, v1
ObservationValid1(r) ==
  /\ r.at <= r.time /\ r.time <= r.retrieved
  /\ r.vintage # None => r.vintage <= r.retrieved

\* EconomicSeriesRegistry and RawEvidenceInventory
RegistryValid(registry) ==
  registry # {} /\ Unique(registry, LAMBDA definition : definition.series)
InventoryValid(inventory) ==
  inventory # {} /\ Unique(inventory, LAMBDA receipt : receipt.path)
Digests(inventory) == {receipt.digest : receipt \in inventory}

Registered(row, registry) ==
  \E definition \in registry : definition.series = row.series /\ definition.unit = row.unit

-----------------------------------------------------------------------------
\* build_economic_dataset_v2, in the order of its checks.
EventGraph(events) ==
  LET ids == {e.id : e \in events}
      predecessor(id) == (CHOOSE e \in events : e.id = id).predecessor
  IN  /\ \A id \in ids : predecessor(id) \in ids \cup {None}
      /\ Acyclic(ids, predecessor)

\* Two statements of one precision class that contradict each other.
Disagree(e, item) ==
  \/ {e.precision, item.precision} \subseteq Exact /\ item.time # e.time
  \/ {e.precision, item.precision} = {"DATE_ONLY"} /\ item.date # e.date

SameAudience(e, item) == e.consumer = item.consumer /\ e.channel = item.channel
SameAvailability(a, b) == a.precision = b.precision /\ a.time = b.time /\ a.date = b.date

ResolvedEventEvidence(e, evidence) ==
  e.admitted # None =>
    /\ \E item \in evidence :
         /\ item.id = e.admitted /\ item.event = e.id
         /\ SameAudience(e, item) /\ SameAvailability(e, item)
    /\ e.status = "RESOLVED" =>
         \A item \in evidence :
           item.id \in e.ids \ {e.admitted} /\ SameAudience(e, item) => ~Disagree(e, item)

EvidenceClosure(events, evidence, digests) ==
  /\ \A item \in evidence : (\E e \in events : e.id = item.event) /\ item.raw \in digests
  /\ \A e \in events :
       /\ e.raw \in digests
       /\ \A id \in e.ids : \E item \in evidence : item.id = id /\ item.event = e.id
       /\ ResolvedEventEvidence(e, evidence)

\* Mutant of SameAdmission: an observation keeps an availability of its own.
SameAdmissionUntimed(r, e) ==
  /\ r.admitted = e.admitted /\ r.channel = e.channel
  /\ r.precision = e.precision
  /\ r.sequence = e.sequence /\ r.class = e.class

SameAdmission(r, e) ==
  /\ r.admitted = e.admitted /\ r.channel = e.channel
  /\ SameAvailability(r, e)
  /\ r.sequence = e.sequence /\ r.class = e.class

ObservationClosure(d) ==
  \A r \in d.observations :
    /\ Registered(r, d.registry)
    /\ r.raw \in Digests(d.inventory)
    /\ \E e \in d.events : e.id = r.event /\ SameAdmission(r, e)
    /\ r.admitted # None => \E item \in d.evidence : item.id = r.admitted

ObservationGraph(observations) ==
  /\ \A r \in observations :
       \/ r.class = "INITIAL" /\ r.predecessor = None
       \/ /\ r.class # "INITIAL" /\ r.predecessor \in observations
          /\ r.predecessor.series = r.series
          /\ r.predecessor.start = r.start /\ r.predecessor.end = r.end
  /\ Acyclic(observations, LAMBDA r : r.predecessor)

Admit2(d) ==
  /\ RegistryValid(d.registry) /\ InventoryValid(d.inventory)
  /\ \A item \in d.evidence : EvidenceValid(item)
  /\ \A e \in d.events : EventValid(e)
  /\ \A r \in d.observations : ObservationValid(r)
  /\ d.observations # {} /\ d.events # {}
  /\ Unique(d.events, LAMBDA e : e.id) /\ Unique(d.evidence, LAMBDA item : item.id)
  /\ EventGraph(d.events)
  /\ EvidenceClosure(d.events, d.evidence, Digests(d.inventory))
  /\ ObservationClosure(d)
  /\ ObservationGraph(d.observations)

\* build_economic_dataset
IdentityKey(r) == <<r.series, r.at, r.time, r.source, r.release>>
Admit1(d) ==
  /\ RegistryValid(d.registry) /\ InventoryValid(d.inventory)
  /\ \A r \in d.observations :
       ObservationValid1(r) /\ Registered(r, d.registry) /\ r.raw \in Digests(d.inventory)
  /\ d.observations # {}
  /\ Unique(d.observations, IdentityKey)

Admit(d) == IF d.schema = "v2" THEN Admit2(d) ELSE Admit1(d)

-----------------------------------------------------------------------------
\* _format_utc of serialization.py keeps milliseconds; v2 keeps everything.
ToMilli(t) == IF t = None THEN None ELSE (t \div Milli) * Milli
Serialised(r) ==
  [r EXCEPT !.at = ToMilli(@), !.time = ToMilli(@), !.vintage = ToMilli(@),
            !.retrieved = ToMilli(@)]

\* The dataset that the files of d hold.
Stored(d) ==
  IF d.schema = "v2" THEN d
  ELSE [d EXCEPT !.observations = {Serialised(r) : r \in @}]

\* dataset_id digests the digests of the files; the counts and bounds of
\* the manifest follow from the files, in milliseconds too.
DatasetId(d) == Stored(d)
Manifest(d) == [id |-> DatasetId(d), files |-> Stored(d)]
=============================================================================
