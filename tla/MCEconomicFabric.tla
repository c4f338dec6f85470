-------------------------- MODULE MCEconomicFabric --------------------------
(* Inputs of the economic data fabric: datasets of one to five rows, with  *)
(* one defect each where they must be refused, and raw evidence.           *)
EXTENDS EconomicFabric

MCGrain == [EXACT_SECOND |-> 4, EXACT_MINUTE |-> 8, EXACT_HOUR |-> 16]

Receipt(n) == [path |-> n, digest |-> n]
Definition(series) == [series |-> series, unit |-> "u"]

\* An exact statement, event and observation of instant t.
Statement(id, event, t) ==
  [id |-> id, event |-> event, consumer |-> "public", channel |-> "web",
   precision |-> "EXACT_HOUR", time |-> t, date |-> None, from |-> None, to |-> None,
   retrieved |-> 96, raw |-> "raw1"]
Event(id, ids, admitted, t) ==
  [id |-> id, published |-> None, time |-> t, date |-> None, consumer |-> "public",
   channel |-> "web", precision |-> "EXACT_HOUR", ids |-> ids, admitted |-> admitted,
   status |-> "RESOLVED", sequence |-> "INITIAL", class |-> "INITIAL",
   predecessor |-> None, retrieved |-> 96, raw |-> "raw1"]
Row(event, admitted, t) ==
  [series |-> "cpi", at |-> 8, start |-> 0, end |-> 1, time |-> t, date |-> None,
   vintage |-> None, retrieved |-> 96, value |-> 1, unit |-> "u", event |-> event,
   admitted |-> admitted, channel |-> "web", precision |-> "EXACT_HOUR",
   sequence |-> "INITIAL", class |-> "INITIAL", predecessor |-> None, raw |-> "raw1"]
Revised(r, predecessor) ==
  [r EXCEPT !.class = "CORRECTION", !.sequence = "CORRECTION", !.predecessor = predecessor]
RevisedEvent(e) == [e EXCEPT !.class = "CORRECTION", !.sequence = "CORRECTION"]
Dated(r, date) == [r EXCEPT !.precision = "DATE_ONLY", !.time = None, !.date = date]
Unplaced(r) == [r EXCEPT !.precision = "UNKNOWN", !.time = None, !.admitted = None]

Row1 == Row("p1", "e1", 16)
Initial ==
  [schema |-> "v2", registry |-> {Definition("cpi")}, inventory |-> {Receipt("raw1")},
   observations |-> {Row1}, events |-> {Event("p1", {"e1"}, "e1", 16)},
   evidence |-> {Statement("e1", "p1", 16)}]
Revision(t) ==
  [Initial EXCEPT
     !.observations = @ \cup {Revised(Row("p2", "e2", t), Row1)},
     !.events = @ \cup {RevisedEvent(Event("p2", {"e2"}, "e2", t))},
     !.evidence = @ \cup {Statement("e2", "p2", t)}]
\* An early release, a correction dated to a day, one never placed in time,
\* and two vintages of another series that appeared together.
Gdp(r) == [r EXCEPT !.series = "gdp"]
Rich ==
  [Revision(48) EXCEPT
     !.registry = @ \cup {Definition("gdp")},
     !.observations = @ \cup {Revised(Dated(Row("p3", "e3", 0), 1), Row1),
                              Revised(Unplaced(Row("p4", "e4", 0)), Row1),
                              Gdp(Row1), Revised(Gdp(Row("p5", "e5", 16)), Gdp(Row1))},
     !.events = @ \cup {RevisedEvent(Dated(Event("p3", {"e3"}, "e3", 0), 1)),
                        [RevisedEvent(Unplaced(Event("p4", {"e4"}, None, 0)))
                           EXCEPT !.status = "CONFLICTED"],
                        RevisedEvent(Event("p5", {"e5"}, "e5", 16))},
     !.evidence = @ \cup {Dated(Statement("e3", "p3", 0), 1), Statement("e4", "p4", 64),
                          Statement("e5", "p5", 16)}]
\* The same rows, and one statement more from a second piece of evidence.
Supported ==
  [Rich EXCEPT !.inventory = @ \cup {Receipt("raw2")},
               !.evidence = @ \cup {[Statement("e6", "p1", 32) EXCEPT !.channel = "wire"]}]

\* Defects.
Mistimed == [Initial EXCEPT !.observations = {[Row1 EXCEPT !.time = 9]}]
Disputed ==
  [Initial EXCEPT !.events = {Event("p1", {"e1", "e2"}, "e1", 16)},
                  !.evidence = @ \cup {Statement("e2", "p1", 32)}]
Imprecise == [Initial EXCEPT !.evidence = {Statement("e1", "p1", 20)}]
Orphan == [Revision(48) EXCEPT !.observations = @ \ {Row1}]
Looped == [Initial EXCEPT !.events = {[Event("p1", {"e1"}, "e1", 16) EXCEPT !.predecessor = "p1"]}]
Unregistered == [Initial EXCEPT !.registry = {Definition("gdp")}]
Uncovered == [Initial EXCEPT !.inventory = {Receipt("raw2")}]
Early == [Initial EXCEPT !.observations = {[Row1 EXCEPT !.at = 24]}]

LegacyRow(t, release) ==
  [series |-> "cpi", at |-> 8, time |-> t, vintage |-> None, retrieved |-> 96,
   source |-> "bls", release |-> release, value |-> 1, unit |-> "u", raw |-> "raw1"]
Legacy1 ==
  [schema |-> "v1", registry |-> {Definition("cpi")}, inventory |-> {Receipt("raw1")},
   observations |-> {LegacyRow(17, "a"), LegacyRow(32, "b")}]
\* Two datasets that are admitted and whose bundles no reader accepts: an
\* event whose availability is unknown leaves the file of evidence empty, and
\* two v1 rows less than a millisecond apart become one identity in the file.
Undated ==
  [Initial EXCEPT
     !.observations = {Unplaced(Row1)}, !.evidence = {},
     !.events = {[Unplaced(Event("p1", {}, None, 0)) EXCEPT !.status = "UNKNOWN"]}]
Close == [Legacy1 EXCEPT !.observations = {LegacyRow(16, "a"), LegacyRow(17, "a")}]
ASSUME UndatedAssumption == Admit(Undated) /\ Content(Undated, "evidence") = {}
ASSUME CloseAssumption == Admit(Close) /\ Stored(Close).observations = {LegacyRow(16, "a")}

MCCandidates ==
  [rich |-> Rich, supported |-> Supported, mistimed |-> Mistimed, disputed |-> Disputed,
   imprecise |-> Imprecise, orphan |-> Orphan, looped |-> Looped,
   unregistered |-> Unregistered, uncovered |-> Uncovered, early |-> Early,
   legacy |-> Legacy1]

MCPuts == {<<FileOf("raw1", Raw("raw2"))>>}
MCBundles == PlansOf("v2")
MCLegacy == PlansOf("v1")
Interchangeable == Permutations(Writers)
=============================================================================
