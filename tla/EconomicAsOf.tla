---------------------------- MODULE EconomicAsOf ----------------------------
(***************************************************************************)
(* What was known when: asof.py, asof_v2.py and lineage.py over a dataset  *)
(* that was admitted.                                                      *)
(***************************************************************************)
EXTENDS EconomicContracts

CONSTANT Tied    \* the answer of a selection that refuses

Day(t) == t \div DayTicks
OfSeries(rows, series) == {r \in rows : series \in {None, r.series}}

\* observations_as_of_v2
AsOf2(d, cutoff, series) ==
  OfSeries({r \in d.observations : r.precision \in Exact /\ r.time <= cutoff}, series)

\* observations_as_of_date_v2: what was there before the day began.
AsOfDate(d, cutoffDate, series) ==
  OfSeries({r \in d.observations :
    \/ r.precision = "DATE_ONLY" /\ r.date < cutoffDate
    \/ r.precision \in Exact /\ Day(r.time) < cutoffDate}, series)

\* observations_as_of
AsOf1(d, cutoff, series) == OfSeries({r \in d.observations : r.time <= cutoff}, series)

Newest(rows) == {r \in rows : \A other \in rows : other.time <= r.time}

\* One newest row for every key, or none for any.
LatestBy(visible, Key(_)) ==
  LET newest(key) == Newest({r \in visible : Key(r) = key})
      keys == {Key(r) : r \in visible}
  IN  IF \A key \in keys : Cardinality(newest(key)) = 1
        THEN UNION {newest(key) : key \in keys}
        ELSE Tied

\* latest_visible_vintages_v2 and latest_visible_vintages
Period2(r) == <<r.series, r.start, r.end>>
Period1(r) == <<r.series, r.at>>
Latest2(d, cutoff, series) == LatestBy(AsOf2(d, cutoff, series), Period2)
Latest1(d, cutoff, series) == LatestBy(AsOf1(d, cutoff, series), Period1)

-----------------------------------------------------------------------------
\* AvailabilityLineage
Resolved(time) == [resolved |-> TRUE, time |-> time, reasons |-> {}]
Unresolved(reason) == [resolved |-> FALSE, time |-> None, reasons |-> {reason}]

\* merge_availability_lineages
Merge(items) ==
  LET reasons == UNION {item.reasons : item \in {i \in items : ~i.resolved}}
      times == {item.time : item \in items}
  IN  IF reasons # {} THEN [resolved |-> FALSE, time |-> None, reasons |-> reasons]
      ELSE IF None \in times THEN Unresolved("MISSING_EXACT_ANCESTOR_TIME")
      ELSE Resolved(CHOOSE t \in times : \A other \in times : other <= t)

\* exact_cutoff_admits_lineage
Admits(lineage, cutoff) == lineage.resolved /\ lineage.time # None /\ lineage.time <= cutoff

\* The lineage of an input that is one observation.
LineageOf(r) == IF r.precision \in Exact THEN Resolved(r.time) ELSE Unresolved(r.precision)
=============================================================================
