--------------------------- MODULE CandleSequence ---------------------------
(***************************************************************************)
(* The pure rules that turn provider rows into canonical candles:          *)
(* data/validation/candles.py, data/segments.py, data/exclusions.py and    *)
(* data/exchange_closures.py.  Time is counted in candles of the timeframe:*)
(* the row with open o closes within slot o, and is completed when the     *)
(* server's clock has reached o + 1, that is, when o < now.                *)
(* A row is [open, form]: "whole" if it closes at the end of its slot,     *)
(* "partial" if it is the row that a closure may declare.  Prices, volumes *)
(* and hashes are part of the row.                                         *)
(***************************************************************************)
EXTENDS Integers, Sequences, SequencesExt

Forms == {"whole", "partial"}
RowType == [open : Nat, form : Forms]

\* A closure declares the partial row at gap, and that rows resume at resumed.
ClosureType == [gap : Nat, resumed : Nat]
RequestType == [start : Nat, end : Nat, closures : Seq(ClosureType)]

\* Without a closure manifest a request follows the older schemas.
Sealed(request) == request.closures # <<>>
Gaps(request) == {closure.gap : closure \in ToSet(request.closures)}

\* ExchangeClosureManifest and RetrievalRequest, __post_init__.
ValidRequest(request) ==
  /\ request.start < request.end
  /\ \A k \in DOMAIN request.closures :
       LET closure == request.closures[k] IN
       /\ request.start <= closure.gap /\ closure.gap < closure.resumed
       /\ closure.resumed <= request.end
       /\ k > 1 => request.closures[k - 1].resumed < closure.gap

InWindow(request, row) == request.start <= row.open /\ row.open < request.end
Increasing(rows) ==
  \A i, j \in DOMAIN rows : i < j => rows[i].open < rows[j].open

-----------------------------------------------------------------------------
(* Without closures: completed_candles, validate_candle_sequence. *)

\* The rows of the given candles, in their order (a SelectSeq that the proofs
\* can look into).
RowsOf(rows, opens) ==
  LET kept[n \in 0 .. Len(rows)] ==
        IF n = 0 THEN <<>>
        ELSE IF rows[n].open \in opens THEN Append(kept[n - 1], rows[n])
        ELSE kept[n - 1]
  IN  kept[Len(rows)]

\* The candles that are completed at the server's time.
CompletedAt(now) == 0 .. (now - 1)
Completed(rows, now) == RowsOf(rows, CompletedAt(now))

ValidStructure(request, rows) ==
  /\ rows # <<>>
  /\ \A k \in DOMAIN rows : InWindow(request, rows[k])
  /\ Increasing(rows)

Jumps(rows) == {k \in DOMAIN rows : k > 1 /\ rows[k].open # rows[k - 1].open + 1}

-----------------------------------------------------------------------------
(* With closures: match_and_exclude_partial_candles, then segments. *)

\* A row of the raw evidence is declared and partial, or neither.
Matches(request, row, now) ==
  IF row.open \in Gaps(request)
    THEN row.form = "partial" /\ row.open < now
    ELSE row.form = "whole"

Opens(rows) == {rows[k].open : k \in DOMAIN rows}

Matched(request, rows, now) ==
  /\ rows # <<>> /\ rows[1].open = request.start
  /\ Increasing(rows)
  /\ \A k \in DOMAIN rows : InWindow(request, rows[k]) /\ Matches(request, rows[k], now)
  /\ \A closure \in ToSet(request.closures) :
       /\ closure.gap \in Opens(rows) /\ closure.resumed \in Opens(rows)
       /\ Opens(rows) \cap (closure.gap + 1) .. (closure.resumed - 1) = {}

Excluded(request, rows, now) == RowsOf(rows, CompletedAt(now) \ Gaps(request))

\* validate_and_segment_candle_sequence: every jump is a closure, and vice versa.
Bridges(rows, k) == [gap |-> rows[k - 1].open + 1, resumed |-> rows[k].open]
Segmented(request, rows) ==
  /\ ValidStructure(request, rows)
  /\ \A k \in DOMAIN rows : rows[k].form = "whole"
  /\ {Bridges(rows, k) : k \in Jumps(rows)} = ToSet(request.closures)

-----------------------------------------------------------------------------
(* Both: what ingest and reconstruct_candles_and_exclusions accept. *)

Canonical(request, rows, now) ==
  IF Sealed(request) THEN Excluded(request, rows, now) ELSE Completed(rows, now)

Accepted(request, rows, now) ==
  IF Sealed(request)
    THEN Matched(request, rows, now) /\ Segmented(request, Canonical(request, rows, now))
    ELSE /\ ValidStructure(request, Canonical(request, rows, now))
         /\ Jumps(Canonical(request, rows, now)) = {}
=============================================================================
