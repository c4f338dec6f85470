----------------------------- MODULE Ingestion -----------------------------
(***************************************************************************)
(* Retrieval of candles and their provider-free replay, over the raw and   *)
(* the canonical store: data/ingestion/service.py, data/ingestion/         *)
(* replay.py, the storage calls of data/storage/local_immutable.py and     *)
(* what data/verification/service.py accepts.  A file appears whole and    *)
(* once (module ImmutableStore); a hash is the content it stands for.      *)
(* The process of run r is r; replays are processes of their own.          *)
(***************************************************************************)
EXTENDS CandleSequence, FiniteSets

CONSTANTS
  Runs, Replayers,  \* processes
  Requests,         \* what a run may be asked for
  Answers,          \* row sequences that the provider may return
  ServerTimes, Clock,  \* values of the provider's clock and of the local one
  MaxAttempts,      \* max_attempts of the RetryPolicy
  MaxPages,         \* pages of a run (a bound, never less than a window needs)
  None

ASSUME RequestsAssumption ==
  /\ Requests \subseteq RequestType
  /\ \A q \in Requests : ValidRequest(q) /\ MaxPages >= q.end - q.start
ASSUME ProviderAssumption ==
  /\ Answers \subseteq Seq(RowType)
  /\ ServerTimes \subseteq Nat /\ Clock \subseteq Nat
  /\ MaxAttempts \in Nat \ {0} /\ MaxPages \in Nat

Processes == Runs \cup Replayers

PageType == [rows : Answers, at : Clock, cursor : Nat]
ManifestType ==
  [status : {"completed", "failed"}, pages : Seq(PageType), server : ServerTimes \cup {None}]

\* What the identity of a sealed dataset binds besides its candles.
BindingType ==
  [request : Requests, exclusions : SUBSET [page : Nat, rows : Answers]]

ASSUME ProcessAssumption ==
  /\ Runs \cap Replayers = {}
  /\ None \notin Runs \cup Nat \cup ManifestType \cup BindingType

VARIABLES
  request,   \* request[r]: the bounded window of run r
  server,    \* server[r]: its server_time_snapshot
  pages,     \* pages[r]: responses on disk, with the metadata they get
  described, \* described[r]: pages whose metadata file is there as well
  closed,    \* runs with an exchange-closures.json
  retrieval, \* retrieval[r]: the retrieval manifest
  attempt,   \* attempt[r]: of the provider call that r makes
  pc,        \* pc[p]: what process p does next, or how it ended
  source,    \* source[p]: the run whose candles p publishes
  candles,   \* candles[p]: canonical_candles of p
  receipt,   \* receipt[p]: created_at of the provenance that p writes
  datasets,  \* dataset files: [id, name, content]
  receipts   \* provenance files: [id, run, created]

vars == <<request, server, pages, described, closed, retrieval, attempt, pc, source, candles,
          receipt, datasets, receipts>>
raw == <<request, server, pages, described, closed, retrieval, attempt>>
canonical == <<datasets, receipts>>

Goto(p, point) == pc' = [pc EXCEPT ![p] = point]

Init ==
  /\ request \in [Runs -> Requests]
  /\ server = [r \in Runs |-> None]
  /\ pages = [r \in Runs |-> <<>>]
  /\ described = [r \in Runs |-> 0]
  /\ closed = {}
  /\ retrieval = [r \in Runs |-> None]
  /\ attempt = [r \in Runs |-> 1]
  /\ pc = [p \in Processes |-> IF p \in Runs THEN "server time" ELSE "idle"]
  /\ source = [p \in Processes |-> IF p \in Runs THEN p ELSE None]
  /\ candles = [p \in Processes |-> <<>>]
  /\ receipt = [p \in Processes |-> None]
  /\ datasets = {}
  /\ receipts = {}

-----------------------------------------------------------------------------
(* What pages mean. *)

Rows(list) == FlattenSeq([k \in DOMAIN list |-> list[k].rows])

\* The cursor of page k: the start, then one candle after the page before.
Cursor(q, list, k) == IF k = 1 THEN q.start ELSE Last(list[k - 1].rows).open + 1

\* A page is a terminal guard if any of its rows is not completed.
Terminal(page, now) == \E k \in DOMAIN page.rows : page.rows[k].open >= now

\* The pages that the process of run r holds in memory.
Held(r) == SubSeq(pages[r], 1, described[r])

Manifest(r, status) == [status |-> status, pages |-> Held(r), server |-> server[r]]

-----------------------------------------------------------------------------
(* IngestionService.ingest, up to its retrieval manifest. *)

\* Mutant of Retry: the attempts are counted anew once they are used up.
RetryAnew(r) ==
  /\ attempt' = [attempt EXCEPT ![r] = IF @ < MaxAttempts THEN @ + 1 ELSE 1]
  /\ UNCHANGED pc

\* _call_with_retry: a retryable error, while there is an attempt left.
Retry(r) ==
  IF attempt[r] < MaxAttempts
    THEN attempt' = [attempt EXCEPT ![r] = @ + 1] /\ UNCHANGED pc
    ELSE Goto(r, "fail") /\ UNCHANGED attempt

ProviderFails(r) ==
  /\ pc[r] \in {"server time", "page"} /\ Len(pages[r]) < MaxPages
  /\ \/ Retry(r)
     \/ Goto(r, "fail") /\ UNCHANGED attempt
  /\ UNCHANGED <<request, server, pages, described, closed, retrieval, source, candles, receipt,
                 canonical>>

ServerTime(r) ==
  /\ pc[r] = "server time"
  /\ \E now \in ServerTimes : server' = [server EXCEPT ![r] = now]
  /\ attempt' = [attempt EXCEPT ![r] = 1]
  /\ Goto(r, "page")
  /\ UNCHANGED <<request, pages, described, closed, retrieval, source, candles, receipt,
                 canonical>>

\* fetch_klines from the cursor, and the response file of write_page.
FetchPage(r) ==
  /\ pc[r] = "page" /\ Len(pages[r]) < MaxPages
  /\ \E rows \in Answers, at \in Clock :
       pages' = [pages EXCEPT ![r] =
         Append(@, [rows |-> rows, at |-> at,
                    cursor |-> Cursor(request[r], pages[r], Len(pages[r]) + 1)])]
  /\ attempt' = [attempt EXCEPT ![r] = 1]
  /\ Goto(r, "metadata")
  /\ UNCHANGED <<request, server, described, closed, retrieval, source, candles, receipt,
                 canonical>>

\* Mutant of AfterPage: a terminal guard page does not end the retrieval.
AfterPageUnguarded(q, page, now) ==
  IF page.rows = <<>> \/ Last(page.rows).open < page.cursor THEN "fail"
  ELSE IF Last(page.rows).open + 1 >= q.end THEN "validate"
  ELSE "page"

\* Where the loop goes after a page.  Malformed bytes fail like an empty page.
AfterPage(q, page, now) ==
  IF page.rows = <<>> \/ Last(page.rows).open < page.cursor THEN "fail"
  ELSE IF Terminal(page, now) \/ Last(page.rows).open + 1 >= q.end THEN "validate"
  ELSE "page"

DescribePage(r) ==
  /\ pc[r] = "metadata"
  /\ described' = [described EXCEPT ![r] = @ + 1]
  /\ Goto(r, AfterPage(request[r], Last(pages[r]), server[r]))
  /\ UNCHANGED <<request, server, pages, closed, retrieval, attempt, source, candles, receipt,
                 canonical>>

\* Mutants of Validate: closure evidence is left for later; the dataset is
\* published before the retrieval manifest.
ValidateUnclosed(r) ==
  /\ pc[r] = "validate"
  /\ LET rows == Rows(Held(r)) IN
       IF Accepted(request[r], rows, server[r])
         THEN /\ candles' = [candles EXCEPT ![r] = Canonical(request[r], rows, server[r])]
              /\ Goto(r, "complete")
         ELSE Goto(r, "fail") /\ UNCHANGED candles
  /\ UNCHANGED <<request, server, pages, described, closed, retrieval, attempt, source, receipt,
                 canonical>>

ValidateAndPublish(r) ==
  /\ pc[r] = "validate"
  /\ LET rows == Rows(Held(r)) IN
       IF Accepted(request[r], rows, server[r])
         THEN /\ candles' = [candles EXCEPT ![r] = Canonical(request[r], rows, server[r])]
              /\ closed' = IF Sealed(request[r]) THEN closed \cup {r} ELSE closed
              /\ Goto(r, "candles.jsonl")
         ELSE Goto(r, "fail") /\ UNCHANGED <<candles, closed>>
  /\ UNCHANGED <<request, server, pages, described, retrieval, attempt, source, receipt, canonical>>

\* Validation, and write_run_closure_manifest of a sealed run.
Validate(r) ==
  /\ pc[r] = "validate"
  /\ LET rows == Rows(Held(r)) IN
       IF Accepted(request[r], rows, server[r])
         THEN /\ candles' = [candles EXCEPT ![r] = Canonical(request[r], rows, server[r])]
              /\ closed' = IF Sealed(request[r]) THEN closed \cup {r} ELSE closed
              /\ Goto(r, "complete")
         ELSE Goto(r, "fail") /\ UNCHANGED <<candles, closed>>
  /\ UNCHANGED <<request, server, pages, described, retrieval, attempt, source, receipt, canonical>>

\* The COMPLETED manifest: its name may exist although write_immutable raised.
Complete(r) ==
  /\ pc[r] = "complete"
  /\ retrieval' = [retrieval EXCEPT ![r] = Manifest(r, "completed")]
  /\ \E point \in {"candles.jsonl", "fail"} : Goto(r, point)
  /\ UNCHANGED <<request, server, pages, described, closed, attempt, source, candles, receipt,
                 canonical>>

\* The except branch: a FAILED manifest, which conflicts with a COMPLETED one.
WriteFailed(r) ==
  /\ pc[r] = "fail"
  /\ retrieval' = [retrieval EXCEPT ![r] = IF @ = None THEN Manifest(r, "failed") ELSE @]
  /\ Goto(r, "failed")
  /\ UNCHANGED <<request, server, pages, described, closed, attempt, source, candles, receipt,
                 canonical>>

-----------------------------------------------------------------------------
(* load_verified_run and reconstruct_candles_and_exclusions. *)

Completion(r) == retrieval[r] # None /\ retrieval[r].status = "completed"

\* load_verified_run, and the closure evidence of a sealed run.
Loadable(r) ==
  /\ Completion(r)
  /\ Len(retrieval[r].pages) <= described[r]
  /\ retrieval[r].pages = SubSeq(pages[r], 1, Len(retrieval[r].pages))
  /\ Sealed(request[r]) => r \in closed

\* Mutant of StartsAtCursor: rows before the cursor and after it will do.
StartsAnywhere(q, list, k) == list[k].rows # <<>>

\* The first page starts at its cursor, a later one not before its cursor.
StartsAtCursor(q, list, k) ==
  /\ list[k].rows # <<>>
  /\ IF k = 1 THEN list[1].rows[1].open = q.start
              ELSE list[k].rows[1].open >= Cursor(q, list, k)

Chained(q, list, now) ==
  /\ \A k \in DOMAIN list :
       /\ k > 1 => list[k].at >= list[k - 1].at
       /\ StartsAtCursor(q, list, k)
       /\ list[k].cursor = Cursor(q, list, k)
       /\ Last(list[k].rows).open >= Cursor(q, list, k)
       /\ Terminal(list[k], now) => k = Len(list)
  /\ \/ list # <<>> /\ Terminal(Last(list), now)
     \/ Cursor(q, list, Len(list) + 1) >= q.end

Rebuilt(r) == Canonical(request[r], Rows(retrieval[r].pages), retrieval[r].server)
Replayable(r) ==
  /\ Loadable(r)
  /\ Chained(request[r], retrieval[r].pages, retrieval[r].server)
  /\ Accepted(request[r], Rows(retrieval[r].pages), retrieval[r].server)

\* ReplayService.replay, up to its first write.  The retrieval manifest is the
\* last raw file and none of them changes, so it is read as one.  A replay that
\* is refused here leaves no trace.
Replay(p) ==
  /\ pc[p] \in {"idle", "done", "conflict", "interrupted"}
  /\ \E r \in Runs :
       /\ Replayable(r)
       /\ source' = [source EXCEPT ![p] = r]
       /\ candles' = [candles EXCEPT ![p] = Rebuilt(r)]
  /\ Goto(p, "candles.jsonl")
  /\ UNCHANGED <<raw, receipt, canonical>>

-----------------------------------------------------------------------------
(* Publication: write_dataset, the supporting manifests, write_provenance. *)

Supporting == {"exchange-closures.json", "candle-segments.json", "candle-exclusions.json"}
Names(q) ==
  {"candles.jsonl", "dataset-manifest.json"} \cup (IF Sealed(q) THEN Supporting ELSE {})
Window(q) == [start |-> q.start, end |-> q.end]

\* The exclusion manifest says where each partial row was: its page, by number
\* and content.
Exclusions(q, list) ==
  {[page |-> k, rows |-> list[k].rows] :
     k \in {k \in DOMAIN list : Opens(list[k].rows) \cap Gaps(q) # {}}}

\* dataset_id and dataset_id_v4: only the identity of a sealed dataset binds
\* more than candles, and it determines every file but the dataset manifest of
\* an older one.
Id(q, rows, list) ==
  [candles |-> rows,
   sealed |-> IF Sealed(q) THEN [request |-> q, exclusions |-> Exclusions(q, list)] ELSE None]
File(id, q, name) ==
  [id |-> id, name |-> name,
   content |-> IF name = "dataset-manifest.json" THEN Window(q) ELSE None]

IdOf(p) == Id(request[source[p]], candles[p], Held(source[p]))
FileOf(p, name) == File(IdOf(p), request[source[p]], name)
Identity(r) == Id(request[r], Rebuilt(r), retrieval[r].pages)

\* Mutant of Following: exclusions are not published.
FollowingWithoutExclusions(q, name) ==
  CASE name = "candles.jsonl" -> "dataset-manifest.json"
    [] name = "dataset-manifest.json" -> IF Sealed(q) THEN "exchange-closures.json" ELSE "stamp"
    [] name = "exchange-closures.json" -> "candle-segments.json"
    [] OTHER -> "stamp"

Following(q, name) ==
  CASE name = "candles.jsonl" -> "dataset-manifest.json"
    [] name = "dataset-manifest.json" -> IF Sealed(q) THEN "exchange-closures.json" ELSE "stamp"
    [] name = "exchange-closures.json" -> "candle-segments.json"
    [] name = "candle-segments.json" -> "candle-exclusions.json"
    [] name = "candle-exclusions.json" -> "stamp"

Publish(p) ==
  /\ pc[p] \in {"candles.jsonl", "dataset-manifest.json"} \cup Supporting
  /\ IF \E f \in datasets : f.id = IdOf(p) /\ f.name = pc[p] /\ f # FileOf(p, pc[p])
       THEN Goto(p, "conflict") /\ UNCHANGED datasets
       ELSE /\ datasets' = datasets \cup {FileOf(p, pc[p])}
            /\ Goto(p, Following(request[source[p]], pc[p]))
  /\ UNCHANGED <<raw, source, candles, receipt, receipts>>

\* created_at: of the existing provenance if a replay finds one, or now.
ReceiptsOf(id, r) == {c \in receipts : c.run = r /\ c.id = id}
Stamp(p) ==
  /\ pc[p] = "stamp"
  /\ LET existing == ReceiptsOf(IdOf(p), source[p]) IN
       \E at \in IF p \in Replayers /\ existing # {}
                   THEN {c.created : c \in existing} ELSE Clock :
         receipt' = [receipt EXCEPT ![p] = at]
  /\ Goto(p, "provenance")
  /\ UNCHANGED <<raw, source, candles, canonical>>

WriteProvenance(p) ==
  /\ pc[p] = "provenance"
  /\ LET provenance == [id |-> IdOf(p), run |-> source[p], created |-> receipt[p]] IN
       IF ReceiptsOf(IdOf(p), source[p]) \subseteq {provenance}
         THEN receipts' = receipts \cup {provenance} /\ Goto(p, "done")
         ELSE Goto(p, "conflict") /\ UNCHANGED receipts
  /\ UNCHANGED <<raw, source, candles, receipt, datasets>>

-----------------------------------------------------------------------------
Retrieving == {"server time", "page", "metadata", "validate", "complete", "fail"}
Publishing ==
  {"candles.jsonl", "dataset-manifest.json", "stamp", "provenance"} \cup Supporting
Ended == {"done", "conflict", "failed", "interrupted"}

\* A kill, or an OSError of a store: before COMPLETED it leads to the except
\* branch, unless it happens there.
Interrupt(p) ==
  /\ pc[p] \in Retrieving \cup Publishing
  /\ \/ Goto(p, "interrupted")
     \/ pc[p] \in {"page", "metadata", "validate", "complete"} /\ Goto(p, "fail")
  /\ UNCHANGED <<raw, source, candles, receipt, canonical>>

Step(p) ==
  \/ p \in Runs /\ (\/ ServerTime(p) \/ FetchPage(p) \/ DescribePage(p)
                    \/ Validate(p) \/ Complete(p) \/ WriteFailed(p))
  \/ Publish(p) \/ Stamp(p) \/ WriteProvenance(p)
Next ==
  \/ \E p \in Processes : Step(p) \/ Interrupt(p)
  \/ \E r \in Runs : ProviderFails(r)
  \/ \E p \in Replayers : Replay(p)
Spec == Init /\ [][Next]_vars

\* A process that runs goes on: its calls return, or raise, in the end.  No
\* call of the provider is bound ever to succeed.
FairSpec ==
  /\ Spec
  /\ \A p \in Processes : WF_vars(Step(p) \/ (p \in Runs /\ ProviderFails(p)))

-----------------------------------------------------------------------------
TypeOK ==
  /\ request \in [Runs -> Requests]
  /\ server \in [Runs -> ServerTimes \cup {None}]
  /\ pages \in [Runs -> Seq(PageType)]
  /\ described \in [Runs -> Nat]
  /\ retrieval \in [Runs -> ManifestType \cup {None}]
  /\ attempt \in [Runs -> 1 .. MaxAttempts]
  /\ pc \in [Processes -> {"idle"} \cup Retrieving \cup Publishing \cup Ended]
  /\ source \in [Processes -> Runs \cup {None}]
  /\ DOMAIN candles = Processes
  /\ receipt \in [Processes -> Clock \cup {None}]
  /\ \A f \in datasets : f.name \in {"candles.jsonl", "dataset-manifest.json"} \cup Supporting
  /\ \A c \in receipts : c.run \in Runs /\ c.created \in Clock

(* Evidence before its manifest: whoever is interrupted wherever, a        *)
(* COMPLETED manifest names only whole pages, and the closures of a sealed *)
(* run are with it, so that nothing but the raw directory is needed again. *)
EvidenceWhole == \A r \in Runs : Completion(r) => Loadable(r)

(* "A failed retrieval manifest never authorizes canonical dataset         *)
(* creation" (market-data-core-design.md:223), nor does a missing one:     *)
(* every file of the canonical store follows from a COMPLETED run.         *)
DatasetsAreEvidenced ==
  \A f \in datasets : \E r \in Runs :
    Completion(r) /\ f.id = Identity(r) /\ f.content \in {None, Window(request[r])}

(* Two checkers of the same evidence: a COMPLETED run can be replayed, to  *)
(* the candles that it published, unless its evidence starts after its     *)
(* window does, or the clock of its host went back between two pages.      *)
StartsLate(r) == retrieval[r].pages[1].rows[1].open # request[r].start
ClockWentBack(r) ==
  \E k \in DOMAIN retrieval[r].pages :
    k > 1 /\ retrieval[r].pages[k].at < retrieval[r].pages[k - 1].at

ReplayAgrees ==
  \A r \in Runs : Completion(r) =>
    /\ Replayable(r) <=> ~ StartsLate(r) /\ ~ ClockWentBack(r)
    /\ Rebuilt(r) = candles[r]

\* What VerificationService.verify(id, r) accepts.
Verified(id, r) ==
  /\ ReceiptsOf(id, r) # {}
  /\ Replayable(r) /\ id = Identity(r)
  /\ \A name \in Names(request[r]) : File(id, request[r], name) \in datasets

(* A verified dataset starts with its window and has, up to its last       *)
(* candle, every open time that no closure declares unavailable, each of   *)
(* them once, whole and completed at the server's time.                    *)
Unavailable(q) == UNION {closure.gap .. (closure.resumed - 1) : closure \in ToSet(q.closures)}

VerifiedCovers ==
  \A id \in {f.id : f \in datasets}, r \in Runs : Verified(id, r) =>
    LET rows == id.candles
        last == Last(rows).open
    IN /\ Opens(rows) = (request[r].start .. last) \ Unavailable(request[r])
       /\ Increasing(rows)
       /\ last < retrieval[r].server /\ last < request[r].end

(* Every retrieval ends, even if no call of the provider ever succeeds:    *)
(* retries are bounded (service.py:136-153) and the cursor moves on.       *)
IngestionEnds == \A r \in Runs : <>(pc[r] \in Ended)

(* Recovery: a replay that has loaded its evidence and is not interrupted  *)
(* leaves a verified dataset behind, whatever files a run or other replays *)
(* had already written, and even if it raises for a provenance that        *)
(* another process wrote after it had looked.                              *)
ReplayFinishes ==
  \A p \in Replayers, r \in Runs :
    (pc[p] = "candles.jsonl" /\ source[p] = r)
      ~> (pc[p] = "interrupted" \/ Verified(Identity(r), r))

(* "The same canonical bytes cannot create conflicting dataset manifests"  *)
(* (market-data-core-design.md:238): no process is refused, by the store,  *)
(* the manifest of its dataset.                                            *)
ManifestsAgree ==
  \A p \in Processes : pc[p] = "conflict" => FileOf(p, "dataset-manifest.json") \in datasets
=============================================================================
