-------------------------- MODULE IngestionProofs --------------------------
(***************************************************************************)
(* Ingestion for any number of runs and replays, any provider and any      *)
(* number of pages.  A retrieval manifest is written once, when nothing of *)
(* its run changes any more; whoever publishes candles has them from a     *)
(* COMPLETED one.  Then the rows themselves: flattening and selection keep *)
(* their order, so that accepted evidence covers its window.               *)
(***************************************************************************)
EXTENDS Ingestion, TLAPS, WellFoundedInduction

(* Pages are described in the order in which they are fetched.             *)
Counted ==
  \A r \in Runs :
    /\ described[r] <= Len(pages[r])
    /\ pc[r] = "metadata" => described[r] < Len(pages[r])

(* The cursor of the next page is known.                                   *)
Filled ==
  \A r \in Runs :
    /\ pc[r] = "server time" => pages[r] = <<>>
    /\ pc[r] = "page" /\ pages[r] # <<>> => Last(pages[r]).rows # <<>>

(* A retrieval manifest lists all pages of a run that fetches no more.     *)
Written ==
  \A r \in Runs : retrieval[r] # None =>
    /\ pc[r] \in {"fail"} \cup Publishing \cup Ended
    /\ retrieval[r].pages = Held(r) /\ retrieval[r].server = server[r]

(* The candles of a run are those of its pages, its closures are on disk.  *)
Validated ==
  \A r \in Runs :
    pc[r] = "complete" =>
      /\ candles[r] = Canonical(request[r], Rows(Held(r)), server[r])
      /\ Sealed(request[r]) => r \in closed

(* A COMPLETED run can be loaded, and is rebuilt to what it validated.     *)
Rebuildable ==
  \A r \in Runs : Completion(r) =>
    /\ candles[r] = Rebuilt(r)
    /\ Sealed(request[r]) => r \in closed

(* Who publishes does so for a COMPLETED run; a run only for itself.       *)
Sourced ==
  /\ \A r \in Runs : source[r] = r /\ pc[r] # "idle"
  /\ \A p \in Processes : pc[p] \in Publishing =>
       source[p] \in Runs /\ Completion(source[p]) /\ candles[p] = Rebuilt(source[p])

(* Who writes a receipt has read a clock or an older receipt.              *)
Stamped == \A p \in Processes : pc[p] = "provenance" => receipt[p] \in Clock

IInv ==
  /\ TypeOK
  /\ Counted
  /\ Filled
  /\ Written
  /\ Validated
  /\ Rebuildable
  /\ Sourced
  /\ Stamped
  /\ DatasetsAreEvidenced

(* What a step leaves alone if it writes no raw file of a run.             *)
RawKept == UNCHANGED raw

-----------------------------------------------------------------------------
LEMMA ProcessesApart ==
  /\ Runs \subseteq Processes /\ Replayers \subseteq Processes
  /\ \A p \in Processes : p \in Runs \/ (p \in Replayers /\ p \notin Runs)
  BY ProcessAssumption DEF Processes

LEMMA EmptyTyped ==
  ASSUME NEW S
  PROVE  <<>> \in Seq(S) /\ \A s \in Seq(S) : s = <<>> => Len(s) = 0
  OBVIOUS

LEMMA InitInv == Init => IInv
<1> SUFFICES ASSUME Init PROVE IInv
  OBVIOUS
<1>1. TypeOK
  <2>1. 1 \in 1 .. MaxAttempts
    BY ProviderAssumption
  <2>2. pages \in [Runs -> Seq(PageType)]
    BY EmptyTyped DEF Init
  <2> QED BY <2>1, <2>2, ProcessesApart DEF Init, TypeOK, Retrieving
<1>2. Counted
  <2> SUFFICES ASSUME NEW r \in Runs
               PROVE  described[r] <= Len(pages[r]) /\ pc[r] # "metadata"
    BY DEF Counted
  <2>1. described[r] = 0 /\ pages[r] = <<>> /\ pc[r] = "server time"
    BY ProcessesApart DEF Init
  <2>2. Len(pages[r]) = 0
    BY <2>1, <1>1, EmptyTyped DEF TypeOK
  <2>3. described[r] <= Len(pages[r])
    <3>1. described[r] = 0
      BY <2>1
    <3> QED BY <3>1, <2>2
  <2> QED BY <2>1, <2>3
<1>5. Filled
  BY ProcessesApart DEF Init, Filled
<1>3. Written /\ Validated /\ Rebuildable
  BY ProcessesApart DEF Init, Written, Validated, Rebuildable, Completion
<1>4. Sourced /\ Stamped /\ DatasetsAreEvidenced
  BY ProcessesApart DEF Init, Sourced, Stamped, DatasetsAreEvidenced, Publishing, Supporting
<1> QED BY <1>1, <1>2, <1>3, <1>4, <1>5 DEF IInv

(* What a run holds is a sequence of as many pages as it has described.    *)
LEMMA HeldTyped ==
  ASSUME NEW S, NEW s \in Seq(S), NEW n \in Nat, n <= Len(s)
  PROVE  SubSeq(s, 1, n) \in Seq(S) /\ Len(SubSeq(s, 1, n)) = n
  OBVIOUS

LEMMA AppendTyped ==
  ASSUME NEW S, NEW s \in Seq(S), NEW e \in S
  PROVE  /\ Append(s, e) \in Seq(S)
         /\ Len(Append(s, e)) = Len(s) + 1
         /\ Append(s, e) # <<>>
         /\ Len(s) \in Nat
  OBVIOUS

LEMMA LastTyped ==
  ASSUME NEW S, NEW s \in Seq(S), s # <<>>
  PROVE  Last(s) \in S /\ Last(s) = s[Len(s)] /\ Len(s) \in Nat \ {0}
  BY DEF Last

LEMMA RowsTyped ==
  ASSUME NEW page \in PageType, page.rows # <<>>
  PROVE  Last(page.rows).open \in Nat
<1>1. page.rows \in Seq(RowType)
  BY ProviderAssumption DEF PageType
<1>2. Last(page.rows) \in RowType
  BY <1>1, LastTyped
<1> QED BY <1>2 DEF RowType

-----------------------------------------------------------------------------
(* Steps of processes that write no raw file.                              *)

LEMMA RawStays ==
  ASSUME IInv, RawKept
  PROVE  /\ \A r \in Runs : Held(r)' = Held(r)
         /\ \A r \in Runs : Completion(r)' = Completion(r)
         /\ \A r \in Runs : Rebuilt(r)' = Rebuilt(r)
         /\ \A r \in Runs : Identity(r)' = Identity(r)
  BY DEF RawKept, raw, Held, Completion, Rebuilt, Identity, Window

\* A process that changes its point, and no candles or files, and is not
\* retrieving afterwards.
Moves(p, point) ==
  /\ RawKept /\ UNCHANGED <<source, candles>>
  /\ pc' = [pc EXCEPT ![p] = point]
  /\ point \in {"fail"} \cup Publishing \cup Ended
  /\ point \in Publishing => pc[p] \in Publishing

LEMMA MoveInv ==
  ASSUME IInv, NEW p \in Processes, NEW point, Moves(p, point)
  PROVE  Counted' /\ Filled' /\ Written' /\ Validated' /\ Rebuildable' /\ Sourced'
<1> USE ProcessesApart
<1>1. pc' = [pc EXCEPT ![p] = point] /\ pc \in [Processes -> {"idle"} \cup Retrieving \cup Publishing \cup Ended]
  BY DEF Moves, IInv, TypeOK
<1>2. point \notin {"server time", "metadata", "page", "complete", "idle"}
  BY DEF Moves, Publishing, Supporting, Ended
<1>3. \A q \in Processes :
        pc'[q] \in {"server time", "metadata", "page", "complete"} => pc'[q] = pc[q]
  BY <1>1, <1>2
<1>4. UNCHANGED <<pages, described, server, request, closed, retrieval, source, candles>>
  BY DEF Moves, RawKept, raw
<1>5. /\ \A r \in Runs : Held(r)' = Held(r) /\ Completion(r)' = Completion(r)
      /\ \A r \in Runs : Rebuilt(r)' = Rebuilt(r)
  BY RawStays DEF Moves
<1>6. Counted' /\ Filled'
  BY <1>3, <1>4 DEF IInv, Counted, Filled
<1>7. Written'
  BY <1>1, <1>4, <1>5 DEF IInv, Written, Moves
<1>8. Validated'
  BY <1>3, <1>4, <1>5 DEF IInv, Validated
<1>9. Rebuildable'
  BY <1>4, <1>5 DEF IInv, Rebuildable
<1>10. Sourced'
  <2>1. \A r \in Runs : source'[r] = r /\ pc'[r] # "idle"
    BY <1>1, <1>2, <1>4 DEF IInv, Sourced
  <2>2. \A q \in Processes : pc'[q] \in Publishing => pc[q] \in Publishing
    BY <1>1 DEF Moves
  <2> QED BY <2>1, <2>2, <1>4, <1>5 DEF IInv, Sourced
<1> QED BY <1>6, <1>7, <1>8, <1>9, <1>10

LEMMA FollowingIsLater ==
  ASSUME NEW q, NEW name \in {"candles.jsonl", "dataset-manifest.json"} \cup Supporting
  PROVE  Following(q, name) \in Publishing
  BY DEF Following, Publishing, Supporting

\* Files that stay evidenced: those of before, when COMPLETED runs keep what
\* identifies them.
LEMMA OldFilesStay ==
  ASSUME IInv, NEW f \in datasets, request' = request,
         \A r \in Runs : Completion(r) => Completion(r)' /\ Identity(r)' = Identity(r)
  PROVE  \E r \in Runs :
           Completion(r)' /\ f.id = Identity(r)' /\ f.content \in {None, Window(request'[r])}
  BY DEF IInv, DatasetsAreEvidenced

LEMMA PublishInv ==
  ASSUME IInv, NEW p \in Processes, Publish(p)
  PROVE  IInv'
<1> USE ProcessesApart
<1> DEFINE point == pc'[p]
<1>1. pc \in [Processes -> {"idle"} \cup Retrieving \cup Publishing \cup Ended]
  BY DEF IInv, TypeOK
<1>2. pc[p] \in {"candles.jsonl", "dataset-manifest.json"} \cup Supporting /\ pc[p] \in Publishing
  BY DEF Publish, Publishing
<1>3. /\ pc' = [pc EXCEPT ![p] = point]
      /\ point \in Publishing \cup {"conflict"}
  <2> DEFINE next == Following(request[source[p]], pc[p])
  <2>1. next \in Publishing
    BY <1>2, FollowingIsLater
  <2>2. pc' = [pc EXCEPT ![p] = "conflict"] \/ pc' = [pc EXCEPT ![p] = next]
    BY DEF Publish, Goto
  <2> QED BY <1>1, <2>1, <2>2
<1>4. Moves(p, point)
  BY <1>2, <1>3 DEF Moves, RawKept, Publish, Ended, Publishing, Supporting
<1>5. Counted' /\ Filled' /\ Written' /\ Validated' /\ Rebuildable' /\ Sourced'
  BY <1>4, MoveInv
<1>6. \A f \in datasets' : f \in datasets \/ f = FileOf(p, pc[p])
  BY DEF Publish
<1>7. TypeOK'
  <2>1. FileOf(p, pc[p]).name = pc[p]
    BY DEF FileOf, File
  <2>2. \A f \in datasets' : f.name \in {"candles.jsonl", "dataset-manifest.json"} \cup Supporting
    BY <1>2, <1>6, <2>1 DEF IInv, TypeOK
  <2>3. pc' \in [Processes -> {"idle"} \cup Retrieving \cup Publishing \cup Ended]
    BY <1>1, <1>3 DEF Ended
  <2> QED BY <2>2, <2>3 DEF Publish, raw, IInv, TypeOK
<1>8. DatasetsAreEvidenced'
  <2>1. /\ request' = request
        /\ \A r \in Runs : Completion(r)' = Completion(r) /\ Identity(r)' = Identity(r)
    BY RawStays, <1>4 DEF Moves, RawKept, raw
  <2>2. /\ source[p] \in Runs /\ Completion(source[p])
        /\ candles[p] = Rebuilt(source[p])
        /\ retrieval[source[p]].pages = Held(source[p])
    BY <1>2 DEF IInv, Sourced, Written, Completion
  <2>3. /\ FileOf(p, pc[p]).id = Identity(source[p])
        /\ FileOf(p, pc[p]).content \in {None, Window(request[source[p]])}
    BY <2>2 DEF FileOf, File, IdOf, Identity
  <2>4. ASSUME NEW f \in datasets'
        PROVE  \E r \in Runs :
                 Completion(r)' /\ f.id = Identity(r)' /\ f.content \in {None, Window(request'[r])}
    <3>1. CASE f \in datasets
      BY <3>1, <2>1, OldFilesStay
    <3>2. CASE f = FileOf(p, pc[p])
      BY <3>2, <2>1, <2>2, <2>3
    <3> QED BY <1>6, <3>1, <3>2
  <2> QED BY <2>4 DEF DatasetsAreEvidenced, Window
<1>9. Stamped'
  <2>1. receipt' = receipt /\ point # "provenance"
    BY <1>2 DEF Publish, Following, Supporting, Goto, IInv, TypeOK
  <2> QED BY <2>1, <1>1, <1>3 DEF IInv, Stamped
<1> QED BY <1>5, <1>7, <1>8, <1>9 DEF IInv

\* Steps that publish no file of a dataset.
LEMMA DatasetsStay ==
  ASSUME IInv, RawKept, UNCHANGED datasets
  PROVE  DatasetsAreEvidenced'
<1>1. \A r \in Runs : Completion(r)' = Completion(r) /\ Identity(r)' = Identity(r)
  BY RawStays
<1> QED BY <1>1 DEF IInv, DatasetsAreEvidenced, RawKept, raw, Window

LEMMA StampInv ==
  ASSUME IInv, NEW p \in Processes, Stamp(p)
  PROVE  IInv'
<1> USE ProcessesApart
<1>1. /\ pc[p] = "stamp" /\ pc' = [pc EXCEPT ![p] = "provenance"]
      /\ UNCHANGED <<raw, source, candles, canonical>>
  BY DEF Stamp, Goto
<1>2. Moves(p, "provenance")
  BY <1>1 DEF Moves, RawKept, Publishing, Ended
<1>3. Counted' /\ Filled' /\ Written' /\ Validated' /\ Rebuildable' /\ Sourced'
  BY <1>2, MoveInv
<1>4. DatasetsAreEvidenced'
  BY <1>1, DatasetsStay DEF RawKept, canonical
<1>5. PICK at \in Clock : receipt' = [receipt EXCEPT ![p] = at]
  <2>1. PICK at : /\ receipt' = [receipt EXCEPT ![p] = at]
                  /\ at \in {c.created : c \in ReceiptsOf(IdOf(p), source[p])} \cup Clock
    BY DEF Stamp
  <2>2. at \in Clock
    BY <2>1 DEF ReceiptsOf, IInv, TypeOK
  <2> QED BY <2>1, <2>2
<1>6. TypeOK' /\ Stamped'
  BY <1>1, <1>5 DEF IInv, TypeOK, Stamped, raw, canonical, Publishing
<1> QED BY <1>3, <1>4, <1>6 DEF IInv

LEMMA WriteProvenanceInv ==
  ASSUME IInv, NEW p \in Processes, WriteProvenance(p)
  PROVE  IInv'
<1> USE ProcessesApart
<1> DEFINE provenance == [id |-> IdOf(p), run |-> source[p], created |-> receipt[p]]
<1>1. /\ pc[p] = "provenance"
      /\ pc' = [pc EXCEPT ![p] = "done"] \/ pc' = [pc EXCEPT ![p] = "conflict"]
      /\ receipts' \subseteq receipts \cup {provenance}
      /\ UNCHANGED <<raw, source, candles, receipt, datasets>>
  BY DEF WriteProvenance, Goto
<1>2. Moves(p, "done") \/ Moves(p, "conflict")
  BY <1>1 DEF Moves, RawKept, Publishing, Ended
<1>3. Counted' /\ Filled' /\ Written' /\ Validated' /\ Rebuildable' /\ Sourced'
  BY <1>2, MoveInv
<1>4. DatasetsAreEvidenced'
  BY <1>1, DatasetsStay DEF RawKept
<1>5. TypeOK'
  <2>1. source[p] \in Runs /\ receipt[p] \in Clock
    BY <1>1 DEF IInv, Sourced, Stamped, Publishing
  <2>2. \A c \in receipts' : c.run \in Runs /\ c.created \in Clock
    BY <1>1, <2>1 DEF IInv, TypeOK
  <2> QED BY <1>1, <2>2 DEF IInv, TypeOK, raw, Ended
<1>6. Stamped'
  BY <1>1 DEF IInv, TypeOK, Stamped
<1> QED BY <1>3, <1>4, <1>5, <1>6 DEF IInv

LEMMA InterruptInv ==
  ASSUME IInv, NEW p \in Processes, Interrupt(p)
  PROVE  IInv'
<1> USE ProcessesApart
<1>1. /\ pc' = [pc EXCEPT ![p] = "interrupted"] \/ pc' = [pc EXCEPT ![p] = "fail"]
      /\ UNCHANGED <<raw, source, candles, receipt, canonical>>
  BY DEF Interrupt, Goto
<1>2. Moves(p, "interrupted") \/ Moves(p, "fail")
  BY <1>1 DEF Moves, RawKept, Publishing, Supporting, Ended
<1>3. Counted' /\ Filled' /\ Written' /\ Validated' /\ Rebuildable' /\ Sourced'
  BY <1>2, MoveInv
<1>4. DatasetsAreEvidenced'
  BY <1>1, DatasetsStay DEF RawKept, canonical
<1>5. TypeOK'
  BY <1>1 DEF IInv, TypeOK, raw, canonical, Ended, Retrieving
<1>6. Stamped'
  BY <1>1 DEF IInv, TypeOK, Stamped
<1> QED BY <1>3, <1>4, <1>5, <1>6 DEF IInv

LEMMA ReplayInv ==
  ASSUME IInv, NEW p \in Replayers, Replay(p)
  PROVE  IInv'
<1> USE ProcessesApart
<1>1. PICK r \in Runs : /\ Replayable(r)
                       /\ source' = [source EXCEPT ![p] = r]
                       /\ candles' = [candles EXCEPT ![p] = Rebuilt(r)]
  BY DEF Replay
<1>2. /\ p \in Processes /\ p \notin Runs
      /\ pc' = [pc EXCEPT ![p] = "candles.jsonl"]
      /\ UNCHANGED <<raw, receipt, canonical>>
  BY ProcessAssumption DEF Replay, Goto
<1>3. UNCHANGED <<pages, described, server, request, closed, retrieval>>
  BY <1>2 DEF raw
<1>4. \A s \in Runs : pc'[s] = pc[s] /\ source'[s] = source[s] /\ candles'[s] = candles[s]
  BY <1>1, <1>2 DEF IInv, TypeOK
<1>5. /\ \A s \in Runs : Held(s)' = Held(s) /\ Completion(s)' = Completion(s)
      /\ \A s \in Runs : Rebuilt(s)' = Rebuilt(s)
  BY <1>2, RawStays DEF RawKept
<1>6. Counted' /\ Filled'
  BY <1>3, <1>4 DEF IInv, Counted, Filled
<1>7. Written'
  BY <1>3, <1>4, <1>5 DEF IInv, Written
<1>8. Validated' /\ Rebuildable'
  BY <1>3, <1>4, <1>5 DEF IInv, Validated, Rebuildable
<1>9. Sourced'
  <2>1. Completion(r)
    BY <1>1 DEF Replayable, Loadable
  <2>2. source'[p] = r /\ candles'[p] = Rebuilt(r) /\ pc'[p] = "candles.jsonl"
    BY <1>1, <1>2 DEF IInv, TypeOK
  <2>3. \A q \in Processes : q # p =>
          pc'[q] = pc[q] /\ source'[q] = source[q] /\ candles'[q] = candles[q]
    BY <1>1, <1>2 DEF IInv, TypeOK
  <2>4. ASSUME NEW q \in Processes, pc'[q] \in Publishing
        PROVE  source'[q] \in Runs /\ Completion(source[q])' /\ candles'[q] = Rebuilt(source[q])'
    <3>1. CASE q = p
      BY <3>1, <2>1, <2>2, <1>3 DEF Completion, Rebuilt
    <3>2. CASE q # p
      BY <3>2, <2>3, <2>4, <1>3 DEF IInv, Sourced, Completion, Rebuilt
    <3> QED BY <3>1, <3>2
  <2> QED BY <2>4, <1>4 DEF IInv, Sourced
<1>10. DatasetsAreEvidenced'
  BY <1>2, DatasetsStay DEF RawKept, canonical
<1>11. TypeOK'
  <2>1. DOMAIN candles' = Processes /\ source' \in [Processes -> Runs \cup {None}]
    BY <1>1 DEF IInv, TypeOK
  <2> QED BY <2>1, <1>2 DEF IInv, TypeOK, raw, canonical, Publishing
<1>12. Stamped'
  BY <1>2 DEF IInv, TypeOK, Stamped
<1> QED BY <1>6, <1>7, <1>8, <1>9, <1>10, <1>11, <1>12 DEF IInv

-----------------------------------------------------------------------------
(* Steps of a retrieval.                                                   *)

\* What a retrieval that moves on leaves alone: everything of other runs, and
\* everything that is canonical.
Retrieves(r) ==
  /\ pc[r] \in Retrieving
  /\ UNCHANGED <<request, source, datasets, receipt, receipts>>
  /\ \A p \in Processes : p # r => pc'[p] = pc[p] /\ candles'[p] = candles[p]
  /\ pc'[r] # "idle"
  /\ pc'[r] \notin Publishing
  /\ pc' \in [Processes -> {"idle"} \cup Retrieving \cup Publishing \cup Ended]
  /\ \A s \in Runs : Completion(s) =>
       Completion(s)' /\ retrieval'[s] = retrieval[s] /\ candles'[s] = candles[s]

LEMMA RetrieveSourced ==
  ASSUME IInv, NEW r \in Runs, Retrieves(r)
  PROVE  Sourced' /\ Stamped' /\ DatasetsAreEvidenced'
<1> USE ProcessesApart
<1>1. UNCHANGED <<request, source, datasets, receipt>>
  BY DEF Retrieves
<1>2. \A s \in Runs : Completion(s) => Completion(s)' /\ Identity(s)' = Identity(s)
  BY <1>1 DEF Retrieves, Identity, Rebuilt
<1>3. DatasetsAreEvidenced'
  BY <1>1, <1>2 DEF IInv, DatasetsAreEvidenced, Window
<1>4. Stamped'
  BY <1>1 DEF IInv, Stamped, Retrieves, Publishing
<1>5. Sourced'
  <2>1. \A s \in Runs : source'[s] = s /\ pc'[s] # "idle"
    BY <1>1 DEF IInv, Sourced, Retrieves
  <2>2. ASSUME NEW q \in Processes, pc'[q] \in Publishing
        PROVE  source'[q] \in Runs /\ Completion(source[q])' /\ candles'[q] = Rebuilt(source[q])'
    <3>1. q # r /\ pc[q] \in Publishing
      BY <2>2 DEF Retrieves
    <3>2. source[q] \in Runs /\ Completion(source[q]) /\ candles[q] = Rebuilt(source[q])
      BY <3>1 DEF IInv, Sourced
    <3>3. candles'[q] = candles[q] /\ Completion(source[q])'
      BY <3>1, <3>2, <1>1, <1>2 DEF Retrieves
    <3>4. Rebuilt(source[q])' = Rebuilt(source[q])
      BY <3>2, <1>1 DEF Retrieves, Rebuilt
    <3> QED BY <1>1, <3>2, <3>3, <3>4
  <2> QED BY <2>1, <2>2, <1>1 DEF Sourced
<1> QED BY <1>3, <1>4, <1>5

\* A run with a retrieval manifest is past its pages.
LEMMA ManifestIsLater ==
  ASSUME IInv, NEW r \in Runs, pc[r] \in Retrieving \ {"fail"}
  PROVE  retrieval[r] = None /\ ~ Completion(r)
  BY DEF IInv, Written, Completion, Retrieving, Publishing, Supporting, Ended

LEMMA ServerTimeInv ==
  ASSUME IInv, NEW r \in Runs, ServerTime(r)
  PROVE  IInv'
<1> USE ProcessesApart
<1>1. PICK now \in ServerTimes : server' = [server EXCEPT ![r] = now]
  BY DEF ServerTime
<1>2. /\ pc[r] = "server time" /\ pc' = [pc EXCEPT ![r] = "page"]
      /\ attempt' = [attempt EXCEPT ![r] = 1]
      /\ UNCHANGED <<request, pages, described, closed, retrieval, source, candles, receipt, canonical>>
  BY DEF ServerTime, Goto
<1>3. retrieval[r] = None /\ ~ Completion(r)
  BY <1>2, ManifestIsLater DEF Retrieving
<1>4. TypeOK'
  <2>1. 1 \in 1 .. MaxAttempts
    BY ProviderAssumption
  <2> QED BY <1>1, <1>2, <2>1 DEF IInv, TypeOK, canonical, Retrieving
<1>5. \A s \in Runs : s # r => pc'[s] = pc[s] /\ server'[s] = server[s]
  BY <1>1, <1>2 DEF IInv, TypeOK
<1>6. Retrieves(r)
  BY <1>2, <1>4 DEF Retrieves, IInv, TypeOK, Retrieving, Publishing, Supporting, Completion, canonical
<1>7. pc'[r] = "page"
  BY <1>2 DEF IInv, TypeOK
<1>8. Counted'
  BY <1>2, <1>5, <1>7 DEF IInv, Counted
<1>9. \A s \in Runs : Held(s)' = Held(s)
  BY <1>2 DEF Held
<1>10. Written' /\ Validated'
  BY <1>2, <1>3, <1>5, <1>7, <1>9 DEF IInv, Written, Validated
<1>11. Rebuildable'
  BY <1>2 DEF IInv, Rebuildable, Completion, Rebuilt
<1>12. Filled'
  BY <1>2, <1>5, <1>7 DEF IInv, Filled
<1> QED BY <1>4, <1>6, <1>8, <1>10, <1>11, <1>12, RetrieveSourced DEF IInv

LEMMA FetchPageInv ==
  ASSUME IInv, NEW r \in Runs, FetchPage(r)
  PROVE  IInv'
<1> USE ProcessesApart
<1>1. PICK page : /\ page.rows \in Answers /\ page.at \in Clock
                  /\ page = [rows |-> page.rows, at |-> page.at,
                             cursor |-> Cursor(request[r], pages[r], Len(pages[r]) + 1)]
                  /\ pages' = [pages EXCEPT ![r] = Append(@, page)]
  BY DEF FetchPage
<1>2. /\ pc[r] = "page" /\ pc' = [pc EXCEPT ![r] = "metadata"]
      /\ attempt' = [attempt EXCEPT ![r] = 1]
      /\ UNCHANGED <<request, server, described, closed, retrieval, source, candles, receipt, canonical>>
  BY DEF FetchPage, Goto
<1>3. retrieval[r] = None /\ ~ Completion(r)
  BY <1>2, ManifestIsLater DEF Retrieving
<1>4. pages[r] \in Seq(PageType) /\ request[r] \in RequestType
  BY RequestsAssumption DEF IInv, TypeOK
<1>5. Len(pages[r]) \in Nat /\ (Len(pages[r]) + 1 = 1 <=> pages[r] = <<>>)
  BY <1>4
<1>6. page \in PageType
  <2>1. CASE pages[r] = <<>>
    <3>1. Cursor(request[r], pages[r], Len(pages[r]) + 1) = request[r].start
      BY <2>1, <1>5 DEF Cursor
    <3> QED BY <1>1, <1>4, <3>1 DEF PageType, RequestType
  <2>2. CASE pages[r] # <<>>
    <3>1. Last(pages[r]).rows # <<>>
      BY <2>2, <1>2 DEF IInv, Filled
    <3>2. Last(pages[r]) \in PageType /\ Last(pages[r]) = pages[r][Len(pages[r])]
      BY <2>2, <1>4, LastTyped
    <3>3. Last(Last(pages[r]).rows).open \in Nat
      BY <3>1, <3>2, RowsTyped
    <3>4. Cursor(request[r], pages[r], Len(pages[r]) + 1) = Last(Last(pages[r]).rows).open + 1
      <4>1. Len(pages[r]) + 1 # 1 /\ (Len(pages[r]) + 1) - 1 = Len(pages[r])
        BY <1>5, <2>2
      <4> QED BY <4>1, <3>2 DEF Cursor
    <3> QED BY <1>1, <3>3, <3>4 DEF PageType
  <2> QED BY <2>1, <2>2
<1>7. /\ Append(pages[r], page) \in Seq(PageType)
      /\ Len(Append(pages[r], page)) = Len(pages[r]) + 1
  BY <1>4, <1>6, AppendTyped
<1>8. pages'[r] = Append(pages[r], page) /\ \A s \in Runs : s # r => pages'[s] = pages[s]
  BY <1>1 DEF IInv, TypeOK
<1>9. pc'[r] = "metadata" /\ \A s \in Processes : s # r => pc'[s] = pc[s]
  BY <1>2 DEF IInv, TypeOK
<1>10. TypeOK'
  <2>1. 1 \in 1 .. MaxAttempts
    BY ProviderAssumption
  <2>2. pages' \in [Runs -> Seq(PageType)]
    BY <1>1, <1>7 DEF IInv, TypeOK
  <2> QED BY <1>2, <2>1, <2>2 DEF IInv, TypeOK, canonical, Retrieving
<1>11. Retrieves(r)
  BY <1>2, <1>9, <1>10 DEF Retrieves, TypeOK, Retrieving, Publishing, Supporting, Completion, canonical
<1>12. Counted'
  <2>1. described[r] \in Nat /\ described[r] <= Len(pages[r])
    BY DEF IInv, TypeOK, Counted
  <2>2. described'[r] < Len(pages'[r]) /\ described'[r] <= Len(pages'[r])
    BY <1>2, <1>5, <1>7, <1>8, <2>1
  <2> QED BY <2>2, <1>2, <1>8, <1>9 DEF IInv, Counted
<1>13. Filled'
  BY <1>8, <1>9 DEF IInv, Filled
<1>14. \A s \in Runs : s # r => Held(s)' = Held(s)
  BY <1>2, <1>8 DEF Held
<1>15. Written' /\ Validated'
  BY <1>2, <1>3, <1>9, <1>14 DEF IInv, Written, Validated
<1>16. Rebuildable'
  BY <1>2 DEF IInv, Rebuildable, Completion, Rebuilt
<1> QED BY <1>10, <1>11, <1>12, <1>13, <1>15, <1>16, RetrieveSourced DEF IInv

LEMMA DescribePageInv ==
  ASSUME IInv, NEW r \in Runs, DescribePage(r)
  PROVE  IInv'
<1> USE ProcessesApart
<1> DEFINE point == AfterPage(request[r], Last(pages[r]), server[r])
<1>1. /\ pc[r] = "metadata" /\ pc' = [pc EXCEPT ![r] = point]
      /\ described' = [described EXCEPT ![r] = @ + 1]
      /\ UNCHANGED <<request, server, pages, closed, retrieval, attempt, source, candles, receipt, canonical>>
  BY DEF DescribePage, Goto
<1>2. /\ point \in {"fail", "validate", "page"}
      /\ point = "page" => Last(pages[r]).rows # <<>>
  BY DEF AfterPage
<1>3. retrieval[r] = None /\ ~ Completion(r)
  BY <1>1, ManifestIsLater DEF Retrieving
<1>4. pc'[r] = point /\ \A s \in Processes : s # r => pc'[s] = pc[s]
  BY <1>1 DEF IInv, TypeOK
<1>5. described'[r] = described[r] + 1 /\ \A s \in Runs : s # r => described'[s] = described[s]
  BY <1>1 DEF IInv, TypeOK
<1>6. TypeOK'
  <2>1. described' \in [Runs -> Nat]
    BY <1>1 DEF IInv, TypeOK
  <2>2. pc' \in [Processes -> {"idle"} \cup Retrieving \cup Publishing \cup Ended]
    BY <1>1, <1>2 DEF IInv, TypeOK, Retrieving
  <2> QED BY <1>1, <2>1, <2>2 DEF IInv, TypeOK, canonical
<1>7. Retrieves(r)
  BY <1>1, <1>2, <1>4, <1>6 DEF Retrieves, TypeOK, Retrieving, Publishing, Supporting, Completion, canonical
<1>8. Counted'
  <2>1. described[r] \in Nat /\ described[r] < Len(pages[r]) /\ Len(pages[r]) \in Nat
    BY <1>1 DEF IInv, TypeOK, Counted
  <2>2. described'[r] <= Len(pages'[r])
    BY <1>1, <1>5, <2>1
  <2> QED BY <2>2, <1>1, <1>2, <1>4, <1>5 DEF IInv, Counted
<1>9. Filled'
  BY <1>1, <1>2, <1>4 DEF IInv, Filled
<1>10. \A s \in Runs : s # r => Held(s)' = Held(s)
  BY <1>1, <1>5 DEF Held
<1>11. Written' /\ Validated'
  BY <1>1, <1>2, <1>3, <1>4, <1>10 DEF IInv, Written, Validated
<1>12. Rebuildable'
  BY <1>1 DEF IInv, Rebuildable, Completion, Rebuilt
<1> QED BY <1>6, <1>7, <1>8, <1>9, <1>11, <1>12, RetrieveSourced DEF IInv

LEMMA ValidateInv ==
  ASSUME IInv, NEW r \in Runs, Validate(r)
  PROVE  IInv'
<1> USE ProcessesApart
<1> DEFINE rows == Rows(Held(r))
<1>1. /\ pc[r] = "validate"
      /\ \/ /\ pc' = [pc EXCEPT ![r] = "complete"]
            /\ candles' = [candles EXCEPT ![r] = Canonical(request[r], rows, server[r])]
            /\ closed' = IF Sealed(request[r]) THEN closed \cup {r} ELSE closed
         \/ /\ pc' = [pc EXCEPT ![r] = "fail"]
            /\ UNCHANGED <<candles, closed>>
      /\ UNCHANGED <<request, server, pages, described, retrieval, attempt, source, receipt, canonical>>
  BY DEF Validate, Goto
<1>2. retrieval[r] = None /\ ~ Completion(r)
  BY <1>1, ManifestIsLater DEF Retrieving
<1>3. /\ pc'[r] \in {"complete", "fail"}
      /\ \A s \in Processes : s # r => pc'[s] = pc[s] /\ candles'[s] = candles[s]
      /\ closed \subseteq closed'
  BY <1>1 DEF IInv, TypeOK
<1>4. TypeOK'
  <2>1. pc' \in [Processes -> {"idle"} \cup Retrieving \cup Publishing \cup Ended]
    BY <1>1 DEF IInv, TypeOK, Retrieving
  <2>2. DOMAIN candles' = Processes
    BY <1>1 DEF IInv, TypeOK
  <2> QED BY <1>1, <2>1, <2>2 DEF IInv, TypeOK, canonical
<1>5. Retrieves(r)
  BY <1>1, <1>2, <1>3, <1>4 DEF Retrieves, TypeOK, Retrieving, Publishing, Supporting, Completion, canonical
<1>6. Counted' /\ Filled'
  BY <1>1, <1>3 DEF IInv, Counted, Filled
<1>7. \A s \in Runs : Held(s)' = Held(s)
  BY <1>1 DEF Held
<1>8. Written'
  BY <1>1, <1>2, <1>3, <1>7 DEF IInv, Written
<1>9. Validated'
  <2>1. pc'[r] = "complete" => /\ candles'[r] = Canonical(request[r], Rows(Held(r)), server[r])
                               /\ Sealed(request[r]) => r \in closed'
    BY <1>1 DEF IInv, TypeOK
  <2> QED BY <2>1, <1>1, <1>3, <1>7 DEF IInv, Validated
<1>10. Rebuildable'
  BY <1>1, <1>2, <1>3 DEF IInv, Rebuildable, Completion, Rebuilt
<1> QED BY <1>4, <1>5, <1>6, <1>8, <1>9, <1>10, RetrieveSourced DEF IInv

\* A manifest that is written lists the pages that its run holds.
LEMMA ManifestTyped ==
  ASSUME IInv, NEW r \in Runs, NEW status \in {"completed", "failed"}
  PROVE  /\ Manifest(r, status) \in ManifestType
         /\ Manifest(r, status) # None
         /\ Manifest(r, status).status = status
         /\ Manifest(r, status).pages = Held(r)
         /\ Manifest(r, status).server = server[r]
<1>1. /\ pages[r] \in Seq(PageType) /\ described[r] \in Nat /\ described[r] <= Len(pages[r])
      /\ server[r] \in ServerTimes \cup {None}
  BY DEF IInv, TypeOK, Counted
<1>2. Held(r) \in Seq(PageType)
  BY <1>1, HeldTyped DEF Held
<1>3. Manifest(r, status) \in ManifestType
  BY <1>1, <1>2 DEF Manifest, ManifestType
<1>4. Manifest(r, status) # None
  BY <1>3, ProcessAssumption
<1> QED BY <1>3, <1>4 DEF Manifest

LEMMA CompleteInv ==
  ASSUME IInv, NEW r \in Runs, Complete(r)
  PROVE  IInv'
<1> USE ProcessesApart
<1> DEFINE manifest == Manifest(r, "completed")
<1>1. PICK point \in {"candles.jsonl", "fail"} : pc' = [pc EXCEPT ![r] = point]
  BY DEF Complete, Goto
<1>2. /\ pc[r] = "complete"
      /\ retrieval' = [retrieval EXCEPT ![r] = manifest]
      /\ UNCHANGED <<request, server, pages, described, closed, attempt, source, candles, receipt, canonical>>
  BY DEF Complete
<1>3. /\ manifest \in ManifestType /\ manifest # None /\ manifest.status = "completed"
      /\ manifest.pages = Held(r) /\ manifest.server = server[r]
  BY ManifestTyped
<1>4. retrieval[r] = None /\ ~ Completion(r)
  BY <1>2, ManifestIsLater DEF Retrieving
<1>5. /\ pc'[r] = point /\ \A s \in Processes : s # r => pc'[s] = pc[s]
      /\ retrieval'[r] = manifest /\ \A s \in Runs : s # r => retrieval'[s] = retrieval[s]
  BY <1>1, <1>2 DEF IInv, TypeOK
<1>6. \A s \in Runs : Held(s)' = Held(s)
  BY <1>2 DEF Held
<1>7. /\ candles[r] = Canonical(request[r], Rows(Held(r)), server[r])
      /\ Sealed(request[r]) => r \in closed
  BY <1>2 DEF IInv, Validated
<1>8. Completion(r)' /\ candles'[r] = Rebuilt(r)'
  <2>1. Completion(r)'
    BY <1>3, <1>5 DEF Completion
  <2>2. Rebuilt(r)' = Canonical(request[r], Rows(Held(r)), server[r])
    BY <1>2, <1>3, <1>5 DEF Rebuilt
  <2> QED BY <2>1, <2>2, <1>2, <1>7
<1>9. \A s \in Runs : s # r => Completion(s)' = Completion(s) /\ Rebuilt(s)' = Rebuilt(s)
  BY <1>2, <1>5 DEF Completion, Rebuilt
<1>10. \A s \in Runs : Completion(s) => Completion(s)' /\ Identity(s)' = Identity(s)
  BY <1>2, <1>4, <1>5, <1>9 DEF Identity
<1>11. TypeOK'
  <2>1. retrieval' \in [Runs -> ManifestType \cup {None}]
    BY <1>2, <1>3 DEF IInv, TypeOK
  <2>2. pc' \in [Processes -> {"idle"} \cup Retrieving \cup Publishing \cup Ended]
    BY <1>1 DEF IInv, TypeOK, Retrieving, Publishing
  <2> QED BY <1>2, <2>1, <2>2 DEF IInv, TypeOK, canonical
<1>12. Counted' /\ Filled'
  BY <1>2, <1>5 DEF IInv, Counted, Filled
<1>13. Written'
  BY <1>2, <1>3, <1>5, <1>6 DEF IInv, Written, Publishing
<1>14. Validated' /\ Rebuildable'
  BY <1>2, <1>5, <1>6, <1>7, <1>8, <1>9 DEF IInv, Validated, Rebuildable
<1>15. Sourced'
  <2>1. source[r] = r /\ \A s \in Runs : source'[s] = s /\ pc'[s] # "idle"
    BY <1>2, <1>5 DEF IInv, Sourced
  <2>2. ASSUME NEW q \in Processes, pc'[q] \in Publishing
        PROVE  source'[q] \in Runs /\ Completion(source[q])' /\ candles'[q] = Rebuilt(source[q])'
    <3>1. CASE q = r
      BY <3>1, <2>1, <1>2, <1>8
    <3>2. CASE q # r
      <4>1. source[q] \in Runs /\ Completion(source[q]) /\ candles[q] = Rebuilt(source[q])
        BY <2>2, <3>2, <1>5 DEF IInv, Sourced
      <4>2. source[q] # r
        BY <4>1, <1>4
      <4> QED BY <4>1, <4>2, <1>2, <1>9
    <3> QED BY <3>1, <3>2
  <2> QED BY <2>1, <2>2, <1>2 DEF Sourced
<1>16. Stamped'
  BY <1>2, <1>5 DEF IInv, Stamped
<1>17. DatasetsAreEvidenced'
  BY <1>2, <1>10 DEF IInv, DatasetsAreEvidenced, canonical, Window
<1> QED BY <1>11, <1>12, <1>13, <1>14, <1>15, <1>16, <1>17 DEF IInv

LEMMA WriteFailedInv ==
  ASSUME IInv, NEW r \in Runs, WriteFailed(r)
  PROVE  IInv'
<1> USE ProcessesApart
<1> DEFINE manifest == IF retrieval[r] = None THEN Manifest(r, "failed") ELSE retrieval[r]
<1>1. /\ pc[r] = "fail" /\ pc' = [pc EXCEPT ![r] = "failed"]
      /\ retrieval' = [retrieval EXCEPT ![r] = manifest]
      /\ UNCHANGED <<request, server, pages, described, closed, attempt, source, candles, receipt, canonical>>
  BY DEF WriteFailed, Goto
<1>2. /\ manifest \in ManifestType /\ manifest # None
      /\ manifest.pages = Held(r) /\ manifest.server = server[r]
      /\ retrieval[r] = None => manifest.status # "completed"
  BY ManifestTyped DEF IInv, TypeOK, Written
<1>3. /\ pc'[r] = "failed" /\ \A s \in Processes : s # r => pc'[s] = pc[s]
      /\ retrieval'[r] = manifest /\ \A s \in Runs : s # r => retrieval'[s] = retrieval[s]
  BY <1>1 DEF IInv, TypeOK
<1>4. \A s \in Runs : Completion(s)' = Completion(s) /\ (Completion(s) => retrieval'[s] = retrieval[s])
  BY <1>2, <1>3 DEF Completion
<1>5. TypeOK'
  <2>1. retrieval' \in [Runs -> ManifestType \cup {None}]
    BY <1>1, <1>2 DEF IInv, TypeOK
  <2>2. pc' \in [Processes -> {"idle"} \cup Retrieving \cup Publishing \cup Ended]
    BY <1>1 DEF IInv, TypeOK, Ended
  <2> QED BY <1>1, <2>1, <2>2 DEF IInv, TypeOK, canonical
<1>6. Retrieves(r)
  BY <1>1, <1>3, <1>4, <1>5 DEF Retrieves, TypeOK, Retrieving, Publishing, Supporting, canonical
<1>7. Counted' /\ Filled'
  BY <1>1, <1>3 DEF IInv, Counted, Filled
<1>8. \A s \in Runs : Held(s)' = Held(s)
  BY <1>1 DEF Held
<1>9. Written'
  BY <1>1, <1>2, <1>3, <1>8 DEF IInv, Written, Ended
<1>10. Validated' /\ Rebuildable'
  BY <1>1, <1>3, <1>4, <1>8 DEF IInv, Validated, Rebuildable, Rebuilt
<1> QED BY <1>5, <1>6, <1>7, <1>9, <1>10, RetrieveSourced DEF IInv

LEMMA ProviderFailsInv ==
  ASSUME IInv, NEW r \in Runs, ProviderFails(r)
  PROVE  IInv'
<1> USE ProcessesApart
<1>1. /\ pc' = pc \/ pc' = [pc EXCEPT ![r] = "fail"]
      /\ UNCHANGED <<request, server, pages, described, closed, retrieval, source, candles, receipt, canonical>>
      /\ pc[r] \in Retrieving
  BY DEF ProviderFails, Retry, Goto, Retrieving
<1>2. attempt' \in [Runs -> 1 .. MaxAttempts]
  <2>1. attempt' = attempt \/ (attempt' = [attempt EXCEPT ![r] = @ + 1] /\ attempt[r] < MaxAttempts)
    BY DEF ProviderFails, Retry
  <2>2. attempt[r] < MaxAttempts => attempt[r] + 1 \in 1 .. MaxAttempts
    BY ProviderAssumption DEF IInv, TypeOK
  <2> QED BY <2>1, <2>2 DEF IInv, TypeOK
<1>3. \A p \in Processes : pc'[p] = pc[p] \/ (p = r /\ pc'[p] = "fail")
  BY <1>1 DEF IInv, TypeOK
<1>4. TypeOK'
  <2>1. pc' \in [Processes -> {"idle"} \cup Retrieving \cup Publishing \cup Ended]
    BY <1>1 DEF IInv, TypeOK, Retrieving
  <2> QED BY <1>1, <1>2, <2>1 DEF IInv, TypeOK, canonical
<1>5. Retrieves(r)
  BY <1>1, <1>3, <1>4 DEF Retrieves, TypeOK, Retrieving, Publishing, Supporting, Completion, canonical
<1>6. Counted' /\ Filled'
  BY <1>1, <1>3 DEF IInv, Counted, Filled
<1>7. \A s \in Runs : Held(s)' = Held(s)
  BY <1>1 DEF Held
<1>8. Written' /\ Validated'
  BY <1>1, <1>3, <1>7 DEF IInv, Written, Validated
<1>9. Rebuildable'
  BY <1>1 DEF IInv, Rebuildable, Completion, Rebuilt
<1> QED BY <1>4, <1>5, <1>6, <1>8, <1>9, RetrieveSourced DEF IInv

-----------------------------------------------------------------------------
LEMMA StepInv == IInv /\ [Next]_vars => IInv'
<1> SUFFICES ASSUME IInv, [Next]_vars PROVE IInv'
  OBVIOUS
<1>1. ASSUME NEW p \in Processes, Step(p) PROVE IInv'
  BY <1>1, ServerTimeInv, FetchPageInv, DescribePageInv, ValidateInv, CompleteInv, WriteFailedInv,
     PublishInv, StampInv, WriteProvenanceInv DEF Step
<1>2. ASSUME NEW p \in Processes, Interrupt(p) PROVE IInv'
  BY <1>2, InterruptInv
<1>3. ASSUME NEW r \in Runs, ProviderFails(r) PROVE IInv'
  BY <1>3, ProviderFailsInv
<1>4. ASSUME NEW p \in Replayers, Replay(p) PROVE IInv'
  BY <1>4, ReplayInv
<1>5. CASE UNCHANGED vars
  <2>1. RawKept /\ UNCHANGED <<pc, source, candles, datasets, receipts, receipt>>
    BY <1>5 DEF vars, RawKept, raw
  <2>2. DatasetsAreEvidenced'
    BY <2>1, DatasetsStay
  <2>3. /\ \A r \in Runs : Held(r)' = Held(r) /\ Completion(r)' = Completion(r)
        /\ \A r \in Runs : Rebuilt(r)' = Rebuilt(r)
    BY <2>1, RawStays
  <2>4. TypeOK' /\ Counted' /\ Filled' /\ Stamped'
    BY <2>1 DEF IInv, TypeOK, Counted, Filled, Stamped, RawKept, raw
  <2>5. Written' /\ Validated' /\ Rebuildable' /\ Sourced'
    BY <2>1, <2>3 DEF IInv, Written, Validated, Rebuildable, Sourced, RawKept, raw
  <2> QED BY <2>2, <2>4, <2>5 DEF IInv
<1> QED BY <1>1, <1>2, <1>3, <1>4, <1>5 DEF Next

(* The inductive invariant, for any number of runs, replays and pages.     *)
THEOREM InvariantHolds == Spec => []IInv
<1> QED BY InitInv, StepInv, PTL DEF Spec

(* Counters, points, sources and receipts keep their types; no receipt is  *)
(* without a time (service.py:192-405).                                    *)
THEOREM TypeCorrect == Spec => []TypeOK
<1>1. IInv => TypeOK
  BY DEF IInv
<1> QED BY <1>1, InvariantHolds, PTL

(* A COMPLETED manifest names whole pages only, and the closures of its    *)
(* run are with it (service.py:233-333).                                   *)
THEOREM EvidenceIsWhole == Spec => []EvidenceWhole
<1>1. ASSUME IInv, NEW r \in Runs, Completion(r) PROVE Loadable(r)
  <2>1. /\ retrieval[r].pages = Held(r)
        /\ Sealed(request[r]) => r \in closed
    BY <1>1 DEF IInv, Written, Completion, Rebuildable
  <2>2. pages[r] \in Seq(PageType) /\ described[r] \in Nat /\ described[r] <= Len(pages[r])
    BY <1>1 DEF IInv, TypeOK, Counted
  <2>3. Len(Held(r)) = described[r]
    BY <2>2, HeldTyped DEF Held
  <2>4. Len(retrieval[r].pages) <= described[r]
    BY <2>1, <2>2, <2>3
  <2>5. retrieval[r].pages = SubSeq(pages[r], 1, Len(retrieval[r].pages))
    BY <2>1, <2>3 DEF Held
  <2> QED BY <1>1, <2>1, <2>4, <2>5 DEF Loadable
<1>2. IInv => EvidenceWhole
  BY <1>1 DEF EvidenceWhole
<1> QED BY <1>2, InvariantHolds, PTL

(* Every canonical file, a replay's or a run's, follows from a COMPLETED   *)
(* run (service.py:319-368, replay.py).                                    *)
THEOREM NoneWithoutEvidence == Spec => []DatasetsAreEvidenced
<1>1. IInv => DatasetsAreEvidenced
  BY DEF IInv
<1> QED BY <1>1, InvariantHolds, PTL

-----------------------------------------------------------------------------
(***************************************************************************)
(* Rows: flattening and selection keep the order of the evidence.  Both    *)
(* recurse; what they return is proved on the smallest number of rows, or  *)
(* of pages, for which it would be something else.                         *)
(***************************************************************************)

(* A set of natural numbers has a smallest one.                            *)
LEMMA LeastElement ==
  ASSUME NEW T, T \subseteq Nat, T # {}
  PROVE  \E m \in T : \A n \in T : m <= n
<1> DEFINE R == OpToRel(<, Nat)
<1>1. IsWellFoundedOn(R, Nat)
  BY NatLessThanWellFounded
<1>2. \A x, y \in Nat : <<y, x>> \in R <=> y < x
  BY DEF OpToRel
<1> HIDE DEF R
<1>3. PICK x \in T : \A y \in T : ~ (<<y, x>> \in R)
  <2>1. \E x \in T : \A y \in T : ~ (<<y, x>> \in R)
    BY <1>1, WFMin
  <2> QED BY <2>1
<1>4. ASSUME NEW n \in T PROVE x <= n
  <2>1. x \in Nat /\ n \in Nat
    OBVIOUS
  <2>2. ~ (n < x)
    BY <1>2, <1>3, <2>1
  <2> QED BY <2>1, <2>2
<1> QED BY <1>4

\* F iterates step, n times from base.
Iterates(F, N, base, step) ==
  F[0] = base /\ \A n \in 1 .. N : F[n] = step[<<n, F[n - 1]>>]

(* Recursion over 1 .. N has a result.                                     *)
LEMMA IterationExists ==
  ASSUME NEW D, NEW N \in Nat, NEW base \in D, NEW step \in [(1 .. N) \X D -> D]
  PROVE  \E F \in [0 .. N -> D] : Iterates(F, N, base, step)
<1> DEFINE Bad == {n \in 0 .. N : ~ \E F \in [0 .. n -> D] : Iterates(F, n, base, step)}
<1>1. SUFFICES Bad = {}
  <2>1. N \in 0 .. N
    OBVIOUS
  <2> QED BY <2>1
<1>2. SUFFICES ASSUME Bad # {} PROVE FALSE
  OBVIOUS
<1>3. PICK n \in Bad : \A m \in Bad : n <= m
  <2>1. Bad \subseteq Nat
    OBVIOUS
  <2> HIDE DEF Bad
  <2> QED BY <1>2, <2>1, LeastElement
<1>4. n \in 0 .. N /\ ~ \E F \in [0 .. n -> D] : Iterates(F, n, base, step)
  OBVIOUS
<1>5. n # 0
  <2>1. SUFFICES ASSUME n = 0 PROVE FALSE
    OBVIOUS
  <2>2. [k \in 0 .. n |-> base] \in [0 .. n -> D] /\ Iterates([k \in 0 .. n |-> base], n, base, step)
    BY <2>1 DEF Iterates
  <2> QED BY <1>4, <2>2
<1>6. PICK F \in [0 .. n - 1 -> D] : Iterates(F, n - 1, base, step)
  <2>1. n - 1 \in 0 .. N /\ ~ (n <= n - 1)
    BY <1>4, <1>5
  <2> QED BY <1>3, <2>1
<1> DEFINE G == [k \in 0 .. n |-> IF k = n THEN step[<<n, F[n - 1]>>] ELSE F[k]]
<1>7. G \in [0 .. n -> D]
  <2>1. F[n - 1] \in D /\ n \in 1 .. N
    BY <1>4, <1>5
  <2>2. step[<<n, F[n - 1]>>] \in D
    BY <2>1
  <2>3. \A k \in 0 .. n : k # n => k \in 0 .. n - 1
    BY <1>4
  <2> QED BY <2>2, <2>3
<1>8. Iterates(G, n, base, step)
  <2>1. \A k \in 1 .. n : /\ k \in 0 .. n /\ k - 1 \in 0 .. n /\ k - 1 # n
                          /\ k # n => k \in 1 .. n - 1
    BY <1>4
  <2>2. 0 \in 0 .. n /\ 0 # n
    BY <1>4, <1>5
  <2> QED BY <1>6, <2>1, <2>2 DEF Iterates
<1> QED BY <1>4, <1>7, <1>8

\* F is the recursive function behind RowsOf.
IsKept(F, rows, opens) ==
  F = [n \in 0 .. Len(rows) |->
         IF n = 0 THEN <<>>
         ELSE IF rows[n].open \in opens THEN Append(F[n - 1], rows[n])
         ELSE F[n - 1]]

LEMMA KeptExists ==
  ASSUME NEW rows \in Seq(RowType), NEW opens
  PROVE  \E F : IsKept(F, rows, opens)
<1> DEFINE N == Len(rows)
           D == Seq(RowType)
           step == [p \in (1 .. N) \X D |->
                      IF rows[p[1]].open \in opens THEN Append(p[2], rows[p[1]]) ELSE p[2]]
<1>1. N \in Nat /\ <<>> \in D /\ \A n \in 1 .. N : rows[n] \in RowType
  OBVIOUS
<1>2. step \in [(1 .. N) \X D -> D]
  <2>1. \A n \in 1 .. N, d \in D : Append(d, rows[n]) \in D
    BY <1>1
  <2> HIDE DEF D, N
  <2> QED BY <2>1
<1>3. \A n \in 1 .. N, d \in D :
        step[<<n, d>>] = IF rows[n].open \in opens THEN Append(d, rows[n]) ELSE d
  OBVIOUS
<1> HIDE DEF step, D
<1>4. PICK F \in [0 .. N -> D] : Iterates(F, N, <<>>, step)
  BY <1>1, <1>2, IterationExists
<1> HIDE DEF N
<1>5. \A n \in 0 .. N : F[n] = IF n = 0 THEN <<>>
                               ELSE IF rows[n].open \in opens THEN Append(F[n - 1], rows[n])
                               ELSE F[n - 1]
  <2>1. ASSUME NEW n \in 1 .. N
        PROVE  F[n] = IF rows[n].open \in opens THEN Append(F[n - 1], rows[n]) ELSE F[n - 1]
    <3>1. F[n] = step[<<n, F[n - 1]>>] /\ F[n - 1] \in D
      BY <1>1, <1>4 DEF Iterates
    <3> QED BY <1>3, <3>1
  <2>2. F[0] = <<>> /\ \A n \in 0 .. N : n # 0 => n \in 1 .. N
    BY <1>1, <1>4 DEF Iterates
  <2> QED BY <2>1, <2>2
<1>6. IsKept(F, rows, opens)
  BY <1>4, <1>5 DEF IsKept, N
<1> QED BY <1>6

\* F[n] follows from the rows before row n.
KeptNext(F, rows, opens, n) ==
  F[n] = IF rows[n].open \in opens THEN Append(F[n - 1], rows[n]) ELSE F[n - 1]

\* What the first n rows leave behind.
KeptSoFar(F, rows, opens, n) ==
  /\ F[n] \in Seq(RowType)
  /\ \A i \in 1 .. Len(F[n]) : \E m \in 1 .. n : rows[m].open \in opens /\ F[n][i] = rows[m]
  /\ \A m \in 1 .. n : rows[m].open \in opens =>
       /\ Len(F[m]) \in 1 .. Len(F[n]) /\ F[n][Len(F[m])] = rows[m]
       /\ \A l \in 1 .. m - 1 : Len(F[l]) < Len(F[m])
  /\ \A l \in 0 .. n : Len(F[l]) \in 0 .. Len(F[n])

LEMMA KeptStep ==
  ASSUME NEW rows \in Seq(RowType), NEW opens, NEW F, NEW n \in 1 .. Len(rows),
         KeptNext(F, rows, opens, n),
         KeptSoFar(F, rows, opens, n - 1)
  PROVE  KeptSoFar(F, rows, opens, n)
<1> DEFINE f == F[n - 1]
           row == rows[n]
<1>1. f \in Seq(RowType) /\ row \in RowType /\ n \in Nat /\ n > 0 /\ Len(f) \in Nat
  BY DEF KeptSoFar
<1>2. \A m \in 1 .. n : m = n \/ m \in 1 .. n - 1
  BY <1>1
<1>3. \A m \in 0 .. n : m = n \/ m \in 0 .. n - 1
  BY <1>1
<1>4. \A m \in 1 .. n - 1 : m \in 1 .. n /\ m \in 0 .. n - 1
  BY <1>1
<1>5. CASE row.open \in opens
  <2>1. F[n] = Append(f, row)
    BY <1>5 DEF KeptNext
  <2>2. /\ Append(f, row) \in Seq(RowType) /\ Len(Append(f, row)) = Len(f) + 1
        /\ Append(f, row)[Len(f) + 1] = row
        /\ \A i \in 1 .. Len(f) : Append(f, row)[i] = f[i]
        /\ \A i \in 1 .. Len(f) + 1 : i = Len(f) + 1 \/ i \in 1 .. Len(f)
    BY <1>1
  <2> DEFINE g == F[n]
  <2>3. /\ g \in Seq(RowType) /\ Len(g) = Len(f) + 1 /\ g[Len(f) + 1] = row
        /\ \A i \in 1 .. Len(f) : g[i] = f[i]
    BY <2>1, <2>2
  <2>4. \A i \in 1 .. Len(g) : \E m \in 1 .. n : rows[m].open \in opens /\ g[i] = rows[m]
    <3> SUFFICES ASSUME NEW i \in 1 .. Len(g)
                 PROVE  \E m \in 1 .. n : rows[m].open \in opens /\ g[i] = rows[m]
      OBVIOUS
    <3>1. CASE i = Len(f) + 1
      BY <1>1, <1>5, <2>3, <3>1
    <3>2. CASE i \in 1 .. Len(f)
      <4>1. PICK m \in 1 .. n - 1 : rows[m].open \in opens /\ f[i] = rows[m]
        BY <3>2 DEF KeptSoFar
      <4> QED BY <1>4, <2>3, <3>2, <4>1
    <3> QED BY <2>2, <2>3, <3>1, <3>2
  <2>5. \A l \in 0 .. n - 1 : Len(F[l]) \in 0 .. Len(f)
    BY DEF KeptSoFar
  <2>6. \A l \in 0 .. n : Len(F[l]) \in 0 .. Len(g)
    <3>1. Len(f) \in Nat /\ Len(g) = Len(f) + 1 /\ g = F[n]
      BY <1>1, <2>3
    <3> HIDE DEF f, g
    <3> QED BY <1>3, <2>5, <3>1
  <2>7. ASSUME NEW m \in 1 .. n, rows[m].open \in opens
        PROVE  /\ Len(F[m]) \in 1 .. Len(g) /\ g[Len(F[m])] = rows[m]
               /\ \A l \in 1 .. m - 1 : Len(F[l]) < Len(F[m])
    <3>1. CASE m = n
      <4>1. \A l \in 1 .. n - 1 : Len(F[l]) \in 0 .. Len(f)
        BY <1>4, <2>5
      <4>2. Len(F[m]) = Len(f) + 1
        BY <2>3, <3>1
      <4> HIDE DEF f, g
      <4> QED BY <1>1, <2>3, <3>1, <4>1, <4>2 DEF row
    <3>2. CASE m \in 1 .. n - 1
      <4>1. /\ Len(F[m]) \in 1 .. Len(f) /\ f[Len(F[m])] = rows[m]
            /\ \A l \in 1 .. m - 1 : Len(F[l]) < Len(F[m])
        BY <2>7, <3>2 DEF KeptSoFar
      <4> HIDE DEF f, g
      <4> QED BY <1>1, <2>3, <4>1
    <3> QED BY <1>2, <3>1, <3>2
  <2> QED BY <2>3, <2>4, <2>6, <2>7 DEF KeptSoFar
<1>6. CASE row.open \notin opens
  <2>1. F[n] = f
    BY <1>6 DEF KeptNext
  <2>2. \A m \in 1 .. n : rows[m].open \in opens => m \in 1 .. n - 1
    BY <1>2, <1>6
  <2>3. \A l \in 0 .. n : Len(F[l]) \in 0 .. Len(f)
    <3>1. \A l \in 0 .. n - 1 : Len(F[l]) \in 0 .. Len(f)
      BY DEF KeptSoFar
    <3>2. Len(F[n]) \in 0 .. Len(f)
      <4>1. Len(f) \in Nat
        BY <1>1
      <4> HIDE DEF f
      <4> QED BY <2>1, <4>1
    <3> QED BY <1>3, <3>1, <3>2
  <2> QED BY <1>4, <2>1, <2>2, <2>3 DEF KeptSoFar
<1> QED BY <1>5, <1>6

\* The rows of some candles are in kept in their order.
InOrder(kept, rows, opens) ==
  \A l, m \in DOMAIN rows : l < m /\ rows[l].open \in opens /\ rows[m].open \in opens =>
    \E i, j \in DOMAIN kept : i < j /\ kept[i] = rows[l] /\ kept[j] = rows[m]

\* kept has the rows of some candles, all of them, and in their order.
Selects(kept, rows, opens) ==
  /\ kept \in Seq(RowType)
  /\ \A i \in DOMAIN kept : \E m \in DOMAIN rows : rows[m].open \in opens /\ kept[i] = rows[m]
  /\ \A m \in DOMAIN rows : rows[m].open \in opens => \E i \in DOMAIN kept : kept[i] = rows[m]
  /\ InOrder(kept, rows, opens)

(* Selection: the rows selected are rows of the list, and those that were  *)
(* asked for, in their order.                                              *)
LEMMA Selection ==
  ASSUME NEW rows \in Seq(RowType), NEW opens
  PROVE  Selects(RowsOf(rows, opens), rows, opens)
<1> DEFINE N == Len(rows)
           F == CHOOSE F : IsKept(F, rows, opens)
<1>1. IsKept(F, rows, opens)
  BY KeptExists
<1>2. N \in Nat /\ DOMAIN rows = 1 .. N
  OBVIOUS
<1>3. RowsOf(rows, opens) = F[N]
  BY DEF RowsOf, IsKept
<1> HIDE DEF F
<1>4. F[0] = <<>> /\ \A n \in 1 .. N : KeptNext(F, rows, opens, n)
  <2>1. \A n \in 0 .. N : F[n] = IF n = 0 THEN <<>>
                                ELSE IF rows[n].open \in opens THEN Append(F[n - 1], rows[n])
                                ELSE F[n - 1]
    BY <1>1 DEF IsKept
  <2>2. 0 \in 0 .. N /\ \A n \in 1 .. N : n \in 0 .. N /\ n # 0
    BY <1>2
  <2> HIDE DEF N
  <2> QED BY <2>1, <2>2 DEF KeptNext
<1> DEFINE Bad == {n \in 0 .. N : ~ KeptSoFar(F, rows, opens, n)}
<1>5. Bad = {}
  <2> SUFFICES ASSUME Bad # {} PROVE FALSE
    OBVIOUS
  <2>1. PICK n \in Bad : \A l \in Bad : n <= l
    <3>1. Bad \subseteq Nat
      BY <1>2
    <3> HIDE DEF Bad
    <3> QED BY <3>1, LeastElement
  <2>2. KeptSoFar(F, rows, opens, 0)
    <3>1. Len(F[0]) = 0 /\ F[0] \in Seq(RowType)
      BY <1>4
    <3> QED BY <3>1 DEF KeptSoFar
  <2>3. n # 0 /\ n \in 1 .. N /\ n - 1 \in 0 .. N /\ ~ (n <= n - 1)
    BY <1>2, <2>2
  <2>4. KeptSoFar(F, rows, opens, n - 1)
    BY <2>1, <2>3
  <2> QED BY <1>4, <2>3, <2>4, KeptStep
<1>6. KeptSoFar(F, rows, opens, N)
  BY <1>2, <1>5
<1> DEFINE kept == F[N]
<1>7. /\ kept \in Seq(RowType) /\ DOMAIN kept = 1 .. Len(kept)
      /\ \A i \in 1 .. Len(kept) : \E m \in 1 .. N : rows[m].open \in opens /\ kept[i] = rows[m]
      /\ \A m \in 1 .. N : rows[m].open \in opens =>
           /\ Len(F[m]) \in 1 .. Len(kept) /\ kept[Len(F[m])] = rows[m]
           /\ \A l \in 1 .. m - 1 : Len(F[l]) < Len(F[m])
  BY <1>6 DEF KeptSoFar
<1>8. RowsOf(rows, opens) = kept
  BY <1>3
<1> HIDE DEF kept, N
<1>9. ASSUME NEW m \in 1 .. N, rows[m].open \in opens
      PROVE  \E i \in DOMAIN kept : kept[i] = rows[m]
  BY <1>7, <1>9
<1>10. ASSUME NEW l \in 1 .. N, NEW m \in 1 .. N, l < m,
              rows[l].open \in opens, rows[m].open \in opens
       PROVE  \E i, j \in DOMAIN kept : i < j /\ kept[i] = rows[l] /\ kept[j] = rows[m]
  <2>1. l \in 1 .. m - 1
    BY <1>2, <1>10
  <2>2. Len(F[l]) < Len(F[m]) /\ {Len(F[l]), Len(F[m])} \subseteq DOMAIN kept
        /\ kept[Len(F[l])] = rows[l] /\ kept[Len(F[m])] = rows[m]
    BY <1>7, <1>10, <2>1
  <2> QED BY <2>2
<1>11. /\ kept \in Seq(RowType)
       /\ \A i \in DOMAIN kept : \E m \in DOMAIN rows :
            rows[m].open \in opens /\ kept[i] = rows[m]
  BY <1>2, <1>7
<1>12. \A m \in DOMAIN rows : rows[m].open \in opens =>
         \E i \in DOMAIN kept : kept[i] = rows[m]
  BY <1>2, <1>9
<1>13. InOrder(kept, rows, opens)
  BY <1>2, <1>10 DEF InOrder
<1> QED BY <1>8, <1>11, <1>12, <1>13 DEF Selects

\* F is the recursive function behind FlattenSeq.
IsFlat(F, lists) ==
  F = [i \in 1 .. Len(lists) |-> IF i = 1 THEN lists[i] ELSE F[i - 1] \o lists[i]]

LEMMA ConcatenationTyped ==
  ASSUME NEW S, NEW s \in Seq(S), NEW t \in Seq(S)
  PROVE  /\ s \o t \in Seq(S) /\ Len(s \o t) = Len(s) + Len(t)
         /\ Len(s) \in Nat /\ Len(t) \in Nat
         /\ \A i \in 1 .. Len(s) : (s \o t)[i] = s[i]
         /\ \A j \in 1 .. Len(t) : (s \o t)[Len(s) + j] = t[j]
OBVIOUS

LEMMA FlatExists ==
  ASSUME NEW lists \in Seq(Seq(RowType))
  PROVE  \E F : IsFlat(F, lists)
<1> DEFINE N == Len(lists)
           D == Seq(RowType)
           step == [p \in (1 .. N) \X D |-> IF p[1] = 1 THEN lists[1] ELSE p[2] \o lists[p[1]]]
<1>1. N \in Nat /\ <<>> \in D /\ \A n \in 1 .. N : lists[n] \in D
  OBVIOUS
<1>2. step \in [(1 .. N) \X D -> D]
  <2>1. \A n \in 1 .. N, d \in D : d \o lists[n] \in D
    BY <1>1, ConcatenationTyped
  <2> HIDE DEF D, N
  <2> QED BY <1>1, <2>1
<1>3. \A n \in 1 .. N, d \in D :
        step[<<n, d>>] = IF n = 1 THEN lists[n] ELSE d \o lists[n]
  OBVIOUS
<1> HIDE DEF step, D
<1>4. PICK F \in [0 .. N -> D] : Iterates(F, N, <<>>, step)
  BY <1>1, <1>2, IterationExists
<1> DEFINE G == [i \in 1 .. N |-> F[i]]
<1> HIDE DEF N
<1>5. \A n \in 1 .. N : G[n] = IF n = 1 THEN lists[n] ELSE G[n - 1] \o lists[n]
  <2> SUFFICES ASSUME NEW n \in 1 .. N
               PROVE  G[n] = IF n = 1 THEN lists[n] ELSE G[n - 1] \o lists[n]
    OBVIOUS
  <2>1. F[n] = step[<<n, F[n - 1]>>] /\ F[n - 1] \in D
    BY <1>1, <1>4 DEF Iterates
  <2>2. F[n] = IF n = 1 THEN lists[n] ELSE F[n - 1] \o lists[n]
    BY <1>3, <2>1
  <2>3. n # 1 => n - 1 \in 1 .. N
    BY <1>1
  <2> QED BY <2>2, <2>3
<1>6. IsFlat(G, lists)
  <2>1. G = [n \in 1 .. N |-> G[n]]
    OBVIOUS
  <2> HIDE DEF G
  <2> QED BY <1>5, <2>1 DEF IsFlat, N
<1> QED BY <1>6

\* F[n] follows from the lists before list n.
FlatNext(F, lists, n) == F[n] = IF n = 1 THEN lists[n] ELSE F[n - 1] \o lists[n]

\* Where list k begins in the whole.
Offset(F, k) == IF k = 1 THEN 0 ELSE Len(F[k - 1])

\* The first n lists, one behind the other.
FlatSoFar(F, lists, n) ==
  /\ F[n] \in Seq(RowType)
  /\ \A k \in 1 .. n :
       /\ Offset(F, k) \in Nat /\ Offset(F, k) + Len(lists[k]) <= Len(F[n])
       /\ \A j \in 1 .. Len(lists[k]) : F[n][Offset(F, k) + j] = lists[k][j]
       /\ \A l \in k + 1 .. n : Offset(F, k) + Len(lists[k]) <= Offset(F, l)

LEMMA FlatStep ==
  ASSUME NEW lists \in Seq(Seq(RowType)), NEW F, NEW n \in 1 .. Len(lists),
         FlatNext(F, lists, n), n # 1 => FlatSoFar(F, lists, n - 1)
  PROVE  FlatSoFar(F, lists, n)
<1>1. n \in Nat /\ \A k \in 1 .. n : lists[k] \in Seq(RowType) /\ Len(lists[k]) \in Nat
  OBVIOUS
<1>2. CASE n = 1
  <2>1. F[n] = lists[n] /\ Offset(F, n) = 0 /\ \A k \in 1 .. n : k = n
    BY <1>2 DEF FlatNext, Offset
  <2> QED BY <1>1, <1>2, <2>1 DEF FlatSoFar
<1>3. CASE n # 1
  <2> DEFINE f == F[n - 1]
             t == lists[n]
             g == F[n]
  <2>1. FlatSoFar(F, lists, n - 1) /\ n - 1 \in Nat /\ n > 1
    BY <1>1, <1>3
  <2>2. f \in Seq(RowType) /\ t \in Seq(RowType) /\ g = f \o t /\ Offset(F, n) = Len(f)
    <3>1. f \in Seq(RowType)
      BY <2>1 DEF FlatSoFar
    <3>2. t \in Seq(RowType)
      BY <1>1
    <3>3. g = f \o t
      BY <1>3 DEF FlatNext
    <3>4. Offset(F, n) = Len(f)
      BY <1>3 DEF Offset
    <3> QED BY <3>1, <3>2, <3>3, <3>4
  <2>3. /\ g \in Seq(RowType) /\ Len(g) = Len(f) + Len(t) /\ Len(f) \in Nat /\ Len(t) \in Nat
        /\ \A i \in 1 .. Len(f) : g[i] = f[i]
        /\ \A j \in 1 .. Len(t) : g[Len(f) + j] = t[j]
    <3> HIDE DEF f, t, g
    <3> QED BY <2>2, ConcatenationTyped
  <2>4. \A k \in 1 .. n - 1 :
          /\ Offset(F, k) \in Nat /\ Offset(F, k) + Len(lists[k]) <= Len(f)
          /\ \A j \in 1 .. Len(lists[k]) : f[Offset(F, k) + j] = lists[k][j]
          /\ \A l \in k + 1 .. n - 1 : Offset(F, k) + Len(lists[k]) <= Offset(F, l)
    BY <2>1 DEF FlatSoFar
  <2>5. Offset(F, n) = Len(f) /\ lists[n] = t
    BY <2>2
  <2> HIDE DEF f, t, g
  <2>6. ASSUME NEW k \in 1 .. n
        PROVE  /\ Offset(F, k) \in Nat /\ Offset(F, k) + Len(lists[k]) <= Len(g)
               /\ \A j \in 1 .. Len(lists[k]) : g[Offset(F, k) + j] = lists[k][j]
               /\ \A l \in k + 1 .. n : Offset(F, k) + Len(lists[k]) <= Offset(F, l)
    <3>1. CASE k = n
      <4>1. \A l \in k + 1 .. n : FALSE
        BY <1>1, <3>1
      <4>2. /\ Offset(F, n) \in Nat /\ Offset(F, n) + Len(lists[n]) <= Len(g)
            /\ \A j \in 1 .. Len(lists[n]) : g[Offset(F, n) + j] = lists[n][j]
        <5>1. Offset(F, n) + Len(lists[n]) = Len(g) /\ Len(g) \in Nat
          BY <2>3, <2>5
        <5>2. \A j \in 1 .. Len(lists[n]) : g[Offset(F, n) + j] = lists[n][j]
          BY <2>3, <2>5
        <5> QED BY <2>3, <2>5, <5>1, <5>2
      <4> QED BY <3>1, <4>1, <4>2
    <3>2. CASE k \in 1 .. n - 1
      <4>1. Len(lists[k]) \in Nat /\ Offset(F, k) \in Nat
            /\ Offset(F, k) + Len(lists[k]) <= Len(f)
        BY <1>1, <2>4, <3>2
      <4>2. \A j \in 1 .. Len(lists[k]) : g[Offset(F, k) + j] = lists[k][j]
        <5>1. \A j \in 1 .. Len(lists[k]) : Offset(F, k) + j \in 1 .. Len(f)
          <6> DEFINE o == Offset(F, k)
                     m == Len(lists[k])
          <6>1. m \in Nat /\ o \in Nat /\ o + m <= Len(f) /\ Len(f) \in Nat
            BY <2>3, <4>1
          <6> HIDE DEF o, m
          <6>2. \A j \in 1 .. m : o + j \in 1 .. Len(f)
            BY <6>1
          <6> QED BY <6>2 DEF o, m
        <5> QED BY <2>3, <2>4, <3>2, <5>1
      <4>3. \A l \in k + 1 .. n : Offset(F, k) + Len(lists[k]) <= Offset(F, l)
        <5>1. \A l \in k + 1 .. n : l = n \/ l \in k + 1 .. n - 1
          BY <1>1
        <5> QED BY <2>4, <2>5, <3>2, <4>1, <5>1
      <4> QED BY <2>3, <4>1, <4>2, <4>3
    <3> QED BY <1>1, <3>1, <3>2
  <2> QED BY <2>3, <2>6 DEF FlatSoFar, g
<1> QED BY <1>2, <1>3

(* The rows of all pages are those of the pages, page after page.          *)
LEMMA RowsInOrder ==
  ASSUME NEW list \in Seq(PageType)
  PROVE  /\ Rows(list) \in Seq(RowType)
         /\ \A k \in DOMAIN list : list[k].rows \in Seq(RowType)
         /\ \A k \in DOMAIN list : \A i \in DOMAIN list[k].rows :
              \E a \in DOMAIN Rows(list) : Rows(list)[a] = list[k].rows[i]
         /\ \A k, l \in DOMAIN list : \A i \in DOMAIN list[k].rows, j \in DOMAIN list[l].rows :
              k < l => \E a, b \in DOMAIN Rows(list) :
                         a < b /\ Rows(list)[a] = list[k].rows[i] /\ Rows(list)[b] = list[l].rows[j]
<1> DEFINE N == Len(list)
           lists == [k \in DOMAIN list |-> list[k].rows]
           F == CHOOSE F : IsFlat(F, lists)
<1>1. N \in Nat /\ DOMAIN list = 1 .. N
  OBVIOUS
<1>2. \A k \in 1 .. N : list[k].rows \in Seq(RowType)
  <2> SUFFICES ASSUME NEW k \in 1 .. N PROVE list[k].rows \in Seq(RowType)
    OBVIOUS
  <2>1. list[k] \in PageType
    BY <1>1
  <2>2. list[k].rows \in Answers
    BY <2>1 DEF PageType
  <2> QED BY <2>2, ProviderAssumption
<1>3. lists \in Seq(Seq(RowType)) /\ Len(lists) = N /\ DOMAIN lists = 1 .. N
  BY <1>1, <1>2
<1>4. \A k \in 1 .. N : lists[k] = list[k].rows
  BY <1>1
<1>5. Rows(list) = FlattenSeq(lists)
  BY DEF Rows
<1> HIDE DEF lists
<1>6. IsFlat(F, lists)
  BY <1>3, FlatExists
<1>7. FlattenSeq(lists) = IF N = 0 THEN lists ELSE F[N]
  BY <1>3 DEF FlattenSeq, IsFlat
<1> HIDE DEF F
<1>8. \A n \in 1 .. N : FlatNext(F, lists, n)
  <2>1. \A n \in 1 .. Len(lists) : F[n] = IF n = 1 THEN lists[n] ELSE F[n - 1] \o lists[n]
    BY <1>6 DEF IsFlat
  <2> QED BY <1>3, <2>1 DEF FlatNext
<1> HIDE DEF N
<1> DEFINE Bad == {n \in 1 .. N : ~ FlatSoFar(F, lists, n)}
<1>9. Bad = {}
  <2> SUFFICES ASSUME Bad # {} PROVE FALSE
    OBVIOUS
  <2>1. PICK n \in Bad : \A l \in Bad : n <= l
    <3>1. Bad \subseteq Nat
      BY <1>1
    <3> HIDE DEF Bad
    <3> QED BY <3>1, LeastElement
  <2>2. n \in 1 .. N /\ ~ (n <= n - 1) /\ (n # 1 => n - 1 \in 1 .. N)
    BY <1>1
  <2>3. n # 1 => FlatSoFar(F, lists, n - 1)
    BY <2>1, <2>2
  <2>4. FlatSoFar(F, lists, n)
    BY <1>3, <1>8, <2>2, <2>3, FlatStep
  <2> QED BY <2>4
<1>10. CASE N = 0
  <2>1. Rows(list) = lists /\ Len(lists) = 0
    BY <1>3, <1>5, <1>7, <1>10
  <2>2. lists = <<>>
    BY <1>3, <2>1
  <2> QED BY <1>1, <1>10, <2>1, <2>2
<1>11. CASE N # 0
  <2>1. FlatSoFar(F, lists, N) /\ Rows(list) = F[N]
    BY <1>1, <1>5, <1>7, <1>9, <1>11
  <2> DEFINE all == F[N]
  <2>2. /\ all \in Seq(RowType) /\ DOMAIN all = 1 .. Len(all) /\ Len(all) \in Nat
        /\ \A k \in 1 .. N :
             /\ Offset(F, k) \in Nat /\ Offset(F, k) + Len(lists[k]) <= Len(all)
             /\ \A j \in 1 .. Len(lists[k]) : all[Offset(F, k) + j] = lists[k][j]
             /\ \A l \in k + 1 .. N : Offset(F, k) + Len(lists[k]) <= Offset(F, l)
    BY <2>1 DEF FlatSoFar
  <2>3. Rows(list) = all
    BY <2>1
  <2> HIDE DEF all
  <2>4. \A k \in 1 .. N : DOMAIN lists[k] = 1 .. Len(lists[k]) /\ Len(lists[k]) \in Nat
    BY <1>2, <1>4
  <2>5. \A k \in 1 .. N : \A i \in DOMAIN lists[k] :
          Offset(F, k) + i \in DOMAIN all /\ all[Offset(F, k) + i] = lists[k][i]
    <3> SUFFICES ASSUME NEW k \in 1 .. N, NEW i \in DOMAIN lists[k]
                 PROVE  Offset(F, k) + i \in DOMAIN all /\ all[Offset(F, k) + i] = lists[k][i]
      OBVIOUS
    <3> DEFINE o == Offset(F, k)
               m == Len(lists[k])
    <3>1. /\ m \in Nat /\ o \in Nat /\ o + m <= Len(all) /\ Len(all) \in Nat /\ i \in 1 .. m
          /\ all[o + i] = lists[k][i]
      BY <2>2, <2>4
    <3> HIDE DEF o, m
    <3>2. o + i \in 1 .. Len(all)
      BY <3>1
    <3> QED BY <2>2, <3>1, <3>2 DEF o
  <2>6. ASSUME NEW k \in 1 .. N, NEW l \in 1 .. N, NEW i \in DOMAIN lists[k],
               NEW j \in DOMAIN lists[l], k < l
        PROVE  \E a, b \in DOMAIN all : a < b /\ all[a] = lists[k][i] /\ all[b] = lists[l][j]
    <3>1. l \in k + 1 .. N
      BY <1>1, <2>6
    <3>2. Offset(F, k) + i < Offset(F, l) + j
      BY <2>2, <2>4, <3>1
    <3> QED BY <2>5, <3>2
  <2>7. \A k \in 1 .. N : \A i \in DOMAIN lists[k] : \E a \in DOMAIN all : all[a] = lists[k][i]
    BY <2>5
  <2>8. \A k, l \in 1 .. N : \A i \in DOMAIN lists[k], j \in DOMAIN lists[l] :
          k < l => \E a, b \in DOMAIN all : a < b /\ all[a] = lists[k][i] /\ all[b] = lists[l][j]
    BY <2>6
  <2>9. all \in Seq(RowType)
    BY <2>2
  <2>10. \A k \in DOMAIN list : k \in 1 .. N /\ lists[k] = list[k].rows
    BY <1>1, <1>4
  <2> HIDE DEF all
  <2>11. \A k \in DOMAIN list : \A i \in DOMAIN list[k].rows :
           \E a \in DOMAIN Rows(list) : Rows(list)[a] = list[k].rows[i]
    BY <2>3, <2>7, <2>10
  <2>12. \A k, l \in DOMAIN list : \A i \in DOMAIN list[k].rows, j \in DOMAIN list[l].rows :
           k < l => \E a, b \in DOMAIN Rows(list) :
                      a < b /\ Rows(list)[a] = list[k].rows[i] /\ Rows(list)[b] = list[l].rows[j]
    BY <2>3, <2>8, <2>10
  <2>13. Rows(list) \in Seq(RowType) /\ \A k \in DOMAIN list : list[k].rows \in Seq(RowType)
    BY <1>2, <2>3, <2>9, <2>10
  <2> QED BY <2>11, <2>12, <2>13
<1> QED BY <1>10, <1>11

-----------------------------------------------------------------------------
(***************************************************************************)
(* What a run has retrieved: pages that move the cursor on, the last of    *)
(* them terminal or at the end of the window, and what Validate has seen   *)
(* of them.                                                                *)
(***************************************************************************)
Reaches(page) == page.rows # <<>> /\ Last(page.rows).open >= page.cursor

(* A page asks for what the page before it left (service.py:137-142).      *)
Cursored(r) ==
  \A k \in DOMAIN pages[r] : pages[r][k].cursor = Cursor(request[r], pages[r], k)

(* No page ends the retrieval before the one that is described last.       *)
Fetching(r) == pc[r] \in {"page", "metadata"} =>
  /\ server[r] \in ServerTimes
  /\ Len(pages[r]) = IF pc[r] = "page" THEN described[r] ELSE described[r] + 1
  /\ \A k \in 1 .. described[r] : Reaches(pages[r][k]) /\ ~ Terminal(pages[r][k], server[r])

Retrieved(q, list, now) ==
  /\ list # <<>>
  /\ \A k \in DOMAIN list : Reaches(list[k]) /\ (Terminal(list[k], now) => k = Len(list))
  /\ Terminal(Last(list), now) \/ Last(Last(list).rows).open + 1 >= q.end

(* A retrieval that is over has described all of its pages.                *)
Fetched(r) == pc[r] \in {"validate", "complete"} \/ Completion(r) =>
  /\ server[r] \in ServerTimes
  /\ described[r] = Len(pages[r])
  /\ Retrieved(request[r], pages[r], server[r])

(* Only accepted rows are completed (service.py:283-333).                  *)
Judged(r) == pc[r] = "complete" \/ Completion(r) =>
  Accepted(request[r], Rows(pages[r]), server[r])

Evidence(r) == Cursored(r) /\ Fetching(r) /\ Fetched(r) /\ Judged(r)
EInv == IInv /\ \A r \in Runs : Evidence(r)

\* Nothing that run r has fetched changes, and it gets nowhere that it is not.
Quiet(r) ==
  /\ request'[r] = request[r] /\ server'[r] = server[r]
  /\ pages'[r] = pages[r] /\ described'[r] = described[r]
  /\ pc'[r] \in {"page", "metadata", "validate"} => pc'[r] = pc[r]
  /\ pc'[r] = "complete" \/ Completion(r)' => pc[r] = "complete" \/ Completion(r)

LEMMA QuietEvidence ==
  ASSUME NEW r \in Runs, Evidence(r), Quiet(r)
  PROVE  Evidence(r)'
<1>1. Cursored(r)'
  BY DEF Evidence, Quiet, Cursored, Cursor
<1>2. Fetching(r)'
  BY DEF Evidence, Quiet, Fetching
<1>3. Fetched(r)'
  BY DEF Evidence, Quiet, Fetched
<1>4. Judged(r)'
  BY DEF Evidence, Quiet, Judged
<1> QED BY <1>1, <1>2, <1>3, <1>4 DEF Evidence

\* A process that does no more than go on to a point.
LEMMA PointQuiet ==
  ASSUME IInv, NEW p \in Processes, RawKept, NEW point,
         point \notin {"page", "metadata", "validate", "complete"},
         pc' = [pc EXCEPT ![p] = point]
  PROVE  \A s \in Runs : Quiet(s)
<1>1. \A s \in Runs : pc'[s] = pc[s] \/ pc'[s] = point
  BY ProcessesApart DEF IInv, TypeOK
<1> QED BY <1>1 DEF Quiet, RawKept, raw, Completion

LEMMA ProcessEvidence ==
  ASSUME EInv, NEW p \in Processes,
         Publish(p) \/ Stamp(p) \/ WriteProvenance(p) \/ Interrupt(p) \/ (p \in Replayers /\ Replay(p))
  PROVE  \A s \in Runs : Evidence(s)'
<1> DEFINE point == pc'[p]
<1>0. IInv /\ pc \in [Processes -> {"idle"} \cup Retrieving \cup Publishing \cup Ended]
  BY DEF EInv, IInv, TypeOK
<1>1. /\ pc' = [pc EXCEPT ![p] = point] /\ RawKept
      /\ point \notin {"page", "metadata", "validate", "complete"}
  <2>1. CASE Publish(p)
    <3>1. pc[p] \in {"candles.jsonl", "dataset-manifest.json"} \cup Supporting /\ RawKept
      BY <2>1 DEF Publish, RawKept
    <3>2. pc' = [pc EXCEPT ![p] = "conflict"] \/ pc' = [pc EXCEPT ![p] = Following(request[source[p]], pc[p])]
      BY <2>1 DEF Publish, Goto
    <3>3. Following(request[source[p]], pc[p]) \in Publishing
      BY <3>1, FollowingIsLater
    <3> QED BY <1>0, <3>1, <3>2, <3>3 DEF Publishing, Supporting
  <2>2. CASE Stamp(p)
    BY <1>0, <2>2 DEF Stamp, Goto, RawKept
  <2>3. CASE WriteProvenance(p)
    BY <1>0, <2>3 DEF WriteProvenance, Goto, RawKept
  <2>4. CASE Interrupt(p)
    BY <1>0, <2>4 DEF Interrupt, Goto, RawKept
  <2>5. CASE Replay(p)
    BY <1>0, <2>5 DEF Replay, Goto, RawKept
  <2> QED BY <2>1, <2>2, <2>3, <2>4, <2>5
<1> HIDE DEF point
<1>2. \A s \in Runs : Quiet(s)
  BY <1>0, <1>1, PointQuiet
<1> QED BY <1>2, QuietEvidence DEF EInv

\* A step of run r leaves the other runs alone.
LEMMA OthersQuiet ==
  ASSUME IInv, NEW r \in Runs, NEW s \in Runs, s # r,
         ServerTime(r) \/ FetchPage(r) \/ DescribePage(r) \/ Validate(r) \/ Complete(r)
           \/ WriteFailed(r) \/ ProviderFails(r)
  PROVE  Quiet(s)
<1>1. /\ request \in [Runs -> Requests] /\ server \in [Runs -> ServerTimes \cup {None}]
      /\ pages \in [Runs -> Seq(PageType)] /\ described \in [Runs -> Nat]
      /\ retrieval \in [Runs -> ManifestType \cup {None}]
      /\ pc \in [Processes -> {"idle"} \cup Retrieving \cup Publishing \cup Ended]
      /\ s \in Processes
  BY ProcessesApart DEF IInv, TypeOK
<1>2. /\ request'[s] = request[s] /\ server'[s] = server[s] /\ pages'[s] = pages[s]
      /\ described'[s] = described[s] /\ retrieval'[s] = retrieval[s] /\ pc'[s] = pc[s]
  <2>1. CASE ServerTime(r)
    BY <1>1, <2>1 DEF ServerTime, Goto
  <2>2. CASE FetchPage(r)
    BY <1>1, <2>2 DEF FetchPage, Goto
  <2>3. CASE DescribePage(r)
    BY <1>1, <2>3 DEF DescribePage, Goto
  <2>4. CASE Validate(r)
    BY <1>1, <2>4 DEF Validate, Goto
  <2>5. CASE Complete(r)
    BY <1>1, <2>5 DEF Complete, Goto
  <2>6. CASE WriteFailed(r)
    BY <1>1, <2>6 DEF WriteFailed, Goto
  <2>7. CASE ProviderFails(r)
    BY <1>1, <2>7 DEF ProviderFails, Retry, Goto
  <2> QED BY <2>1, <2>2, <2>3, <2>4, <2>5, <2>6, <2>7
<1> QED BY <1>2 DEF Quiet, Completion

LEMMA ServerTimeEvidence ==
  ASSUME EInv, NEW r \in Runs, ServerTime(r)
  PROVE  Evidence(r)'
<1> USE ProcessesApart
<1>1. /\ pc[r] = "server time" /\ pc'[r] = "page" /\ server'[r] \in ServerTimes
      /\ UNCHANGED <<request, pages, described, retrieval>>
  BY DEF ServerTime, Goto, EInv, IInv, TypeOK
<1>2. pages[r] = <<>> /\ described[r] = 0
  <2>1. pages[r] = <<>> /\ described[r] <= Len(pages[r]) /\ described[r] \in Nat
    BY <1>1 DEF EInv, IInv, Filled, Counted, TypeOK
  <2>2. Len(pages[r]) = 0
    BY <2>1
  <2> QED BY <2>1, <2>2
<1>3. retrieval[r] = None
  BY <1>1, ManifestIsLater DEF EInv, Retrieving
<1>4. Len(pages[r]) = 0
  BY <1>2
<1>5. Cursored(r)'
  BY <1>1, <1>4 DEF EInv, Evidence, Cursored, Cursor
<1>6. Fetching(r)'
  <2>1. /\ server'[r] \in ServerTimes /\ pc'[r] = "page"
        /\ Len(pages'[r]) = described'[r] /\ described'[r] = 0
    BY <1>1, <1>2, <1>4
  <2>2. 1 .. described'[r] = {}
    BY <2>1
  <2> QED BY <2>1, <2>2 DEF Fetching
<1>7. Fetched(r)' /\ Judged(r)'
  BY <1>1, <1>3 DEF Fetched, Judged, Completion
<1> QED BY <1>5, <1>6, <1>7 DEF Evidence

LEMMA FetchPageEvidence ==
  ASSUME EInv, NEW r \in Runs, FetchPage(r)
  PROVE  Evidence(r)'
<1> USE ProcessesApart
<1> DEFINE list == pages[r]
           n == Len(list)
<1>1. PICK page :
        /\ page.cursor = Cursor(request[r], list, n + 1)
        /\ pages'[r] = Append(list, page)
  <2>1. PICK rows \in Answers, at \in Clock :
          pages' = [pages EXCEPT ![r] =
            Append(@, [rows |-> rows, at |-> at, cursor |-> Cursor(request[r], pages[r], Len(pages[r]) + 1)])]
    BY DEF FetchPage
  <2> DEFINE page == [rows |-> rows, at |-> at, cursor |-> Cursor(request[r], list, n + 1)]
  <2>2. page.cursor = Cursor(request[r], list, n + 1) /\ pages'[r] = Append(list, page)
    BY <2>1 DEF EInv, IInv, TypeOK
  <2> QED BY <2>2
<1>2. /\ pc[r] = "page" /\ pc'[r] = "metadata"
      /\ UNCHANGED <<request, server, described, retrieval>>
  BY DEF FetchPage, Goto, EInv, IInv, TypeOK
<1>3. list \in Seq(PageType) /\ described[r] \in Nat
  BY DEF EInv, IInv, TypeOK
<1>4. retrieval[r] = None
  BY <1>2, ManifestIsLater DEF EInv, Retrieving
<1>5. /\ n \in Nat /\ DOMAIN Append(list, page) = 1 .. n + 1 /\ Len(Append(list, page)) = n + 1
      /\ \A k \in 1 .. n : Append(list, page)[k] = list[k]
      /\ Append(list, page)[n + 1] = page /\ DOMAIN list = 1 .. n
  BY <1>3
<1>6. \A k \in 1 .. n + 1 : Cursor(request[r], Append(list, page), k) = Cursor(request[r], list, k)
  <2>1. \A k \in 1 .. n + 1 : k # 1 => k - 1 \in 1 .. n
    BY <1>5
  <2> HIDE DEF list, n
  <2> QED BY <1>5, <2>1 DEF Cursor
<1>7. Cursored(r)'
  <2>1. \A k \in 1 .. n : list[k].cursor = Cursor(request[r], list, k)
    BY <1>5 DEF EInv, Evidence, Cursored
  <2>2. \A k \in 1 .. n + 1 : k = n + 1 \/ k \in 1 .. n
    BY <1>5
  <2> HIDE DEF list, n
  <2>3. \A k \in 1 .. n + 1 :
          Append(list, page)[k].cursor = Cursor(request[r], Append(list, page), k)
    BY <1>1, <1>5, <1>6, <2>1, <2>2
  <2>4. request' = request /\ DOMAIN pages'[r] = 1 .. n + 1
    BY <1>1, <1>2, <1>5
  <2> QED BY <1>1, <2>3, <2>4 DEF Cursored
<1>8. Fetching(r)'
  <2>1. /\ server[r] \in ServerTimes /\ n = described[r]
        /\ \A k \in 1 .. n : Reaches(list[k]) /\ ~ Terminal(list[k], server[r])
    BY <1>2 DEF EInv, Evidence, Fetching
  <2> HIDE DEF list, n
  <2> QED BY <1>1, <1>2, <1>5, <2>1 DEF Fetching
<1>9. Fetched(r)' /\ Judged(r)'
  BY <1>2, <1>4 DEF Fetched, Judged, Completion
<1> QED BY <1>7, <1>8, <1>9 DEF Evidence

LEMMA DescribePageEvidence ==
  ASSUME EInv, NEW r \in Runs, DescribePage(r)
  PROVE  Evidence(r)'
<1> USE ProcessesApart
<1> DEFINE list == pages[r]
           n == Len(list)
           now == server[r]
           q == request[r]
           point == AfterPage(q, Last(list), now)
<1>1. /\ pc[r] = "metadata" /\ pc'[r] = point
      /\ described'[r] = described[r] + 1
      /\ UNCHANGED <<request, server, pages, retrieval>>
  BY DEF DescribePage, Goto, EInv, IInv, TypeOK
<1>2. /\ list \in Seq(PageType) /\ described[r] \in Nat /\ now \in ServerTimes
      /\ n = described[r] + 1
      /\ \A k \in 1 .. described[r] : Reaches(list[k]) /\ ~ Terminal(list[k], now)
  BY <1>1 DEF EInv, IInv, TypeOK, Evidence, Fetching
<1>3. /\ n \in Nat \ {0} /\ DOMAIN list = 1 .. n /\ Last(list) = list[n] /\ list # <<>>
      /\ \A k \in 1 .. n : k # n => k \in 1 .. described[r]
  BY <1>2 DEF Last
<1>4. retrieval[r] = None
  BY <1>1, ManifestIsLater DEF EInv, Retrieving
<1>5. point # "fail" => Reaches(list[n])
  <2>1. Last(list).rows # <<>> => Last(Last(list).rows).open \in Nat
    <3>1. Last(list) \in PageType
      BY <1>2, <1>3
    <3> QED BY <3>1, RowsTyped
  <2>2. Last(list).cursor \in Nat
    <3>1. Last(list) \in PageType
      BY <1>2, <1>3
    <3> QED BY <3>1 DEF PageType
  <2>3. point # "fail" => Last(list).rows # <<>> /\ ~ (Last(Last(list).rows).open < Last(list).cursor)
    BY DEF AfterPage
  <2> QED BY <1>3, <2>1, <2>2, <2>3 DEF Reaches
<1>6. point = "page" => ~ Terminal(list[n], now)
  BY <1>3 DEF AfterPage
<1>7. point = "validate" => Terminal(list[n], now) \/ Last(list[n].rows).open + 1 >= q.end
  BY <1>3 DEF AfterPage
<1>8. point \in {"fail", "page", "validate"}
  BY DEF AfterPage
<1> HIDE DEF point
<1>9. Cursored(r)'
  BY <1>1 DEF EInv, Evidence, Cursored
<1>10. Fetching(r)'
  BY <1>1, <1>2, <1>3, <1>5, <1>6, <1>8 DEF Fetching
<1>11. Fetched(r)'
  <2>1. point = "validate" => Retrieved(q, list, now)
    BY <1>2, <1>3, <1>5, <1>7 DEF Retrieved
  <2> QED BY <1>1, <1>2, <1>4, <1>8, <2>1 DEF Fetched, Completion
<1>12. Judged(r)'
  BY <1>1, <1>4, <1>8 DEF Judged, Completion
<1> QED BY <1>9, <1>10, <1>11, <1>12 DEF Evidence

(* A run that has described all of its pages holds them.                   *)
LEMMA HeldIsAll ==
  ASSUME NEW S, NEW s \in Seq(S)
  PROVE  SubSeq(s, 1, Len(s)) = s
OBVIOUS

LEMMA ValidateEvidence ==
  ASSUME EInv, NEW r \in Runs, Validate(r)
  PROVE  Evidence(r)'
<1> USE ProcessesApart
<1>1. /\ pc[r] = "validate" /\ pc'[r] \in {"complete", "fail"}
      /\ pc'[r] = "complete" => Accepted(request[r], Rows(Held(r)), server[r])
      /\ UNCHANGED <<request, server, pages, described, retrieval>>
  BY DEF Validate, Goto, EInv, IInv, TypeOK
<1>2. retrieval[r] = None
  BY <1>1, ManifestIsLater DEF EInv, Retrieving
<1>3. Held(r) = pages[r]
  <2>1. described[r] = Len(pages[r]) /\ pages[r] \in Seq(PageType)
    BY <1>1 DEF EInv, IInv, TypeOK, Evidence, Fetched
  <2> QED BY <2>1, HeldIsAll DEF Held
<1>4. Cursored(r)'
  BY <1>1 DEF EInv, Evidence, Cursored
<1>5. Fetching(r)' /\ Judged(r)'
  BY <1>1, <1>2, <1>3 DEF Fetching, Judged, Completion
<1>6. Fetched(r)'
  BY <1>1, <1>2 DEF EInv, Evidence, Fetched, Completion
<1> QED BY <1>4, <1>5, <1>6 DEF Evidence

\* The other steps of a run fetch nothing.
LEMMA RestQuiet ==
  ASSUME IInv, NEW r \in Runs, Complete(r) \/ WriteFailed(r) \/ ProviderFails(r)
  PROVE  Quiet(r)
<1> USE ProcessesApart
<1>1. CASE Complete(r)
  BY <1>1 DEF Complete, Goto, Quiet, IInv, TypeOK
<1>2. CASE WriteFailed(r)
  <2>1. Completion(r)' => Completion(r)
    BY <1>2 DEF WriteFailed, Completion, Manifest, IInv, TypeOK
  <2> QED BY <1>2, <2>1 DEF WriteFailed, Goto, Quiet, IInv, TypeOK
<1>3. CASE ProviderFails(r)
  BY <1>3 DEF ProviderFails, Retry, Goto, Quiet, Completion, IInv, TypeOK
<1> QED BY <1>1, <1>2, <1>3

LEMMA RunEvidence ==
  ASSUME EInv, NEW r \in Runs,
         ServerTime(r) \/ FetchPage(r) \/ DescribePage(r) \/ Validate(r) \/ Complete(r)
           \/ WriteFailed(r) \/ ProviderFails(r)
  PROVE  \A s \in Runs : Evidence(s)'
<1>1. Evidence(r)'
  BY ServerTimeEvidence, FetchPageEvidence, DescribePageEvidence, ValidateEvidence, RestQuiet,
     QuietEvidence DEF EInv
<1>2. ASSUME NEW s \in Runs, s # r PROVE Evidence(s)'
  BY <1>2, OthersQuiet, QuietEvidence DEF EInv
<1> QED BY <1>1, <1>2

LEMMA InitEvidence == Init => EInv
<1> SUFFICES ASSUME Init PROVE EInv
  OBVIOUS
<1>1. ASSUME NEW r \in Runs PROVE Evidence(r)
  <2>1. pc[r] = "server time" /\ retrieval[r] = None /\ pages[r] = <<>>
    BY ProcessesApart DEF Init
  <2>2. Cursored(r)
    <3>1. pages[r] \in Seq(PageType)
      BY InitInv DEF IInv, TypeOK
    <3>2. DOMAIN pages[r] = 1 .. Len(pages[r])
      BY <3>1
    <3>3. Len(pages[r]) = 0
      BY <2>1, <3>1, EmptyTyped
    <3> QED BY <3>2, <3>3 DEF Cursored
  <2> QED BY <2>1, <2>2 DEF Evidence, Fetching, Fetched, Judged, Completion
<1> QED BY <1>1, InitInv DEF EInv

LEMMA StepEvidence == EInv /\ [Next]_vars => EInv'
<1> SUFFICES ASSUME EInv, [Next]_vars PROVE EInv'
  OBVIOUS
<1>1. IInv'
  BY StepInv DEF EInv
<1>2. \A s \in Runs : Evidence(s)'
  <2>1. CASE \E p \in Processes : Step(p) \/ Interrupt(p)
    BY <2>1, RunEvidence, ProcessEvidence DEF Step
  <2>2. CASE \E r \in Runs : ProviderFails(r)
    BY <2>2, RunEvidence
  <2>3. CASE \E p \in Replayers : Replay(p)
    BY <2>3, ProcessEvidence, ProcessesApart
  <2>4. CASE UNCHANGED vars
    <3>1. \A s \in Runs : Quiet(s)
      BY <2>4 DEF vars, Quiet, Completion
    <3> QED BY <3>1, QuietEvidence DEF EInv
  <2> QED BY <2>1, <2>2, <2>3, <2>4 DEF Next
<1> QED BY <1>1, <1>2 DEF EInv

(* Nothing is validated, and no run is completed, but from pages that move *)
(* the cursor on up to the end of the window or of time.                   *)
THEOREM EvidenceHolds == Spec => []EInv
<1> QED BY InitEvidence, StepEvidence, PTL DEF Spec

-----------------------------------------------------------------------------
(***************************************************************************)
(* What accepted rows are: canonical candles, and pages in order.          *)
(***************************************************************************)

\* The candles that a set of open times makes canonical.
Wanted(q, now) == IF Sealed(q) THEN CompletedAt(now) \ Gaps(q) ELSE CompletedAt(now)

LEMMA CanonicalRows ==
  ASSUME NEW q, NEW found, NEW now
  PROVE  Canonical(q, found, now) = RowsOf(found, Wanted(q, now))
  BY DEF Canonical, Excluded, Completed, Wanted

(* Later rows of accepted evidence are of later candles than a completed one. *)
LEMMA AcceptedOrdered ==
  ASSUME NEW q, NEW found \in Seq(RowType), NEW now \in Nat, Accepted(q, found, now),
         NEW a \in DOMAIN found, NEW b \in DOMAIN found, a < b, found[a].open < now
  PROVE  found[a].open < found[b].open
<1> DEFINE x == found[a]
           y == found[b]
<1>1. x.open \in Nat /\ y.open \in Nat
  <2>1. x \in RowType /\ y \in RowType
    OBVIOUS
  <2> QED BY <2>1 DEF RowType
<1>2. CASE Sealed(q)
  BY <1>2 DEF Accepted, Matched, Increasing
<1>3. CASE ~ Sealed(q)
  <2>1. Increasing(RowsOf(found, CompletedAt(now)))
    <3>1. Wanted(q, now) = CompletedAt(now)
      BY <1>3 DEF Wanted
    <3>2. Canonical(q, found, now) = RowsOf(found, CompletedAt(now))
      BY <3>1, CanonicalRows
    <3>3. ValidStructure(q, Canonical(q, found, now))
      BY <1>3 DEF Accepted
    <3> QED BY <3>2, <3>3 DEF ValidStructure
  <2>2. CASE y.open >= now
    BY <1>1, <2>2
  <2>3. CASE y.open < now
    <3>1. x.open \in CompletedAt(now) /\ y.open \in CompletedAt(now)
      BY <1>1, <2>3 DEF CompletedAt
    <3> DEFINE kept == RowsOf(found, CompletedAt(now))
    <3>2. InOrder(kept, found, CompletedAt(now))
      BY Selection DEF Selects
    <3> HIDE DEF kept
    <3>3. PICK i, j \in DOMAIN kept : i < j /\ kept[i] = x /\ kept[j] = y
      BY <3>1, <3>2 DEF InOrder
    <3>4. Increasing(kept)
      BY <2>1 DEF kept
    <3> QED BY <3>3, <3>4 DEF Increasing
  <2> QED BY <1>1, <2>2, <2>3
<1> QED BY <1>2, <1>3

\* Accepted candles are structured, and their jumps are the closures.
Bridged(q, rows) == {Bridges(rows, k) : k \in Jumps(rows)} = ToSet(q.closures)

LEMMA AcceptedBridged ==
  ASSUME NEW q \in RequestType, NEW found, NEW now, Accepted(q, found, now)
  PROVE  LET rows == Canonical(q, found, now) IN ValidStructure(q, rows) /\ Bridged(q, rows)
<1>1. CASE Sealed(q)
  BY <1>1 DEF Accepted, Segmented, Bridged
<1>2. CASE ~ Sealed(q)
  <2>1. q.closures = <<>>
    BY <1>2 DEF Sealed
  <2>2. ToSet(q.closures) = {}
    <3>1. q.closures \in Seq(ClosureType)
      BY DEF RequestType
    <3>2. DOMAIN q.closures = 1 .. Len(q.closures)
      BY <3>1
    <3>3. Len(q.closures) = 0
      BY <2>1, <3>1, EmptyTyped
    <3> QED BY <3>2, <3>3 DEF ToSet
  <2> QED BY <1>2, <2>2 DEF Accepted, Bridged
<1> QED BY <1>1, <1>2

(* Candles that increase from the start of a window, with a closure at     *)
(* every jump, have every open time up to their last that no closure       *)
(* declares unavailable.                                                   *)
LEMMA BridgedCover ==
  ASSUME NEW q \in RequestType, NEW rows \in Seq(RowType),
         ValidStructure(q, rows), Bridged(q, rows), q.start \in Opens(rows)
  PROVE  Opens(rows) = (q.start .. Last(rows).open) \ Unavailable(q)
<1> DEFINE n == Len(rows)
<1>1. /\ n \in Nat \ {0} /\ DOMAIN rows = 1 .. n /\ Last(rows) = rows[n]
      /\ \A k \in 1 .. n : rows[k].open \in Nat
      /\ q.start \in Nat
  <2>1. rows # <<>> /\ n \in Nat /\ DOMAIN rows = 1 .. n
    BY DEF ValidStructure
  <2>2. n # 0
    BY <2>1
  <2>3. \A k \in 1 .. n : rows[k].open \in Nat
    <3>1. \A k \in 1 .. n : rows[k] \in RowType
      BY <2>1
    <3> QED BY <3>1 DEF RowType
  <2>4. q.start \in Nat
    BY DEF RequestType
  <2> QED BY <2>1, <2>2, <2>3, <2>4 DEF Last
<1>2. /\ \A k \in 1 .. n : q.start <= rows[k].open
      /\ \A i, j \in 1 .. n : i < j => rows[i].open < rows[j].open
  BY <1>1 DEF ValidStructure, InWindow, Increasing
<1>3. \A c \in ToSet(q.closures) : \E k \in 2 .. n :
        c.gap = rows[k - 1].open + 1 /\ c.resumed = rows[k].open
  <2> SUFFICES ASSUME NEW c \in ToSet(q.closures)
               PROVE  \E k \in 2 .. n : c.gap = rows[k - 1].open + 1 /\ c.resumed = rows[k].open
    OBVIOUS
  <2>1. PICK k \in Jumps(rows) : c = Bridges(rows, k)
    BY DEF Bridged
  <2>2. k \in 1 .. n /\ k > 1
    BY <1>1, <2>1 DEF Jumps
  <2>3. k \in 2 .. n
    BY <1>1, <2>2
  <2> QED BY <2>1, <2>3 DEF Bridges
<1>4. \A k \in 2 .. n : rows[k].open # rows[k - 1].open + 1 =>
        \E c \in ToSet(q.closures) : c.gap = rows[k - 1].open + 1 /\ c.resumed = rows[k].open
  <2> SUFFICES ASSUME NEW k \in 2 .. n, rows[k].open # rows[k - 1].open + 1
               PROVE  \E c \in ToSet(q.closures) :
                        c.gap = rows[k - 1].open + 1 /\ c.resumed = rows[k].open
    OBVIOUS
  <2>1. k \in Jumps(rows)
    BY <1>1 DEF Jumps
  <2>2. Bridges(rows, k) \in ToSet(q.closures)
    BY <2>1 DEF Bridged
  <2> QED BY <2>2 DEF Bridges
<1>5. Opens(rows) = {rows[k].open : k \in 1 .. n}
  BY <1>1 DEF Opens
<1>6. ASSUME NEW k \in 1 .. n
      PROVE  /\ rows[k].open \in q.start .. Last(rows).open
             /\ rows[k].open \notin Unavailable(q)
  <2>1. rows[k].open <= rows[n].open
    <3> HIDE DEF n
    <3>1. CASE k = n
      BY <1>1, <3>1
    <3>2. CASE k # n
      <4>1. k < n /\ n \in 1 .. n
        BY <1>1, <3>2
      <4> QED BY <1>1, <1>2, <4>1
    <3> QED BY <3>1, <3>2
  <2>2. ASSUME NEW c \in ToSet(q.closures), rows[k].open \in c.gap .. (c.resumed - 1) PROVE FALSE
    <3>1. PICK l \in 2 .. n : c.gap = rows[l - 1].open + 1 /\ c.resumed = rows[l].open
      BY <1>3
    <3>2. l \in 1 .. n /\ l - 1 \in 1 .. n
      BY <1>1
    <3>3. rows[l - 1].open < rows[k].open /\ rows[k].open < rows[l].open
      <4>1. rows[l - 1].open \in Nat /\ rows[l].open \in Nat /\ rows[k].open \in Nat
        BY <1>1, <3>2
      <4>2. rows[k].open \in (rows[l - 1].open + 1) .. (rows[l].open - 1)
        BY <2>2, <3>1
      <4> DEFINE before == rows[l - 1].open
                 after == rows[l].open
                 o == rows[k].open
      <4>3. before \in Nat /\ after \in Nat /\ o \in (before + 1) .. (after - 1)
        BY <4>1, <4>2
      <4> HIDE DEF before, after, o
      <4>4. before < o /\ o < after
        BY <4>3
      <4> QED BY <4>4 DEF before, after, o
    <3>4. k = l \/ k < l - 1 \/ k = l - 1 \/ l < k
      BY <1>1
    <3>5. rows[l - 1].open \in Nat /\ rows[l].open \in Nat /\ rows[k].open \in Nat
      BY <1>1, <3>2
    <3> QED BY <1>2, <3>2, <3>3, <3>4, <3>5
  <2>3. rows[k].open \in q.start .. Last(rows).open
    BY <1>1, <1>2, <2>1
  <2> QED BY <2>2, <2>3 DEF Unavailable
<1>7. ASSUME NEW o \in q.start .. Last(rows).open, o \notin Unavailable(q), o \notin Opens(rows)
      PROVE  FALSE
  <2> DEFINE After == {k \in 1 .. n : rows[k].open > o}
  <2>1. o \in Nat /\ o <= rows[n].open /\ q.start <= o /\ \A k \in 1 .. n : rows[k].open # o
    <3>1. o \in Nat /\ o <= rows[n].open /\ q.start <= o
      BY <1>1
    <3> QED BY <1>5, <1>7, <3>1
  <2>2. n \in After
    <3>1. n \in 1 .. n /\ rows[n].open \in Nat
      BY <1>1
    <3> QED BY <2>1, <3>1
  <2>3. PICK k \in After : \A l \in After : k <= l
    <3>1. After \subseteq Nat
      BY <1>1
    <3> HIDE DEF After
    <3> QED BY <2>2, <3>1, LeastElement
  <2>4. k # 1
    <3>1. PICK s \in 1 .. n : rows[s].open = q.start
      BY <1>5
    <3>2. rows[1].open <= q.start
      <4>1. s = 1 \/ (1 \in 1 .. n /\ 1 < s)
        BY <1>1
      <4> QED BY <1>1, <1>2, <3>1, <4>1
    <3>3. 1 \in 1 .. n /\ rows[1].open \in Nat
      BY <1>1
    <3>4. ~ (rows[1].open > o)
      BY <1>1, <2>1, <3>2, <3>3
    <3> QED BY <2>3, <3>4
  <2>5. k \in 2 .. n /\ k - 1 \in 1 .. n /\ ~ (k <= k - 1) /\ rows[k].open > o /\ k \in 1 .. n
    BY <1>1, <2>3, <2>4
  <2>6. rows[k - 1].open < o
    <3>1. ~ (rows[k - 1].open > o)
      BY <2>3, <2>5
    <3>2. rows[k - 1].open # o /\ rows[k - 1].open \in Nat
      BY <1>1, <2>1, <2>5
    <3> QED BY <2>1, <3>1, <3>2
  <2> HIDE DEF After, n
  <2>7. rows[k].open \in Nat /\ rows[k - 1].open \in Nat
    BY <1>1, <2>5
  <2>8. rows[k].open # rows[k - 1].open + 1
    BY <2>1, <2>5, <2>6, <2>7
  <2>9. PICK c \in ToSet(q.closures) : c.gap = rows[k - 1].open + 1 /\ c.resumed = rows[k].open
    BY <1>4, <2>5, <2>8
  <2>10. o \in c.gap .. (c.resumed - 1)
    BY <2>1, <2>5, <2>6, <2>7, <2>9
  <2> QED BY <1>7, <2>10 DEF Unavailable
<1> HIDE DEF n
<1>8. Opens(rows) \subseteq (q.start .. Last(rows).open) \ Unavailable(q)
  BY <1>5, <1>6
<1> QED BY <1>7, <1>8

(* Accepted rows that begin with the window are canonical candles that do, *)
(* all of them completed.                                                  *)
LEMMA AcceptedBegins ==
  ASSUME NEW q \in RequestType, NEW found \in Seq(RowType), NEW now \in Nat,
         Accepted(q, found, now), NEW m \in DOMAIN found, found[m].open = q.start
  PROVE  LET rows == Canonical(q, found, now) IN
         /\ rows \in Seq(RowType) /\ rows # <<>>
         /\ q.start \in Opens(rows)
         /\ Last(rows).open < now
<1> DEFINE rows == Canonical(q, found, now)
<1>1. /\ rows \in Seq(RowType)
      /\ \A i \in DOMAIN rows : \E k \in DOMAIN found :
           found[k].open \in Wanted(q, now) /\ rows[i] = found[k]
      /\ \A k \in DOMAIN found : found[k].open \in Wanted(q, now) =>
           \E i \in DOMAIN rows : rows[i] = found[k]
  <2>1. Selects(RowsOf(found, Wanted(q, now)), found, Wanted(q, now))
    BY Selection
  <2>2. Selects(rows, found, Wanted(q, now))
    BY <2>1, CanonicalRows
  <2> HIDE DEF rows
  <2> QED BY <2>2 DEF Selects
<1>2. ValidStructure(q, rows) /\ Bridged(q, rows)
  BY AcceptedBridged
<1> HIDE DEF rows
<1>3. rows # <<>> /\ \A k \in DOMAIN rows : q.start <= rows[k].open
  BY <1>2 DEF ValidStructure, InWindow
<1>4. \A i \in DOMAIN rows : rows[i].open \in Wanted(q, now)
  BY <1>1
<1>5. \A o \in Wanted(q, now) : o \in Nat /\ o < now
  BY DEF Wanted, CompletedAt
<1>6. Len(rows) \in DOMAIN rows /\ 1 \in DOMAIN rows /\ Last(rows) = rows[Len(rows)]
  <2>1. Len(rows) \in Nat \ {0} /\ Last(rows) = rows[Len(rows)]
    BY <1>1, <1>3, LastTyped
  <2>2. DOMAIN rows = 1 .. Len(rows)
    BY <1>1
  <2> QED BY <2>1, <2>2
<1>7. Last(rows).open < now
  BY <1>4, <1>5, <1>6
<1>8. q.start \in Nat /\ q.start < now
  <2>1. q.start \in Nat
    BY DEF RequestType
  <2>2. q.start <= rows[1].open /\ rows[1].open \in Nat /\ rows[1].open < now
    BY <1>3, <1>4, <1>5, <1>6
  <2> QED BY <2>1, <2>2
<1>9. q.start \in CompletedAt(now)
  BY <1>8 DEF CompletedAt
<1>10. ASSUME Sealed(q), q.start \in Gaps(q) PROVE FALSE
  <2>1. PICK c \in ToSet(q.closures) : c.gap = q.start
    BY <1>10 DEF Gaps
  <2>2. PICK k \in Jumps(rows) : c = Bridges(rows, k)
    BY <1>2 DEF Bridged
  <2>3. k \in DOMAIN rows /\ k > 1 /\ q.start = rows[k - 1].open + 1
    BY <2>1, <2>2 DEF Jumps, Bridges
  <2>4. k - 1 \in DOMAIN rows
    <3>1. DOMAIN rows = 1 .. Len(rows) /\ Len(rows) \in Nat
      BY <1>1
    <3> QED BY <2>3, <3>1
  <2>5. q.start <= rows[k - 1].open /\ rows[k - 1].open \in Nat
    BY <1>3, <1>4, <1>5, <2>4
  <2> QED BY <1>8, <2>3, <2>5
<1>11. q.start \in Wanted(q, now)
  BY <1>9, <1>10 DEF Wanted
<1>12. q.start \in Opens(rows)
  <2>1. PICK i \in DOMAIN rows : rows[i] = found[m]
    BY <1>1, <1>11
  <2> QED BY <2>1 DEF Opens
<1> QED BY <1>1, <1>3, <1>7, <1>12 DEF rows

\* What is known of a COMPLETED run.
LEMMA CompletedFacts ==
  ASSUME EInv, NEW r \in Runs, Completion(r)
  PROVE  /\ request[r] \in RequestType /\ ValidRequest(request[r])
         /\ retrieval[r].pages = pages[r] /\ retrieval[r].server = server[r]
         /\ server[r] \in ServerTimes /\ server[r] \in Nat
         /\ pages[r] \in Seq(PageType)
         /\ Retrieved(request[r], pages[r], server[r])
         /\ Cursored(r)
         /\ Accepted(request[r], Rows(pages[r]), server[r])
         /\ Loadable(r)
<1>1. /\ described[r] = Len(pages[r]) /\ server[r] \in ServerTimes
      /\ Retrieved(request[r], pages[r], server[r])
      /\ Cursored(r) /\ Accepted(request[r], Rows(pages[r]), server[r])
  BY DEF EInv, Evidence, Fetched, Judged
<1>2. pages[r] \in Seq(PageType) /\ request[r] \in Requests
  BY DEF EInv, IInv, TypeOK
<1>3. Held(r) = pages[r]
  BY <1>1, <1>2, HeldIsAll DEF Held
<1>4. /\ retrieval[r].pages = pages[r] /\ retrieval[r].server = server[r]
      /\ Sealed(request[r]) => r \in closed
  BY <1>3 DEF EInv, IInv, Written, Rebuildable, Completion
<1>5. Loadable(r)
  <2>1. Len(pages[r]) \in Nat /\ SubSeq(pages[r], 1, Len(pages[r])) = pages[r]
    BY <1>2, HeldIsAll
  <2>2. Len(retrieval[r].pages) <= described[r]
    BY <1>1, <1>4, <2>1
  <2> QED BY <1>4, <2>1, <2>2 DEF Loadable
<1> QED BY <1>1, <1>2, <1>4, <1>5, RequestsAssumption, ProviderAssumption

\* The pages of an accepted retrieval move on from each to the next.
LEMMA PagesMoveOn ==
  ASSUME NEW q, NEW list \in Seq(PageType), NEW now \in Nat,
         Accepted(q, Rows(list), now), Retrieved(q, list, now),
         NEW k \in DOMAIN list, k > 1
  PROVE  list[k].rows[1].open >= Cursor(q, list, k)
<1>1. k \in Nat /\ k - 1 \in DOMAIN list /\ k - 1 < k /\ k - 1 # Len(list) /\ k # 1
  <2>1. DOMAIN list = 1 .. Len(list) /\ Len(list) \in Nat
    OBVIOUS
  <2> QED BY <2>1
<1> DEFINE before == list[k - 1].rows
           after == list[k].rows
<1>2. before \in Seq(RowType) /\ after \in Seq(RowType)
  BY <1>1, RowsInOrder
<1>3. before # <<>> /\ after # <<>> /\ ~ Terminal(list[k - 1], now)
  BY <1>1 DEF Retrieved, Reaches
<1>4. /\ Len(before) \in DOMAIN before /\ Last(before) = before[Len(before)]
      /\ 1 \in DOMAIN after
  <2>1. Len(before) \in Nat \ {0} /\ Last(before) = before[Len(before)] /\ Len(after) \in Nat \ {0}
    BY <1>2, <1>3, LastTyped
  <2>2. DOMAIN before = 1 .. Len(before) /\ DOMAIN after = 1 .. Len(after)
    BY <1>2
  <2> QED BY <2>1, <2>2
<1> DEFINE found == Rows(list)
<1>5. found \in Seq(RowType)
  BY RowsInOrder
<1>6. PICK a, b \in DOMAIN found : a < b /\ found[a] = before[Len(before)] /\ found[b] = after[1]
  BY <1>1, <1>4, RowsInOrder
<1>7. found[a] \in RowType /\ found[b] \in RowType
  BY <1>5
<1>8. found[a].open \in Nat /\ found[b].open \in Nat
  BY <1>7 DEF RowType
<1>9. found[a].open < now
  <2>1. ~ (found[a].open >= now)
    BY <1>3, <1>4, <1>6 DEF Terminal
  <2> QED BY <1>8, <2>1
<1>10. found[a].open < found[b].open
  BY <1>5, <1>6, <1>9, AcceptedOrdered
<1>11. Cursor(q, list, k) = found[a].open + 1
  BY <1>1, <1>4, <1>6 DEF Cursor
<1> HIDE DEF found
<1> QED BY <1>6, <1>8, <1>10, <1>11

LEMMA CompletedChained ==
  ASSUME EInv, NEW r \in Runs, Completion(r), ~ StartsLate(r), ~ ClockWentBack(r)
  PROVE  Chained(request[r], retrieval[r].pages, retrieval[r].server)
<1> DEFINE q == request[r]
           list == pages[r]
           now == server[r]
           n == Len(list)
<1>1. /\ retrieval[r].pages = list /\ retrieval[r].server = now
      /\ now \in Nat /\ list \in Seq(PageType)
      /\ Retrieved(q, list, now) /\ Cursored(r)
      /\ Accepted(q, Rows(list), now)
  BY CompletedFacts
<1>2. /\ n \in Nat \ {0} /\ DOMAIN list = 1 .. n /\ Last(list) = list[n] /\ list # <<>>
  <2>1. list # <<>>
    BY <1>1 DEF Retrieved
  <2> QED BY <1>1, <2>1, LastTyped
<1>3. ASSUME NEW k \in DOMAIN list
      PROVE  /\ k > 1 => list[k].at >= list[k - 1].at
             /\ StartsAtCursor(q, list, k)
             /\ list[k].cursor = Cursor(q, list, k)
             /\ Last(list[k].rows).open >= Cursor(q, list, k)
             /\ Terminal(list[k], now) => k = n
  <2>1. /\ Reaches(list[k]) /\ (Terminal(list[k], now) => k = n)
        /\ list[k].cursor = Cursor(q, list, k)
    BY <1>1 DEF Retrieved, Cursored
  <2>2. k > 1 => list[k].at >= list[k - 1].at
    <3>1. k > 1 => k - 1 \in DOMAIN list
      BY <1>2
    <3>2. k > 1 => list[k].at \in Nat /\ list[k - 1].at \in Nat
      <4>1. list[k] \in PageType /\ (k > 1 => list[k - 1] \in PageType)
        BY <1>1, <3>1
      <4> QED BY <4>1, ProviderAssumption DEF PageType
    <3>3. k > 1 => ~ (list[k].at < list[k - 1].at)
      BY <1>1 DEF ClockWentBack
    <3> HIDE DEF list
    <3> QED BY <3>2, <3>3
  <2>3. StartsAtCursor(q, list, k)
    <3>1. list[k].rows # <<>>
      BY <2>1 DEF Reaches
    <3>2. k = 1 => list[1].rows[1].open = q.start
      BY <1>1 DEF StartsLate
    <3>3. k # 1 => list[k].rows[1].open >= Cursor(q, list, k)
      <4>1. k # 1 => k > 1
        BY <1>2
      <4> QED BY <1>1, <4>1, PagesMoveOn
    <3> QED BY <3>1, <3>2, <3>3 DEF StartsAtCursor
  <2> QED BY <2>1, <2>2, <2>3 DEF Reaches
<1>4. Terminal(Last(list), now) \/ Cursor(q, list, n + 1) >= q.end
  <2>1. n + 1 # 1 /\ (n + 1) - 1 = n
    BY <1>2
  <2>2. Cursor(q, list, n + 1) = Last(Last(list).rows).open + 1
    BY <1>2, <2>1 DEF Cursor
  <2> QED BY <1>1, <2>2 DEF Retrieved
<1> HIDE DEF q, list, now
<1> QED BY <1>1, <1>2, <1>3, <1>4 DEF Chained, q

(* A COMPLETED run can be replayed, to the candles that it validated,      *)
(* unless its evidence starts late or its clock went back                  *)
(* (replay.py against service.py:198-333).                                 *)
THEOREM ReplaysAgree == Spec => []ReplayAgrees
<1>1. ASSUME EInv, NEW r \in Runs, Completion(r)
      PROVE  /\ Replayable(r) <=> ~ StartsLate(r) /\ ~ ClockWentBack(r)
             /\ Rebuilt(r) = candles[r]
  <2> DEFINE list == retrieval[r].pages
  <2>1. /\ Loadable(r) /\ list \in Seq(PageType) /\ list # <<>>
        /\ Accepted(request[r], Rows(list), retrieval[r].server)
    <3>1. /\ Loadable(r) /\ pages[r] \in Seq(PageType) /\ list = pages[r]
          /\ retrieval[r].server = server[r]
          /\ Retrieved(request[r], pages[r], server[r])
          /\ Accepted(request[r], Rows(pages[r]), server[r])
      BY <1>1, CompletedFacts
    <3> QED BY <3>1 DEF Retrieved
  <2>2. ASSUME ~ StartsLate(r), ~ ClockWentBack(r) PROVE Replayable(r)
    BY <1>1, <2>1, <2>2, CompletedChained DEF Replayable
  <2>3. ASSUME Replayable(r) PROVE ~ StartsLate(r) /\ ~ ClockWentBack(r)
    <3>1. Chained(request[r], list, retrieval[r].server)
      BY <2>3 DEF Replayable
    <3>2. 1 \in DOMAIN list
      <4>1. Len(list) \in Nat \ {0}
        BY <2>1, LastTyped
      <4>2. DOMAIN list = 1 .. Len(list)
        BY <2>1
      <4> QED BY <4>1, <4>2
    <3>3. ~ StartsLate(r)
      BY <3>1, <3>2 DEF Chained, StartsAtCursor, StartsLate
    <3>4. ASSUME NEW k \in DOMAIN list, k > 1, list[k].at < list[k - 1].at PROVE FALSE
      <4>1. list[k].at >= list[k - 1].at
        BY <3>1, <3>4 DEF Chained
      <4>2. k - 1 \in DOMAIN list
        <5>1. DOMAIN list = 1 .. Len(list) /\ Len(list) \in Nat
          BY <2>1
        <5> QED BY <3>4, <5>1
      <4>3. list[k] \in PageType /\ list[k - 1] \in PageType
        BY <2>1, <4>2
      <4>4. list[k].at \in Nat /\ list[k - 1].at \in Nat
        BY <4>3, ProviderAssumption DEF PageType
      <4> HIDE DEF list
      <4> QED BY <3>4, <4>1, <4>4
    <3> QED BY <3>3, <3>4 DEF ClockWentBack
  <2>4. Rebuilt(r) = candles[r]
    BY <1>1 DEF EInv, IInv, Rebuildable
  <2> QED BY <2>2, <2>3, <2>4
<1>2. EInv => ReplayAgrees
  BY <1>1 DEF ReplayAgrees
<1> QED BY <1>2, EvidenceHolds, PTL

(* A verified dataset covers its window up to its last candle but for what *)
(* its closures declare (verification/service.py, segments.py).            *)
THEOREM VerifiedCoverTheirWindow == Spec => []VerifiedCovers
<1>1. ASSUME EInv, NEW id, NEW r \in Runs, Verified(id, r)
      PROVE  /\ Opens(id.candles) =
                  (request[r].start .. Last(id.candles).open) \ Unavailable(request[r])
             /\ Increasing(id.candles)
             /\ Last(id.candles).open < retrieval[r].server
             /\ Last(id.candles).open < request[r].end
  <2> DEFINE q == request[r]
             list == retrieval[r].pages
             now == retrieval[r].server
             found == Rows(list)
             rows == Canonical(q, found, now)
  <2>1. Completion(r) /\ Chained(q, list, now) /\ Accepted(q, found, now) /\ id.candles = rows
    BY <1>1 DEF Verified, Replayable, Loadable, Identity, Id, Rebuilt
  <2>2. q \in RequestType /\ now \in Nat /\ list \in Seq(PageType) /\ list # <<>>
    <3>1. /\ q \in RequestType /\ pages[r] \in Seq(PageType) /\ list = pages[r]
          /\ server[r] \in Nat /\ now = server[r]
          /\ Retrieved(q, pages[r], server[r])
      BY <1>1, <2>1, CompletedFacts
    <3> QED BY <3>1 DEF Retrieved
  <2>3. 1 \in DOMAIN list
    <3>1. Len(list) \in Nat \ {0}
      BY <2>2, LastTyped
    <3>2. DOMAIN list = 1 .. Len(list)
      BY <2>2
    <3> QED BY <3>1, <3>2
  <2>4. list[1].rows \in Seq(RowType) /\ list[1].rows # <<>> /\ list[1].rows[1].open = q.start
    BY <2>1, <2>2, <2>3, RowsInOrder DEF Chained, StartsAtCursor
  <2>5. 1 \in DOMAIN list[1].rows
    <3>1. Len(list[1].rows) \in Nat \ {0}
      BY <2>4, LastTyped
    <3>2. DOMAIN list[1].rows = 1 .. Len(list[1].rows)
      BY <2>4
    <3> QED BY <3>1, <3>2
  <2>6. found \in Seq(RowType)
    BY <2>2, RowsInOrder
  <2>7. PICK m \in DOMAIN found : found[m].open = q.start
    <3>1. PICK m \in DOMAIN found : found[m] = list[1].rows[1]
      BY <2>2, <2>3, <2>5, RowsInOrder
    <3> QED BY <2>4, <3>1
  <2> HIDE DEF found, q, now
  <2>8. /\ rows \in Seq(RowType) /\ rows # <<>> /\ q.start \in Opens(rows)
        /\ Last(rows).open < now
    BY <2>1, <2>2, <2>6, <2>7, AcceptedBegins
  <2>9. ValidStructure(q, rows) /\ Bridged(q, rows)
    BY <2>1, <2>2, AcceptedBridged
  <2> HIDE DEF rows
  <2>10. Opens(rows) = (q.start .. Last(rows).open) \ Unavailable(q)
    BY <2>2, <2>8, <2>9, BridgedCover
  <2>11. Increasing(rows) /\ Last(rows).open < q.end
    <3>1. Len(rows) \in Nat \ {0} /\ Last(rows) = rows[Len(rows)]
      BY <2>8, LastTyped
    <3>2. Len(rows) \in DOMAIN rows
      <4>1. DOMAIN rows = 1 .. Len(rows)
        BY <2>8
      <4> QED BY <3>1, <4>1
    <3> QED BY <2>9, <3>1, <3>2 DEF ValidStructure, InWindow
  <2> QED BY <2>1, <2>8, <2>10, <2>11 DEF q, now
<1>2. EInv => VerifiedCovers
  BY <1>1 DEF VerifiedCovers
<1> QED BY <1>2, EvidenceHolds, PTL

-----------------------------------------------------------------------------
(***************************************************************************)
(* Files of sealed datasets: the identity binds the window, so that no two *)
(* runs disagree about a file.                                             *)
(***************************************************************************)
Owned ==
  \A f \in datasets : \E r \in Runs :
    /\ Completion(r) /\ f.id = Identity(r)
    /\ f = File(f.id, request[r], f.name)

\* A COMPLETED manifest stays, and so does what it identifies.
LEMMA CompletedStays ==
  ASSUME IInv, [Next]_vars, NEW r \in Runs, Completion(r)
  PROVE  Completion(r)' /\ Identity(r)' = Identity(r) /\ request'[r] = request[r]
<1>1. request' = request /\ retrieval'[r] = retrieval[r]
  <2>1. ASSUME NEW s \in Runs, Complete(s) PROVE request' = request /\ retrieval'[r] = retrieval[r]
    <3>1. retrieval[s] = None
      BY <2>1, ManifestIsLater DEF Complete, Retrieving
    <3>2. s # r
      BY <3>1 DEF Completion
    <3> QED BY <2>1, <3>2 DEF Complete, IInv, TypeOK
  <2>2. ASSUME NEW s \in Runs, WriteFailed(s) PROVE request' = request /\ retrieval'[r] = retrieval[r]
    <3>1. s = r => retrieval'[r] = retrieval[r]
      BY <2>2 DEF WriteFailed, Completion, IInv, TypeOK
    <3> QED BY <2>2, <3>1 DEF WriteFailed, IInv, TypeOK
  <2>3. ASSUME NEW s \in Runs, ServerTime(s) \/ FetchPage(s) \/ DescribePage(s) \/ Validate(s)
        PROVE  request' = request /\ retrieval'[r] = retrieval[r]
    BY <2>3 DEF ServerTime, FetchPage, DescribePage, Validate
  <2>4. ASSUME NEW p \in Processes, Publish(p) \/ Stamp(p) \/ WriteProvenance(p) \/ Interrupt(p) \/ Replay(p)
        PROVE  request' = request /\ retrieval'[r] = retrieval[r]
    BY <2>4 DEF Publish, Stamp, WriteProvenance, Interrupt, Replay, raw
  <2>5. ASSUME NEW s \in Runs, ProviderFails(s) PROVE request' = request /\ retrieval'[r] = retrieval[r]
    BY <2>5 DEF ProviderFails
  <2>6. CASE UNCHANGED vars
    BY <2>6 DEF vars
  <2> QED BY <2>1, <2>2, <2>3, <2>4, <2>5, <2>6, ProcessesApart DEF Next, Step
<1> QED BY <1>1 DEF Completion, Identity, Rebuilt

LEMMA OwnedStep == IInv /\ Owned /\ [Next]_vars => Owned'
<1> SUFFICES ASSUME IInv, Owned, [Next]_vars, NEW f \in datasets'
             PROVE  \E r \in Runs : /\ Completion(r)' /\ f.id = Identity(r)'
                                    /\ f = File(f.id, request'[r], f.name)
  BY DEF Owned
<1>1. CASE f \in datasets
  <2>1. PICK r \in Runs : Completion(r) /\ f.id = Identity(r) /\ f = File(f.id, request[r], f.name)
    BY <1>1 DEF Owned
  <2> QED BY <2>1, CompletedStays
<1>2. CASE f \notin datasets
  <2>1. PICK p \in Processes : Publish(p)
    BY <1>2, ProcessesApart
    DEF Next, Step, vars, canonical, ServerTime, FetchPage, DescribePage, Validate, Complete, WriteFailed,
        Stamp, WriteProvenance, Interrupt, Replay, ProviderFails
  <2>2. f = FileOf(p, pc[p]) /\ pc[p] \in Publishing
    BY <1>2, <2>1 DEF Publish, Publishing
  <2>3. /\ source[p] \in Runs /\ Completion(source[p]) /\ candles[p] = Rebuilt(source[p])
        /\ retrieval[source[p]].pages = Held(source[p])
    BY <2>2 DEF IInv, Sourced, Written, Completion
  <2>4. f = File(IdOf(p), request[source[p]], pc[p]) /\ IdOf(p) = Identity(source[p])
    BY <2>2, <2>3 DEF FileOf, IdOf, Identity
  <2>5. f.id = IdOf(p) /\ f.name = pc[p]
    BY <2>4 DEF File
  <2> QED BY <2>3, <2>4, <2>5, CompletedStays
<1> QED BY <1>1, <1>2

\* An identity that binds a window is of no other one.
LEMMA BindingApart ==
  ASSUME NEW q \in Requests, NEW r \in Requests, Sealed(r), NEW s, NEW t,
         NEW list \in Seq(PageType), NEW other, Id(q, s, other) = Id(r, t, list)
  PROVE  q = r
<1> DEFINE binding == [request |-> r, exclusions |-> Exclusions(r, list)]
<1>1. binding \in BindingType
  <2>1. \A k \in DOMAIN list : k \in Nat /\ list[k].rows \in Answers
    <3>1. \A k \in DOMAIN list : k \in Nat /\ list[k] \in PageType
      OBVIOUS
    <3> QED BY <3>1 DEF PageType
  <2>2. Exclusions(r, list) \in SUBSET [page : Nat, rows : Answers]
    BY <2>1 DEF Exclusions
  <2> QED BY <2>2 DEF BindingType
<1>2. binding # None
  BY <1>1, ProcessAssumption
<1>3. Id(r, t, list).sealed = binding
  BY DEF Id
<1>4. Id(q, s, other).sealed = IF Sealed(q) THEN [request |-> q, exclusions |-> Exclusions(q, other)] ELSE None
  BY DEF Id
<1>5. Sealed(q) /\ [request |-> q, exclusions |-> Exclusions(q, other)] = binding
  BY <1>2, <1>3, <1>4
<1> QED BY <1>5

(* No process is refused a file of a dataset with closures, by no other    *)
(* run and no replay: identity (dataset_id_v4) and files are bound to the  *)
(* same window, unlike those of the older schemas (ManifestsAgree).        *)
SealedAgree ==
  \A p \in Processes : Publish(p) /\ Sealed(request[source[p]]) => pc'[p] # "conflict"

THEOREM SealedNeverConflict == Spec => [][SealedAgree]_vars
<1>1. Init => Owned
  BY DEF Init, Owned
<1>2. ASSUME IInv, Owned, NEW p \in Processes, Publish(p), Sealed(request[source[p]])
      PROVE  pc'[p] # "conflict"
  <2>1. /\ pc[p] \in {"candles.jsonl", "dataset-manifest.json"} \cup Supporting
        /\ pc[p] \in Publishing
    BY <1>2 DEF Publish, Publishing
  <2>2. /\ source[p] \in Runs /\ Completion(source[p]) /\ candles[p] = Rebuilt(source[p])
        /\ retrieval[source[p]].pages = Held(source[p])
    BY <1>2, <2>1 DEF IInv, Sourced, Written, Completion
  <2>3. Held(source[p]) \in Seq(PageType) /\ request \in [Runs -> Requests]
    BY <1>2, <2>2, HeldTyped DEF IInv, TypeOK, Counted, Held
  <2>4. ASSUME NEW f \in datasets, f.id = IdOf(p), f.name = pc[p] PROVE f = FileOf(p, pc[p])
    <3>1. PICK r \in Runs : f.id = Identity(r) /\ f = File(f.id, request[r], f.name)
      BY <1>2, <2>4 DEF Owned
    <3>2. Id(request[r], Rebuilt(r), retrieval[r].pages)
            = Id(request[source[p]], candles[p], Held(source[p]))
      BY <2>4, <3>1 DEF IdOf, Identity
    <3>3. request[r] = request[source[p]]
      BY <1>2, <2>2, <2>3, <3>2, BindingApart
    <3> QED BY <2>4, <3>1, <3>3 DEF FileOf
  <2>5. pc' = [pc EXCEPT ![p] = Following(request[source[p]], pc[p])]
    BY <1>2, <2>4 DEF Publish, Goto
  <2>6. Following(request[source[p]], pc[p]) \in Publishing
    BY <2>1, FollowingIsLater
  <2> QED BY <1>2, <2>5, <2>6 DEF IInv, TypeOK, Publishing, Supporting
<1>3. IInv /\ Owned /\ [Next]_vars => SealedAgree \/ UNCHANGED vars
  BY <1>2 DEF SealedAgree
<1>4. IInv /\ Owned /\ [Next]_vars => [SealedAgree]_vars
  BY <1>3
<1> QED BY <1>1, <1>4, OwnedStep, InvariantHolds, PTL DEF Spec
============================================================================
