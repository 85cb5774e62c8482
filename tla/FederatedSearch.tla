--------------------------- MODULE FederatedSearch ---------------------------
(***************************************************************************)
(* Fleet.search and Fleet.iter_search: paginate() reads the pages of every *)
(* selected server, the local filter and the limit decide which records    *)
(* reach the caller, the metrics count what arrives, and one query record  *)
(* tells how many were delivered.                                          *)
(*                                                                         *)
(* search() reads all servers at once and keeps the answers of those that  *)
(* did not fail (FleetExecutor under its default policy); iter_search()    *)
(* reads one server after the other, stops at the first failure, and its   *)
(* caller may stop at any record.  A dutiful server serves slices of a     *)
(* dataset that may change between two pages; a wayward one answers with   *)
(* any page at any time.                                                   *)
(***************************************************************************)
EXTENDS Naturals, Sequences, FiniteSets, SequencesExt

CONSTANTS Queried,    \* the selected servers, as numbers: their order
          Wayward,    \* those that ignore the page they were asked for
          AnyPage,    \* what they answer with
          Records,    \* attribute hits
          Matching,   \* those that SearchQuery.matches_locally keeps
          PageSize,   \* the caller's page_size
          NoLimit,    \* limit_per_server is None
          Limits,     \* the values of limit_per_server considered
          Datasets,   \* the datasets that dutiful servers begin with
          MaxEdits    \* bound: how often a dataset changes

Page == {p \in Seq(Records) : Len(p) <= PageSize}

ASSUME SearchAssumption ==
    /\ Queried \subseteq Nat /\ IsFiniteSet(Queried) /\ Queried # {}
    /\ Wayward \subseteq Queried /\ AnyPage \subseteq Page
    /\ IsFiniteSet(Records) /\ Matching \subseteq Records
    /\ PageSize \in Nat \ {0} /\ MaxEdits \in Nat
    /\ NoLimit \notin Nat /\ Limits \subseteq (Nat \ {0}) \cup {NoLimit}
    /\ \A d \in Datasets : d \in Seq(Records) /\ IsInjective(d)

VARIABLES
    mode,      \* "search" or "stream"
    limit,     \* query.limit_per_server
    dataset,   \* what each dutiful server stores, in the order it serves it
    edits,     \* how often a dataset changed
    status,    \* where the reading of each server is
    page,      \* paginate(): the page to fetch next
    seen,      \* paginate(): seen_fingerprints; a page stands for its own
    buffer,    \* paginate(): items not yielded yet
    short,     \* paginate(): len(items) < page_size
    yielded,   \* paginate(): yielded
    counted,   \* _iter_raw(): seen
    metrics,   \* the pages and records that FleetMetrics counted per server
    delivered, \* the records that reached the caller, per server
    recorded,  \* the record_count of each QueryRecord
    phase,     \* where the call is
    quiet      \* history: the datasets that never changed

pager  == <<status, page, seen, buffer, short, yielded>>
answer == <<delivered, recorded, phase>>
searchVars == <<mode, limit, dataset, edits, pager, counted, metrics, answer, quiet>>

Status == {"fetching", "giving", "ended", "failed"}

SearchTypeOK ==
    /\ mode \in {"search", "stream"} /\ limit \in Limits
    /\ dataset \in [Queried -> Seq(Records)]
    /\ edits \in 0..MaxEdits
    /\ status \in [Queried -> Status]
    /\ page \in [Queried -> Nat \ {0}]
    /\ seen \in [Queried -> SUBSET Page]
    /\ buffer \in [Queried -> Page] /\ short \in [Queried -> BOOLEAN]
    /\ yielded \in [Queried -> Nat] /\ counted \in [Queried -> Nat]
    /\ metrics \in [Queried -> [pages : Nat, records : Nat]]
    /\ delivered \in [Queried -> Seq(Matching)]
    /\ recorded \in Seq(Nat)
    /\ phase \in {"running", "returned", "raised", "abandoned"}
    /\ quiet \subseteq Queried

SearchInit ==
    /\ mode \in {"search", "stream"} /\ limit \in Limits
    /\ dataset \in {d \in [Queried -> Datasets \cup {<<>>}] :
                    \A s \in Queried : d[s] = <<>> <=> s \in Wayward}
    /\ edits = 0
    /\ status = [s \in Queried |-> "fetching"]
    /\ page = [s \in Queried |-> 1]
    /\ seen = [s \in Queried |-> {}]
    /\ buffer = [s \in Queried |-> <<>>] /\ short = [s \in Queried |-> FALSE]
    /\ yielded = [s \in Queried |-> 0] /\ counted = yielded
    /\ metrics = [s \in Queried |-> [pages |-> 0, records |-> 0]]
    /\ delivered = buffer /\ recorded = <<>>
    /\ phase = "running" /\ quiet = Queried

-----------------------------------------------------------------------------
(* collect_query_limit(), and the answer of /attributes/restSearch.        *)

Size == IF limit = NoLimit \/ limit > PageSize THEN PageSize ELSE limit

Slice(records, p) ==
    SubSeq(records, (p - 1) * Size + 1,
           IF p * Size < Len(records) THEN p * Size ELSE Len(records))
Served(s) == IF s \in Wayward THEN AnyPage ELSE {Slice(dataset[s], page[s])}

\* iter_search() opens a server's stream when the one before it has ended.
Active(s) ==
    /\ phase = "running"
    /\ mode = "stream" => \A t \in Queried : t < s => status[t] = "ended"

-----------------------------------------------------------------------------
(* paginate() and _iter_raw()                                              *)

NeverCompares(s, items) == FALSE                                \* mutant
Repeated(s, items) == items \in seen[s]

\* on_page() gets the running total and adds what is new to the counter.
AddsTotal(s, records) == records                                \* mutant
NewRecords(s, records) == records - counted[s]

\* An empty page ends the reading, and so does one that was seen.
StopAt(s, items) ==
    /\ items = <<>> \/ Repeated(s, items)
    /\ status' = [status EXCEPT ![s] = "ended"]
    /\ UNCHANGED <<page, seen, buffer, short, yielded, counted, metrics>>

TakePage(s, items) ==
    /\ items # <<>> /\ ~Repeated(s, items)
    /\ seen' = [seen EXCEPT ![s] = @ \cup {items}]
    /\ buffer' = [buffer EXCEPT ![s] = items]
    /\ short' = [short EXCEPT ![s] = Len(items) < Size]
    /\ counted' = [counted EXCEPT ![s] = yielded[s] + Len(items)]
    /\ metrics' = [metrics EXCEPT
                    ![s] = [pages   |-> @.pages + 1,
                            records |-> @.records + NewRecords(s, yielded[s] + Len(items))]]
    /\ status' = [status EXCEPT ![s] = "giving"]
    /\ UNCHANGED <<page, yielded>>

Fetch(s) ==
    /\ Active(s) /\ status[s] = "fetching"
    /\ \E items \in Served(s) : StopAt(s, items) \/ TakePage(s, items)
    /\ UNCHANGED <<mode, limit, dataset, edits, answer, quiet>>

\* The client cannot be built, or the request fails.
FailFetch(s) ==
    /\ Active(s) /\ status[s] = "fetching"
    /\ status' = [status EXCEPT ![s] = "failed"]
    /\ phase' = IF mode = "stream" THEN "raised" ELSE phase
    /\ UNCHANGED <<mode, limit, dataset, edits, page, seen, buffer, short, yielded,
                   counted, metrics, delivered, recorded, quiet>>

\* The limit counts the records that the caller receives.
CountsDropped(s, kept) == limit # NoLimit /\ yielded[s] + 1 >= limit   \* mutant
LimitReached(s, kept) == limit # NoLimit /\ Len(kept) >= limit

Give(s) ==
    /\ Active(s) /\ status[s] = "giving" /\ buffer[s] # <<>>
    /\ LET raw  == Head(buffer[s])
           kept == IF raw \in Matching THEN Append(delivered[s], raw) ELSE delivered[s]
       IN  /\ delivered' = [delivered EXCEPT ![s] = kept]
           /\ IF LimitReached(s, kept)
              THEN status' = [status EXCEPT ![s] = "ended"] /\ UNCHANGED yielded
              ELSE yielded' = [yielded EXCEPT ![s] = @ + 1] /\ UNCHANGED status
    /\ buffer' = [buffer EXCEPT ![s] = Tail(@)]
    /\ UNCHANGED <<mode, limit, dataset, edits, page, seen, short, counted, metrics,
                   recorded, phase, quiet>>

\* A short page is the last one.
TurnPage(s) ==
    /\ Active(s) /\ status[s] = "giving" /\ buffer[s] = <<>>
    /\ IF short[s] THEN status' = [status EXCEPT ![s] = "ended"] /\ UNCHANGED page
       ELSE /\ status' = [status EXCEPT ![s] = "fetching"]
            /\ page' = [page EXCEPT ![s] = @ + 1]
    /\ UNCHANGED <<mode, limit, dataset, edits, seen, buffer, short, yielded, counted,
                   metrics, answer, quiet>>

-----------------------------------------------------------------------------
(* The end of the call.                                                    *)

Total(S) == Cardinality(UNION {{s} \X DOMAIN delivered[s] : s \in S})

\* Only the servers that did not fail are in the result.
WaitsForFailed(s) == status[s] = "ended"                         \* mutant
Over(s) == status[s] = "ended" \/ (status[s] = "failed" /\ mode = "search")

CountsFailed == Total(Queried)                                  \* mutant
RecordCount == Total({s \in Queried : status[s] = "ended"})

\* The query is recorded last, and the call fails with its record.
EndSearch ==
    /\ phase = "running"
    /\ \A s \in Queried : Over(s)
    /\ \/ /\ recorded' = Append(recorded, RecordCount)
          /\ phase' = "returned"
       \/ phase' = "raised" /\ UNCHANGED recorded
    /\ UNCHANGED <<mode, limit, dataset, edits, pager, counted, metrics, delivered, quiet>>

\* The caller of iter_search() leaves its loop at a record.
Abandon ==
    /\ phase = "running" /\ mode = "stream" /\ \E s \in Queried : delivered[s] # <<>>
    /\ phase' = "abandoned"
    /\ UNCHANGED <<mode, limit, dataset, edits, pager, counted, metrics, delivered,
                   recorded, quiet>>

\* A record is added, as the first one, or deleted.
Change(s) ==
    /\ phase = "running" /\ s \notin Wayward /\ edits < MaxEdits
    /\ \/ \E r \in Records \ Range(dataset[s]) :
            dataset' = [dataset EXCEPT ![s] = <<r>> \o @]
       \/ \E i \in DOMAIN dataset[s] :
            dataset' = [dataset EXCEPT ![s] = RemoveAt(@, i)]
    /\ edits' = edits + 1
    /\ quiet' = quiet \ {s}
    /\ UNCHANGED <<mode, limit, pager, counted, metrics, answer>>

Read(s) == Fetch(s) \/ Give(s) \/ TurnPage(s)
SearchNext ==
    \/ \E s \in Queried : Read(s) \/ FailFetch(s) \/ Change(s)
    \/ EndSearch \/ Abandon

SearchSpec == SearchInit /\ [][SearchNext]_searchVars

\* Requests are answered or fail (Transport's RequestsEnd), the caller of
\* iter_search() asks for its next record, the state backend answers.
FairSearch == SearchSpec /\ WF_searchVars(EndSearch) /\ \A s \in Queried : WF_searchVars(Read(s))

-----------------------------------------------------------------------------
(* Properties                                                              *)

\* Where the records are that the query asks for, and the how many-th one is.
Wanted(s) == {i \in DOMAIN dataset[s] : dataset[s][i] \in Matching}
WantedUpTo(s, n) == {i \in Wanted(s) : i <= n}
Rank(s, i) == Cardinality(WantedUpTo(s, i))

\* All that is wanted from a dataset in order, or the first of it up to the limit.
Answered(s) ==
    LET given == Len(delivered[s])
        all   == Cardinality(Wanted(s))
    IN  /\ given = IF limit = NoLimit \/ all <= limit THEN all ELSE limit
        /\ \A i \in Wanted(s) :
            Rank(s, i) <= given => delivered[s][Rank(s, i)] = dataset[s][i]

KeepsToTheLimit(s) == limit # NoLimit => Len(delivered[s]) <= limit

\* The records delivered from a server pass the filter and keep to the limit;
\* when the server is dutiful and nobody changed its data, its stream ends only
\* with everything that matches, in order and once, or with the first of it up
\* to the limit: the end is neither met early nor missed, whatever the filter
\* dropped (pagination.py:48, fleet.py:344).
AnswersTheQuery ==
    \A s \in Queried :
        /\ KeepsToTheLimit(s)
        /\ status[s] = "ended" /\ s \in quiet \ Wayward => Answered(s)

\* The limit "caps what each server sends, so a run may return fewer records"
\* (docs/search.md:30-32): no page is read when that many have arrived.
LimitCapsWhatIsSent ==
    \A s \in Queried : limit # NoLimit => metrics[s].records < limit + Size

\* The places of the records in these pages.
Places(pages) == UNION {{p} \X DOMAIN p : p \in pages}

\* The metrics tell what arrived, at every moment: one page per page read, as
\* soon as it is read, and every record of it once, also when the caller stops
\* in the middle of it.  A query is recorded once, when and only when the call
\* returns, and its count is the number of records that the caller was given
\* (pagination.py:53, fleet.py:287,316,331).
BooksAreTrue ==
    /\ \A s \in Queried :
        /\ metrics[s].pages = Cardinality(seen[s])
        /\ metrics[s].records = Cardinality(Places(seen[s]))
    /\ (recorded # <<>>) <=> (phase = "returned")
    /\ recorded # <<>> =>
        recorded = <<Total({s \in Queried : status[s] = "ended"})>>

\* Whatever pages a server repeats or alternates, the call ends.
SearchEnds == <>(phase # "running")

-----------------------------------------------------------------------------
(* The inductive invariant behind them, in parts.                          *)

Reading(s) == status[s] \in {"fetching", "giving"}
EndOfPage(s) ==
    IF page[s] * Size < Len(dataset[s]) THEN page[s] * Size ELSE Len(dataset[s])

\* The counters are those of the pages seen; what is not yielded yet is in the buffer.
Counts(s) ==
    /\ IsFiniteSet(seen[s]) /\ metrics[s].pages = Cardinality(seen[s])
    /\ counted[s] = Cardinality(Places(seen[s])) /\ metrics[s].records = counted[s]
    /\ status[s] = "fetching" => buffer[s] = <<>>
    /\ Reading(s) => counted[s] = yielded[s] + Len(buffer[s])

\* A server that is still read has room left below the limit.
HasRoom(s) == limit # NoLimit /\ Reading(s) => Len(delivered[s]) < limit

\* Pages are slices in order: the buffer continues where the records yielded end,
\* and every page seen began with a record before that.
InPlace(s) ==
    /\ IsInjective(dataset[s])
    /\ status[s] = "fetching" =>
        yielded[s] = (page[s] - 1) * Size /\ yielded[s] <= Len(dataset[s])
    /\ status[s] = "giving" =>
        /\ yielded[s] + Len(buffer[s]) = EndOfPage(s)
        /\ short[s] <=> EndOfPage(s) < page[s] * Size
        /\ \A i \in DOMAIN buffer[s] : buffer[s][i] = dataset[s][yielded[s] + i]
    /\ Reading(s) =>
        \A p \in seen[s] : \E i \in 1..(yielded[s] + Len(buffer[s])) : p[1] = dataset[s][i]

\* What was yielded and wanted was delivered, in its place.
Delivers(s) ==
    Reading(s) =>
        /\ Len(delivered[s]) = Cardinality(WantedUpTo(s, yielded[s]))
        /\ \A i \in WantedUpTo(s, yielded[s]) : delivered[s][Rank(s, i)] = dataset[s][i]

\* A query is recorded when the call returns, and then nothing moves any more.
RecordInv ==
    IF phase = "returned" THEN recorded = <<Total({s \in Queried : status[s] = "ended"})>>
    ELSE recorded = <<>>

SearchInv ==
    /\ SearchTypeOK /\ RecordInv /\ AnswersTheQuery
    /\ \A s \in Queried : /\ Counts(s) /\ HasRoom(s)
                          /\ s \in quiet \ Wayward => InPlace(s) /\ Delivers(s)
=============================================================================
