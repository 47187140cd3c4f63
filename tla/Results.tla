-------------------------------- MODULE Results --------------------------------
(***************************************************************************)
(* How a figure gets into the book: a benchmark runs an engine and stamps  *)
(* its result with a hash of source files (bench/harness.py),              *)
(* scripts/render-scorecards.py renders results into fragments, and two    *)
(* gates, verify-numbers.py and render-scorecards.py --check, are to       *)
(* notice when one of them is older than the code.  The files may be       *)
(* edited, and edited back, at any time, also while a benchmark runs.      *)
(***************************************************************************)
EXTENDS Integers, Sequences, FiniteSets

CONSTANTS
    SourceFiles,
    Core,           \* CORE_SOURCES
    Engines,
    Mro,            \* the files of an engine's class and of those it inherits from
    Inner,          \* inner_engines
    Listed,         \* what a runner lists itself, where it does
    Cites,          \* fragment -> the results its rows are computed from
    MaxEdits        \* bound on the edits

ASSUME ResultsAssumption ==
    /\ IsFiniteSet(Engines)
    /\ Core \subseteq SourceFiles /\ Mro \in [Engines -> SUBSET SourceFiles]
    /\ Inner \in [Engines -> SUBSET Engines]
    /\ \A e \in DOMAIN Listed : e \in Engines /\ Listed[e] \subseteq SourceFiles
    /\ \A fragment \in DOMAIN Cites : Cites[fragment] \subseteq Engines

VARIABLES
    contents,       \* the files as they are checked in, each in one of two versions
    edits,
    bench,          \* the benchmark that is running, and the files as it imported them
    results,        \* bench/results: what each engine's last benchmark wrote
    pages           \* chapters/_generated: the figures in each fragment

resultsVars == <<contents, edits, bench, results, pages>>

--------------------------------------------------------------------------------

NoResult == [figures |-> <<>>, sources |-> {}, stamp |-> <<>>]
Idle == [engine |-> "nobody", loaded |-> <<>>]
Fragments == DOMAIN Cites

ResultsInit == /\ contents = [f \in SourceFiles |-> 0] /\ edits = 0
               /\ bench = Idle
               /\ results = [e \in Engines |-> NoResult]
               /\ pages = [p \in Fragments |-> <<>>]

\* A variant that names the files of the engine's own classes only.
OwnSources(e) == Mro[e]

\* engine_sources: the work list takes in the engines that the engines run.
engine_sources(e) ==
    LET within[n \in Nat] == IF n = 0 THEN {e}
                             ELSE within[n - 1] \cup UNION {Inner[x] : x \in within[n - 1]}
    IN UNION {Mro[x] : x \in within[Cardinality(Engines)]}

\* code_fingerprint: equal exactly when the hashed files are.
code_fingerprint(sources) == [f \in Core \cup sources |-> contents[f]]

Edit(f) == /\ edits < MaxEdits /\ edits' = edits + 1
           /\ contents' = [contents EXCEPT ![f] = 1 - @]
           /\ UNCHANGED <<bench, results, pages>>

\* A runner starts, and imports the modules as they are.
StartBenchmark(e) == /\ bench = Idle
                     /\ bench' = [engine |-> e, loaded |-> contents]
                     /\ UNCHANGED <<contents, edits, results, pages>>

\* code_sources, of to_json or of a runner that writes stamped_payload.
code_sources(e) == IF e \in DOMAIN Listed THEN Listed[e] ELSE engine_sources(e)

\* BenchResult.to_json and stamped_payload hash the files as they are at the
\* end; the figures are those of the code that was imported.
Stamped(e) == [figures |-> bench.loaded, sources |-> code_sources(e),
               stamp |-> code_fingerprint(code_sources(e))]

FinishBenchmark == /\ bench # Idle /\ bench' = Idle
                   /\ results' = [results EXCEPT ![bench.engine] = Stamped(bench.engine)]
                   /\ UNCHANGED <<contents, edits, pages>>

\* "or delete it if nothing produces it any more"
DeleteResult(e) == /\ results[e] # NoResult
                   /\ results' = [results EXCEPT ![e] = NoResult]
                   /\ UNCHANGED <<contents, edits, bench, pages>>

Loadable(p) == \A e \in Cites[p] : results[e] # NoResult
Rendered(p) == [e \in Cites[p] |-> results[e].figures]

\* render-scorecards.py: a fragment without its results is left as it was.
RenderScorecards ==
    /\ pages' = [p \in Fragments |-> IF Loadable(p) THEN Rendered(p) ELSE pages[p]]
    /\ UNCHANGED <<contents, edits, bench, results>>

ResultsNext == \/ \E f \in SourceFiles : Edit(f)
               \/ \E e \in UNION {Cites[p] : p \in Fragments} : StartBenchmark(e) \/ DeleteResult(e)
               \/ FinishBenchmark
               \/ RenderScorecards

--------------------------------------------------------------------------------

\* verify-numbers.py: what is cited exists, and every stamp is that of the code.
check_results ==
    /\ \A p \in Fragments : Loadable(p)
    /\ \A e \in Engines : results[e] # NoResult =>
           results[e].stamp = code_fingerprint(results[e].sources)

\* render-scorecards.py --check
check_fragments == \A p \in Fragments : Loadable(p) /\ pages[p] = Rendered(p)

--------------------------------------------------------------------------------

\* The files that govern what e measures, one by one along a chain of engines
\* of which each runs the next.
Governs(e, f) == \E n \in 1 .. Cardinality(Engines) : \E chain \in [1 .. n -> Engines] :
                     /\ chain[1] = e /\ f \in Mro[chain[n]] \cup Core
                     /\ \A k \in 2 .. n : chain[k] \in Inner[chain[k - 1]]

\* As far as the runner's list goes, for one that has a list.
Vouched(e, f) == IF e \in DOMAIN Listed THEN f \in Listed[e] \cup Core ELSE Governs(e, f)

\* Files that were edited, and not back, while the benchmark ran: the stamp has
\* them as they were at its end.
Raced(e) == {f \in DOMAIN results[e].stamp : results[e].stamp[f] # results[e].figures[f]}

\* When both gates pass, the figures in the book are those of the code that is
\* checked in, as far as the files go that an engine inherits from or that the
\* engines it runs inherit from, or as far as a runner's own list goes; but for
\* files edited under the benchmark.  Files that those only import and call are
\* hashed by neither gate, nor are those that a list leaves out.
FiguresAreCurrent ==
    (check_results /\ check_fragments) =>
        \A p \in Fragments : \A e \in Cites[p] : \A f \in SourceFiles :
            (Vouched(e, f) /\ f \notin Raced(e)) => pages[p][e][f] = contents[f]

\* "Every result was produced by the code that is checked in": a result that the
\* gate passes has the figures of the files it names.  They are hashed when the
\* benchmark ends, and were imported when it began.
ProducedByCheckedIn ==
    check_results =>
        \A e \in Engines : \A f \in DOMAIN results[e].stamp : results[e].figures[f] = contents[f]

\* "every module its class inherits from", and the engines it runs: the stamp of
\* a result has all of these, for a gate can notice no other.  A runner with a
\* list of its own can leave one out.
EveryBaseCounts ==
    \A e \in Engines : results[e] # NoResult =>
        \A f \in SourceFiles : Governs(e, f) => f \in DOMAIN results[e].stamp

================================================================================
