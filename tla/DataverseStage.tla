--------------------------- MODULE DataverseStage ---------------------------
(***************************************************************************)
(* What runs of `dataverse-e2e` stage before they answer                   *)
(* (src/src/main.rs, src/src/dataverse.rs, src/src/sail).  A run searches  *)
(* a Dataverse, fetches the datasets found one by one and drops those it   *)
(* cannot fetch, writes two JSONL files per dataset under a shared root,   *)
(* and, when it is live, stages the same rows as temporary views of one    *)
(* Spark session, counts them, and puts the semantic graph in Sail and     *)
(* reads one node back.  All invocations use the same root, session and    *)
(* graph store, and none of them cleans up after a failure.                *)
(*                                                                         *)
(* LineageEmit takes up a run where this module leaves it.                 *)
(***************************************************************************)
EXTENDS Integers, Sequences, FiniteSets, SequencesExt

CONSTANTS
  Runs,         \* invocations of dataverse-e2e
  Listings,     \* answers of the search: sequences of datasets
  Versions,     \* Versions[d]: file lists dataset d may be published with
  MaxOverlap,   \* bound: only the first so many runs to start may overlap
  MaxRepublish, \* bound on the versions published in a behaviour
  MaxFaults,    \* bound on failed requests, errors and crashes
  None          \* no such file, no such view

Datasets == DOMAIN Versions
FileIds  == UNION {ToSet(v) : v \in UNION {Versions[d] : d \in Datasets}}
Kinds    == {"metadata", "files"}
Record   == UNION {{[id |-> d, files |-> v] : v \in Versions[d]} :
                     d \in Datasets}

ASSUME StageAssumption ==
  /\ \A l \in Listings : l \in Seq(Datasets) /\ IsInjective(l)
  /\ \A d \in Datasets : Versions[d] # {} /\ Versions[d] \subseteq Seq(FileIds)
  /\ MaxOverlap \in Nat /\ MaxRepublish \in Nat /\ MaxFaults \in Nat
  /\ None \notin Seq(Datasets \union FileIds)

VARIABLES
  published, \* the file list each dataset is published with
  disk,      \* rows of <table>/metadata.jsonl and <table>/files.jsonl
  view,      \* rows of the session's views <table>_metadata and <table>_files
  nodes,     \* dataset and file nodes of the graph in Sail
  edges,     \* has_file edges of the graph in Sail
  step,      \* what a run does next; "answered", "failed" or, if it failed
             \* inside fs::write, "torn" when it is over
  live,      \* the run was started with --live-sail
  listed,    \* datasets the search answered that are not fetched yet
  got,       \* datasets fetched, in order
  at,        \* the dataset of `got` and the kind of rows a run is at
  counts,    \* rows the run has counted, one number per view
  verified,  \* the node read back was there
  started,   \* history: the runs, in the order they were started
  overlap,   \* history: two runs have been under way at the same time
  versions,  \* history: versions published so far
  faults     \* history: failures so far

local   == <<step, live, listed, got, at, counts, verified>>
sail    == <<view, nodes, edges>>
history == <<started, overlap, versions, faults>>
vars    == <<published, disk, sail, local, history>>

First == [dataset |-> 1, kind |-> "metadata"]

Steps == {"new", "fetch", "open", "write", "view", "count", "bootstrap",
          "nodes", "edges", "verify", "answer", "answered", "failed", "torn"}

Rows == Seq(Datasets \union FileIds)

\* The rows of a dataset, as both the JSONL files and the views hold them.
Content(rec, k) == IF k = "metadata" THEN <<rec.id>> ELSE rec.files

Idle(r) == step[r] \in {"new", "answered", "failed", "torn"}

ETypeOK ==
  /\ published \in [Datasets -> Seq(FileIds)]
  /\ \A k \in Kinds, d \in Datasets :
       /\ disk[k][d] = None \/ disk[k][d] \in Rows
       /\ view[k][d] = None \/ view[k][d] \in Rows
  /\ nodes \subseteq Datasets \union FileIds
  /\ edges \subseteq Datasets \X FileIds
  /\ step \in [Runs -> Steps]
  /\ live \in [Runs -> BOOLEAN]
  /\ listed \in [Runs -> Seq(Datasets)]
  /\ got \in [Runs -> Seq(Record)]
  /\ \A r \in Runs : step[r] \in {"open", "write", "view", "count"} =>
       at[r] \in [dataset : 1..Len(got[r]), kind : Kinds]
  /\ counts \in [Runs -> Seq(Nat)]
  /\ verified \in [Runs -> BOOLEAN]
  /\ started \in Seq(Runs) /\ overlap \in BOOLEAN
  /\ versions \in 0..MaxRepublish /\ faults \in 0..MaxFaults

Init ==
  /\ published \in {p \in [Datasets -> UNION {Versions[d] : d \in Datasets}] :
                      \A d \in Datasets : p[d] \in Versions[d]}
  /\ disk = [k \in Kinds |-> [d \in Datasets |-> None]]
  /\ view = [k \in Kinds |-> [d \in Datasets |-> None]]
  /\ nodes = {} /\ edges = {}
  /\ step = [r \in Runs |-> "new"]
  /\ live = [r \in Runs |-> FALSE]
  /\ listed = [r \in Runs |-> <<>>]
  /\ got = [r \in Runs |-> <<>>]
  /\ at = [r \in Runs |-> First]
  /\ counts = [r \in Runs |-> <<>>]
  /\ verified = [r \in Runs |-> FALSE]
  /\ started = <<>> /\ overlap = FALSE
  /\ versions = 0 /\ faults = 0

-----------------------------------------------------------------------------
(* Helpers *)

Running == {r \in Runs : ~Idle(r)}
Fault   == faults < MaxFaults /\ faults' = faults + 1

Rec(r)    == got[r][at[r].dataset]
GoTo(r, s) == step' = [step EXCEPT ![r] = s]

\* Mutant: one dataset too far.
NextRowsPastEnd(r, same, next, last) ==
  \/ /\ at[r].kind = "metadata"
     /\ at' = [at EXCEPT ![r].kind = "files"] /\ GoTo(r, same)
  \/ /\ at[r].kind = "files" /\ at[r].dataset <= Len(got[r])
     /\ at' = [at EXCEPT ![r] = [dataset |-> @.dataset + 1,
                                 kind |-> "metadata"]]
     /\ GoTo(r, next)
  \/ /\ at[r].kind = "files" /\ at[r].dataset > Len(got[r])
     /\ at' = [at EXCEPT ![r] = First] /\ GoTo(r, last)

\* On to the step `same` for the files of the same dataset, to `next` for the
\* next dataset, or, after the last one, to `last`.
NextRows(r, same, next, last) ==
  \/ /\ at[r].kind = "metadata"
     /\ at' = [at EXCEPT ![r].kind = "files"] /\ GoTo(r, same)
  \/ /\ at[r].kind = "files" /\ at[r].dataset < Len(got[r])
     /\ at' = [at EXCEPT ![r] = [dataset |-> @.dataset + 1,
                                 kind |-> "metadata"]]
     /\ GoTo(r, next)
  \/ /\ at[r].kind = "files" /\ at[r].dataset = Len(got[r])
     /\ at' = [at EXCEPT ![r] = First] /\ GoTo(r, last)

\* What is in a file of the rows `old` once `new` is written from its start.
Overwrite(old, new) == new \o SubSeq(old, Len(new) + 1, Len(old))

-----------------------------------------------------------------------------
(* The repository and the search *)

\* Another version of a dataset is published.
Republish(d) ==
  /\ versions < MaxRepublish
  /\ \E v \in Versions[d] \ {published[d]} :
       published' = [published EXCEPT ![d] = v]
  /\ versions' = versions + 1
  /\ UNCHANGED <<disk, sail, local, started, overlap, faults>>

\* The search answers with the datasets of the listing l.
Search(r, l, isLive) ==
  /\ step[r] = "new"
  /\ Running = {} \/ Len(started) < MaxOverlap
  /\ GoTo(r, "fetch")
  /\ live' = [live EXCEPT ![r] = isLive]
  /\ listed' = [listed EXCEPT ![r] = l]
  /\ started' = Append(started, r)
  /\ overlap' = (overlap \/ Running # {})
  /\ UNCHANGED <<published, disk, sail, got, at, counts, verified, versions,
                 faults>>

Fetch(r) ==
  /\ step[r] = "fetch" /\ listed[r] # <<>>
  /\ got' = [got EXCEPT ![r] =
               Append(@, [id |-> Head(listed[r]),
                          files |-> published[Head(listed[r])]])]
  /\ listed' = [listed EXCEPT ![r] = Tail(@)]
  /\ UNCHANGED <<published, disk, sail, step, live, at, counts, verified,
                 history>>

\* A dataset that cannot be fetched is left out.
FetchSkipped(r) ==
  /\ step[r] = "fetch" /\ listed[r] # <<>>
  /\ Fault
  /\ listed' = [listed EXCEPT ![r] = Tail(@)]
  /\ UNCHANGED <<published, disk, sail, step, live, got, at, counts, verified,
                 started, overlap, versions>>

\* main panics when no dataset is left.
Fetched(r) ==
  /\ step[r] = "fetch" /\ listed[r] = <<>>
  /\ GoTo(r, IF got[r] = <<>> THEN "failed" ELSE "open")
  /\ UNCHANGED <<published, disk, sail, live, listed, got, at, counts,
                 verified, history>>

-----------------------------------------------------------------------------
(* stage_dataverse_datasets: fs::write truncates, then writes *)

\* Mutant: the file is opened without being truncated.
OpenFileAsIs(r) ==
  /\ step[r] = "open"
  /\ disk' = [disk EXCEPT ![at[r].kind][Rec(r).id] =
                IF @ = None THEN <<>> ELSE @]
  /\ GoTo(r, "write")
  /\ UNCHANGED <<published, sail, live, listed, got, at, counts, verified,
                 history>>

OpenFile(r) ==
  /\ step[r] = "open"
  /\ disk' = [disk EXCEPT ![at[r].kind][Rec(r).id] = <<>>]
  /\ GoTo(r, "write")
  /\ UNCHANGED <<published, sail, live, listed, got, at, counts, verified,
                 history>>

AfterStaging(r) == IF live[r] THEN "view" ELSE "answer"

WriteFile(r) ==
  /\ step[r] = "write"
  /\ disk' = [disk EXCEPT ![at[r].kind][Rec(r).id] =
                Overwrite(@, Content(Rec(r), at[r].kind))]
  /\ NextRows(r, "open", "open", AfterStaging(r))
  /\ UNCHANGED <<published, sail, live, listed, got, counts, verified, history>>

\* An error or a crash when only the first rows, or none, are written.
WriteFileFails(r) ==
  /\ step[r] = "write"
  /\ Fault
  /\ \E n \in 0..Len(Content(Rec(r), at[r].kind)) :
       disk' = [disk EXCEPT ![at[r].kind][Rec(r).id] =
                 Overwrite(@, SubSeq(Content(Rec(r), at[r].kind), 1, n))]
  /\ GoTo(r, "torn")
  /\ UNCHANGED <<published, sail, live, listed, got, at, counts, verified,
                 started, overlap, versions>>

-----------------------------------------------------------------------------
(* load_semantic_graph_into_sail *)

\* Mutant: a view that is there already is kept.
StageViewIfAbsent(r) ==
  /\ step[r] = "view"
  /\ view' = [view EXCEPT ![at[r].kind][Rec(r).id] =
                IF @ = None THEN Content(Rec(r), at[r].kind) ELSE @]
  /\ IF at[r].kind = "metadata"
       THEN at' = [at EXCEPT ![r].kind = "files"] /\ UNCHANGED step
       ELSE at' = [at EXCEPT ![r].kind = "metadata"] /\ GoTo(r, "count")
  /\ UNCHANGED <<published, disk, nodes, edges, live, listed, got, counts,
                 verified, history>>

\* The two views of a dataset are staged, then both are counted.
StageView(r) ==
  /\ step[r] = "view"
  /\ view' = [view EXCEPT ![at[r].kind][Rec(r).id] =
                Content(Rec(r), at[r].kind)]
  /\ IF at[r].kind = "metadata"
       THEN at' = [at EXCEPT ![r].kind = "files"] /\ UNCHANGED step
       ELSE at' = [at EXCEPT ![r].kind = "metadata"] /\ GoTo(r, "count")
  /\ UNCHANGED <<published, disk, nodes, edges, live, listed, got, counts,
                 verified, history>>

\* Mutant: the metadata view is counted twice.
CountMetadata(r) ==
  /\ step[r] = "count"
  /\ counts' = [counts EXCEPT ![r] = Append(@, Len(view["metadata"][Rec(r).id]))]
  /\ NextRows(r, "count", "view", "bootstrap")
  /\ UNCHANGED <<published, disk, sail, live, listed, got, verified, history>>

CountRows(r) ==
  /\ step[r] = "count"
  /\ counts' = [counts EXCEPT ![r] = Append(@, Len(view[at[r].kind][Rec(r).id]))]
  /\ NextRows(r, "count", "view", "bootstrap")
  /\ UNCHANGED <<published, disk, sail, live, listed, got, verified, history>>

\* Mutant: the graph tables are replaced.
BootstrapFresh(r) ==
  /\ step[r] = "bootstrap"
  /\ nodes' = {} /\ edges' = {}
  /\ GoTo(r, "nodes")
  /\ UNCHANGED <<published, disk, view, live, listed, got, at, counts, verified,
                 history>>

\* The graph tables are created unless they are there.
Bootstrap(r) ==
  /\ step[r] = "bootstrap"
  /\ GoTo(r, "nodes")
  /\ UNCHANGED <<published, disk, sail, live, listed, got, at, counts, verified,
                 history>>

\* dataverse_semantic_graph, the part that comes from the datasets.
GraphNodes(r) == UNION {{rec.id} \union ToSet(rec.files) : rec \in ToSet(got[r])}
GraphEdges(r) == UNION {{rec.id} \X ToSet(rec.files) : rec \in ToSet(got[r])}

PutNodes(r) ==
  /\ step[r] = "nodes"
  /\ nodes' = nodes \union GraphNodes(r)
  /\ GoTo(r, "edges")
  /\ UNCHANGED <<published, disk, view, edges, live, listed, got, at, counts,
                 verified, history>>

PutEdges(r) ==
  /\ step[r] = "edges"
  /\ edges' = edges \union GraphEdges(r)
  /\ GoTo(r, "verify")
  /\ UNCHANGED <<published, disk, view, nodes, live, listed, got, at, counts,
                 verified, history>>

\* put_graph fails when any part of the nodes or of the edges is in.
PutFails(r) ==
  /\ step[r] \in {"nodes", "edges"}
  /\ Fault
  /\ \/ /\ step[r] = "nodes" /\ UNCHANGED edges
        /\ \E part \in SUBSET GraphNodes(r) : nodes' = nodes \union part
     \/ /\ step[r] = "edges" /\ UNCHANGED nodes
        /\ \E part \in SUBSET GraphEdges(r) : edges' = edges \union part
  /\ GoTo(r, "failed")
  /\ UNCHANGED <<published, disk, view, live, listed, got, at, counts, verified,
                 started, overlap, versions>>

\* Only the first dataset is read back, whether it is there or not.
Verify(r) ==
  /\ step[r] = "verify"
  /\ verified' = [verified EXCEPT ![r] = got[r][1].id \in nodes]
  /\ GoTo(r, "answer")
  /\ UNCHANGED <<published, disk, sail, live, listed, got, at, counts, history>>

-----------------------------------------------------------------------------
(* The CODATA anchor, the governed answer and the Ollama call read what the  *)
(* run holds and change nothing here; each may fail.                         *)

Answer(r) ==
  /\ step[r] = "answer"
  /\ GoTo(r, "answered")
  /\ UNCHANGED <<published, disk, sail, live, listed, got, at, counts, verified,
                 history>>

\* An error carried by `?` out of main, or a crash.
RunFails(r) ==
  /\ ~Idle(r) /\ step[r] # "write"
  /\ Fault
  /\ GoTo(r, "failed")
  /\ UNCHANGED <<published, disk, sail, live, listed, got, at, counts, verified,
                 started, overlap, versions>>

RunStep(r) ==
  \/ Fetch(r) \/ FetchSkipped(r) \/ Fetched(r)
  \/ OpenFile(r) \/ WriteFile(r) \/ WriteFileFails(r)
  \/ StageView(r) \/ CountRows(r) \/ Bootstrap(r)
  \/ PutNodes(r) \/ PutEdges(r) \/ PutFails(r) \/ Verify(r)
  \/ Answer(r) \/ RunFails(r)

Next ==
  \/ \E d \in Datasets : Republish(d)
  \/ \E r \in Runs, l \in Listings, b \in BOOLEAN : Search(r, l, b)
  \/ \E r \in Runs : RunStep(r)

Spec == Init /\ [][Next]_vars

-----------------------------------------------------------------------------
(* Properties *)

Answered == {r \in Runs : step[r] = "answered"}

\* Versions of a dataset that some run has fetched, as rows.
Contents(d, k) ==
  {Content(rec, k) : rec \in {x \in UNION {ToSet(got[r]) : r \in Runs} :
                               x.id = d}}

\* A run that reaches step s of the dataset d, or ended there.
Inside(s, d, k) == \E r \in Runs : step[r] \in s /\ Rec(r).id = d /\ at[r].kind = k

\* A staged file holds the rows of one version of its dataset, neither cut
\* short nor mixed with those of another: only a run that is inside fs::write,
\* or that ended there, leaves something else.  Overlapping runs may mix two
\* versions, because both truncate before either writes
\* (LocalSailLakehouse::stage_dataverse_datasets).
LocalRowsWhole ==
  ~overlap => \A k \in Kinds, d \in Datasets :
    \/ disk[k][d] = None
    \/ disk[k][d] \in Contents(d, k)
    \/ Inside({"write", "torn"}, d, k)

\* The i-th count of a run is that of this dataset of `got` and kind of rows.
CountedAt(i)   == (i + 1) \div 2
CountedKind(i) == IF i % 2 = 1 THEN "metadata" ELSE "files"

\* The number of rows a run is to find in each of its views.
Expected(r) == [i \in 1..(2 * Len(got[r])) |->
                 Len(Content(got[r][CountedAt(i)], CountedKind(i)))]

\* What the last run answered stands: as long as no later run starts, the
\* files on disk, the session's views and the counts in its report are those
\* of the datasets it answers about, whatever earlier runs left behind there,
\* failed ones included.
AnswerStands ==
  \A r \in Answered : ~overlap /\ Last(started) = r =>
    /\ \A k \in Kinds : \A rec \in ToSet(got[r]) :
         /\ disk[k][rec.id] = Content(rec, k)
         /\ live[r] => view[k][rec.id] = Content(rec, k)
    /\ counts[r] = IF live[r] THEN Expected(r) ELSE <<>>

\* Even with runs that overlap in one session, a count is that of a version
\* some run fetched of that very dataset and kind of rows.
CountsExplained ==
  \A r \in Answered : \A i \in 1..Len(counts[r]) :
    \E c \in Contents(got[r][CountedAt(i)].id, CountedKind(i)) :
      counts[r][i] = Len(c)

\* The graph keeps what a live run answers about: each dataset it fetched, the
\* dataset's files and the edges between them stay in Sail, whatever runs
\* overlapped it, failed or followed, and the read-back found its node.
GraphCoversAnswers ==
  \A r \in Answered : live[r] =>
    /\ verified[r]
    /\ \A rec \in ToSet(got[r]) :
         /\ {rec.id} \union ToSet(rec.files) \subseteq nodes
         /\ {rec.id} \X ToSet(rec.files) \subseteq edges

=============================================================================
