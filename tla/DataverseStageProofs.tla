------------------------ MODULE DataverseStageProofs ------------------------
(***************************************************************************)
(* Proofs about the staging of `dataverse-e2e` for any runs, datasets,     *)
(* versions and listings, and any number of overlaps and faults.           *)
(***************************************************************************)
EXTENDS DataverseStage, SequenceTheorems, TLAPS

-----------------------------------------------------------------------------
(* The inductive invariant *)

Stored == [Kinds -> [Datasets -> Rows \union {None}]]

TypeInv ==
  /\ published \in [Datasets -> Seq(FileIds)]
  /\ \A d \in Datasets : published[d] \in Versions[d]
  /\ disk \in Stored /\ view \in Stored
  /\ nodes \subseteq Datasets \union FileIds
  /\ edges \subseteq Datasets \X FileIds
  /\ step \in [Runs -> Steps]
  /\ live \in [Runs -> BOOLEAN]
  /\ listed \in [Runs -> Seq(Datasets)]
  /\ got \in [Runs -> Seq(Record)]
  /\ at \in [Runs -> [dataset : Nat \ {0}, kind : Kinds]]
  /\ counts \in [Runs -> Seq(Nat)]
  /\ verified \in [Runs -> BOOLEAN]
  /\ started \in Seq(Runs) /\ overlap \in BOOLEAN
  /\ versions \in 0..MaxRepublish /\ faults \in 0..MaxFaults

OverRows  == {"open", "write", "view", "count"}
LiveSteps == {"view", "count", "bootstrap", "nodes", "edges", "verify"}
Staged    == LiveSteps \union {"answer", "answered"}

\* What a run holds fits its place: the datasets it found are there when it is
\* at one, and it has counted what lies behind it.
Placed(r) ==
  /\ step[r] \in {"new", "fetch", "open", "write"} => counts[r] = <<>>
  /\ step[r] \in {"new", "fetch"} => at[r] = First
  /\ step[r] = "new" => got[r] = <<>>
  /\ step[r] \in Staged \union {"open", "write"} => got[r] # <<>>
  /\ step[r] \in OverRows => at[r].dataset <= Len(got[r])
  /\ step[r] \in LiveSteps => live[r]
  /\ step[r] = "view" => Len(counts[r]) = 2 * at[r].dataset - 2
  /\ step[r] = "count" =>
       Len(counts[r]) = 2 * at[r].dataset - (IF at[r].kind = "files" THEN 1 ELSE 2)
  /\ step[r] \in {"bootstrap", "nodes", "edges", "verify"} =>
       Len(counts[r]) = 2 * Len(got[r])
  /\ step[r] \in {"answer", "answered"} =>
       Len(counts[r]) = IF live[r] THEN 2 * Len(got[r]) ELSE 0

\* A run that writes a file has it open, and the views it counts are there.
Opened(r) ==
  /\ step[r] = "write" => disk[at[r].kind][Rec(r).id] # None
  /\ (step[r] = "view" /\ at[r].kind = "files") => view["metadata"][Rec(r).id] # None
  /\ step[r] = "count" => \A k \in Kinds : view[k][Rec(r).id] # None

\* No dataset comes twice, neither in what is fetched nor in what is to come.
Distinct(r) ==
  /\ IsInjective(listed[r])
  /\ \A i, j \in 1..Len(got[r]) : got[r][i].id = got[r][j].id => i = j
  /\ \A i \in 1..Len(got[r]), j \in 1..Len(listed[r]) : got[r][i].id # listed[r][j]

\* Every view holds rows some run fetched, and so does every count.
Explained ==
  /\ \A k \in Kinds, d \in Datasets :
       view[k][d] = None \/ view[k][d] \in Contents(d, k)
  /\ \A r \in Runs : \A i \in 1..Len(counts[r]) :
       /\ CountedAt(i) \in 1..Len(got[r])
       /\ \E c \in Contents(got[r][CountedAt(i)].id, CountedKind(i)) :
            counts[r][i] = Len(c)

\* What a live run has put in the graph stays there.
InGraph(r) ==
  live[r] =>
    /\ step[r] \in {"edges", "verify", "answer", "answered"} =>
         GraphNodes(r) \subseteq nodes
    /\ step[r] \in {"verify", "answer", "answered"} => GraphEdges(r) \subseteq edges
    /\ step[r] \in {"answer", "answered"} => verified[r]

\* Until two runs overlap, the one under way is the one started last.
Latest(r) == Last(started) = r

OneAtATime == ~overlap => \A r \in Running : Latest(r)

\* Until two runs overlap, nothing is in a file between its truncation and its
\* write.
Truncated ==
  ~overlap => \A r \in Runs : step[r] = "write" => disk[at[r].kind][Rec(r).id] = <<>>

\* The rows of the i-th dataset that a run has written, staged and counted.
Before(r, i, k) ==
  \/ i < at[r].dataset
  \/ i = at[r].dataset /\ k = "metadata" /\ at[r].kind = "files"

Written(r, i, k) ==
  step[r] \in Staged \/ (step[r] \in {"open", "write"} /\ Before(r, i, k))

Viewed(r, i, k) ==
  \/ step[r] \in {"bootstrap", "nodes", "edges", "verify", "answer", "answered"}
  \/ step[r] = "view" /\ Before(r, i, k)
  \/ step[r] = "count" /\ i <= at[r].dataset

Stands(r) ==
  /\ \A i \in 1..Len(got[r]), k \in Kinds :
       /\ Written(r, i, k) => disk[k][got[r][i].id] = Content(got[r][i], k)
       /\ (live[r] /\ Viewed(r, i, k)) =>
            view[k][got[r][i].id] = Content(got[r][i], k)
  /\ \A i \in 1..Len(counts[r]) :
       counts[r][i] = Len(Content(got[r][CountedAt(i)], CountedKind(i)))

LatestStands == ~overlap => \A r \in Runs : Latest(r) => Stands(r)

IInv ==
  /\ TypeInv
  /\ \A r \in Runs : Placed(r) /\ Opened(r) /\ Distinct(r) /\ InGraph(r)
  /\ Explained /\ OneAtATime /\ Truncated /\ LocalRowsWhole /\ LatestStands
-----------------------------------------------------------------------------
(* Operators *)

LEMMA RecordFacts ==
  ASSUME NEW rec \in Record
  PROVE  /\ rec.id \in Datasets /\ rec.files \in Versions[rec.id]
         /\ rec.files \in Seq(FileIds)
         /\ rec = [id |-> rec.id, files |-> rec.files]
BY StageAssumption DEF Record

LEMMA NewRecord ==
  ASSUME NEW d \in Datasets, NEW v \in Versions[d]
  PROVE  [id |-> d, files |-> v] \in Record
BY DEF Record

LEMMA ContentIsRows ==
  ASSUME NEW rec \in Record, NEW k \in Kinds
  PROVE  Content(rec, k) \in Rows
<1>1. /\ rec.id \in Datasets /\ rec.files \in Seq(FileIds)
  BY RecordFacts
<1>2. rec.files \in Seq(Datasets \union FileIds)
  BY <1>1
<1>3. <<rec.id>> \in Seq(Datasets \union FileIds)
  BY <1>1
<1> QED BY <1>2, <1>3 DEF Content, Rows

LEMMA NoneIsNoRows == None \notin Rows
BY StageAssumption DEF Rows

LEMMA StoredUpdate ==
  ASSUME NEW f \in Stored, NEW k \in Kinds, NEW d \in Datasets, NEW v \in Rows,
         NEW g, g = [f EXCEPT ![k][d] = v]
  PROVE  /\ g \in Stored /\ g[k][d] = v
         /\ \A m \in Kinds, e \in Datasets :
              (m # k \/ e # d) => g[m][e] = f[m][e]
BY DEF Stored

LEMMA OverwriteFacts ==
  ASSUME NEW old \in Rows, NEW new \in Rows
  PROVE  /\ Overwrite(old, new) \in Rows
         /\ old = <<>> => Overwrite(old, new) = new
<1>1. SubSeq(old, Len(new) + 1, Len(old)) \in Rows
  BY SubSeqProperties DEF Rows
<1>2. Overwrite(old, new) \in Rows
  BY <1>1, ConcatProperties DEF Overwrite, Rows
<1>3. ASSUME old = <<>> PROVE Overwrite(old, new) = new
  <2>1. SubSeq(old, Len(new) + 1, Len(old)) = <<>>
    BY <1>3, SubSeqEmpty DEF Rows
  <2> QED BY <2>1, ConcatEmptySeq DEF Overwrite, Rows
<1> QED BY <1>2, <1>3

LEMMA PrefixIsRows ==
  ASSUME NEW s \in Rows, NEW n \in 0..Len(s)
  PROVE  SubSeq(s, 1, n) \in Rows
BY SubSeqProperties DEF Rows

\* The counts of the i-th dataset are the (2i - 1)-st and the 2i-th.
LEMMA CountedFacts ==
  ASSUME NEW i \in Nat \ {0}
  PROVE  /\ CountedAt(2 * i - 1) = i /\ CountedKind(2 * i - 1) = "metadata"
         /\ CountedAt(2 * i) = i /\ CountedKind(2 * i) = "files"
         /\ CountedAt(i) \in Nat \ {0} /\ 2 * CountedAt(i) <= i + 1
         /\ CountedKind(i) \in Kinds
BY DEF CountedAt, CountedKind, Kinds

LEMMA AppendFacts ==
  ASSUME NEW S, NEW s \in Seq(S), NEW e \in S
  PROVE  /\ Append(s, e) \in Seq(S) /\ Len(Append(s, e)) = Len(s) + 1
         /\ \A i \in 1..Len(s) : Append(s, e)[i] = s[i]
         /\ Append(s, e)[Len(s) + 1] = e /\ Append(s, e) # <<>>
         /\ Last(Append(s, e)) = e
BY AppendProperties DEF Last

-----------------------------------------------------------------------------
(* What a step does *)

\* A step that changes no more than what is published, or nothing.
Quiet == UNCHANGED <<disk, sail, local, started, overlap>>

\* A step of r leaves what the other runs hold alone.
OnlyRun(r) ==
  \A q \in Runs \ {r} :
    /\ step'[q] = step[q] /\ live'[q] = live[q] /\ listed'[q] = listed[q]
    /\ got'[q] = got[q] /\ at'[q] = at[q] /\ counts'[q] = counts[q]
    /\ verified'[q] = verified[q]

\* r moves on to the next rows.
Advanced(r, same, next, last) ==
  \/ /\ at[r].kind = "metadata" /\ step'[r] = same
     /\ at'[r] = [dataset |-> at[r].dataset, kind |-> "files"]
  \/ /\ at[r].kind = "files" /\ at[r].dataset < Len(got[r]) /\ step'[r] = next
     /\ at'[r] = [dataset |-> at[r].dataset + 1, kind |-> "metadata"]
  \/ /\ at[r].kind = "files" /\ at[r].dataset = Len(got[r]) /\ step'[r] = last
     /\ at'[r] = First

Place == [dataset : Nat \ {0}, kind : Kinds]

LEMMA PlaceFacts ==
  /\ First \in Place /\ First.dataset = 1 /\ First.kind = "metadata"
  /\ \A p \in Place : /\ p.dataset \in Nat \ {0}
                      /\ p.kind = "metadata" \/ p.kind = "files"
                      /\ p = [dataset |-> p.dataset, kind |-> p.kind]
BY DEF Place, First, Kinds

LEMMA NextRowsResult ==
  ASSUME TypeInv, NEW r \in Runs, NEW same \in Steps, NEW next \in Steps,
         NEW last \in Steps, NextRows(r, same, next, last)
  PROVE  /\ Advanced(r, same, next, last)
         /\ step' \in [Runs -> Steps] /\ at' \in [Runs -> Place]
         /\ \A q \in Runs \ {r} : step'[q] = step[q] /\ at'[q] = at[q]
<1>1. /\ step \in [Runs -> Steps] /\ at \in [Runs -> Place]
      /\ at[r] = [dataset |-> at[r].dataset, kind |-> at[r].kind]
      /\ at[r].dataset \in Nat \ {0} /\ at[r].kind \in {"metadata", "files"}
  BY PlaceFacts DEF TypeInv, Place, Kinds
<1>2. CASE /\ at[r].kind = "metadata"
           /\ at' = [at EXCEPT ![r].kind = "files"] /\ GoTo(r, same)
  <2>1. [at[r] EXCEPT !.kind = "files"] = [dataset |-> at[r].dataset, kind |-> "files"]
    BY <1>1
  <2>2. at'[r] = [dataset |-> at[r].dataset, kind |-> "files"]
    BY <1>1, <1>2, <2>1
  <2>3. [dataset |-> at[r].dataset, kind |-> "files"] \in Place
    BY <1>1 DEF Place, Kinds
  <2>4. at' = [at EXCEPT ![r] = [dataset |-> at[r].dataset, kind |-> "files"]]
    BY <1>1, <1>2, <2>1
  <2> QED BY <1>1, <1>2, <2>2, <2>3, <2>4 DEF GoTo, Advanced
<1>3. CASE /\ at[r].kind = "files" /\ at[r].dataset < Len(got[r])
           /\ at' = [at EXCEPT ![r] = [dataset |-> at[r].dataset + 1,
                                       kind |-> "metadata"]]
           /\ GoTo(r, next)
  <2>1. [dataset |-> at[r].dataset + 1, kind |-> "metadata"] \in Place
    BY <1>1 DEF Place, Kinds
  <2> QED BY <1>1, <1>3, <2>1 DEF GoTo, Advanced
<1>4. CASE /\ at[r].kind = "files" /\ at[r].dataset = Len(got[r])
           /\ at' = [at EXCEPT ![r] = First] /\ GoTo(r, last)
  BY <1>1, <1>4, PlaceFacts DEF GoTo, Advanced
<1> QED BY <1>2, <1>3, <1>4 DEF NextRows
-----------------------------------------------------------------------------
(* Type correctness *)

\* The record a run is at, for the steps that are at one.
LEMMA AtRecord ==
  ASSUME TypeInv, NEW r \in Runs, Placed(r), step[r] \in OverRows
  PROVE  /\ at[r].dataset \in 1..Len(got[r]) /\ at[r].kind \in Kinds
         /\ at[r] \in Place
         /\ Rec(r) = got[r][at[r].dataset] /\ Rec(r) \in Record
         /\ Rec(r).id \in Datasets
         /\ Content(Rec(r), at[r].kind) \in Rows
<1>1. at[r] \in Place /\ at[r].dataset \in Nat \ {0} /\ at[r].kind \in Kinds
  BY DEF TypeInv, Place
<1>2. got[r] \in Seq(Record) /\ at[r].dataset <= Len(got[r])
  BY DEF TypeInv, Placed
<1>3. at[r].dataset \in 1..Len(got[r])
  BY <1>1, <1>2
<1>4. Rec(r) \in Record
  BY <1>2, <1>3 DEF Rec
<1> QED BY <1>1, <1>3, <1>4, RecordFacts, ContentIsRows DEF Rec

LEMMA TypeInit == ASSUME Init PROVE TypeInv
<1>1. /\ published \in [Datasets -> UNION {Versions[d] : d \in Datasets}]
      /\ \A d \in Datasets : published[d] \in Versions[d]
  BY DEF Init
<1>2. published \in [Datasets -> Seq(FileIds)]
  BY <1>1, StageAssumption
<1>3. disk \in Stored /\ view \in Stored
  BY DEF Init, Stored
<1>4. at \in [Runs -> [dataset : Nat \ {0}, kind : Kinds]]
  BY PlaceFacts DEF Init, Place
<1>5. /\ step \in [Runs -> Steps] /\ live \in [Runs -> BOOLEAN]
      /\ listed \in [Runs -> Seq(Datasets)] /\ got \in [Runs -> Seq(Record)]
      /\ counts \in [Runs -> Seq(Nat)] /\ verified \in [Runs -> BOOLEAN]
  BY DEF Init, Steps
<1>6. /\ nodes \subseteq Datasets \union FileIds
      /\ edges \subseteq Datasets \X FileIds
      /\ started \in Seq(Runs)
  BY DEF Init
<1>7. overlap \in BOOLEAN
  BY DEF Init
<1>8. versions \in 0..MaxRepublish /\ faults \in 0..MaxFaults
  BY StageAssumption DEF Init
<1> QED BY <1>1, <1>2, <1>3, <1>4, <1>5, <1>6, <1>7, <1>8 DEF TypeInv

LEMMA GraphParts ==
  ASSUME TypeInv, NEW r \in Runs
  PROVE  /\ GraphNodes(r) \subseteq Datasets \union FileIds
         /\ GraphEdges(r) \subseteq Datasets \X FileIds
<1>1. \A rec \in ToSet(got[r]) : rec \in Record
  BY DEF TypeInv, ToSet
<1>2. \A rec \in ToSet(got[r]) :
        /\ rec.id \in Datasets /\ ToSet(rec.files) \subseteq FileIds
  BY <1>1, RecordFacts DEF ToSet
<1> QED BY <1>2 DEF GraphNodes, GraphEdges

LEMMA FaultType ==
  ASSUME TypeInv, Fault
  PROVE  faults' \in 0..MaxFaults
BY StageAssumption DEF TypeInv, Fault

LEMMA TypeStep ==
  ASSUME TypeInv, \A r \in Runs : Placed(r) /\ Opened(r), [Next]_vars
  PROVE  TypeInv'
<1> USE DEF Place
<1>0. /\ \A s \in {"new", "fetch", "failed", "torn", "open", "write", "view", "count",
                   "bootstrap", "nodes", "edges", "verify", "answer", "answered"} :
           s \in Steps
  BY DEF Steps
<1>1. ASSUME NEW d \in Datasets, Republish(d) PROVE TypeInv'
  <2>1. PICK v \in Versions[d] : published' = [published EXCEPT ![d] = v]
    BY <1>1 DEF Republish
  <2>2. v \in Seq(FileIds)
    BY StageAssumption
  <2> QED BY <1>1, <2>1, <2>2, StageAssumption
          DEF Republish, TypeInv, sail, local
<1>2. ASSUME NEW r \in Runs, NEW l \in Listings, NEW b \in BOOLEAN, Search(r, l, b)
      PROVE  TypeInv'
  <2>1. l \in Seq(Datasets)
    BY StageAssumption
  <2>2. started' \in Seq(Runs) /\ overlap' \in BOOLEAN
    <3>1. started' \in Seq(Runs)
      BY <1>2 DEF Search, TypeInv
    <3>2. overlap' \in BOOLEAN
      BY <1>2, Zenon DEF Search, TypeInv
    <3> QED BY <3>1, <3>2
  <2>3. /\ step' \in [Runs -> Steps] /\ live' \in [Runs -> BOOLEAN]
        /\ listed' \in [Runs -> Seq(Datasets)]
    BY <1>0, <1>2, <2>1 DEF Search, TypeInv, GoTo
  <2> QED BY <1>2, <2>2, <2>3 DEF Search, TypeInv, sail
<1>3. ASSUME NEW r \in Runs, Fetch(r) PROVE TypeInv'
  <2>1. Head(listed[r]) \in Datasets /\ Tail(listed[r]) \in Seq(Datasets)
    BY <1>3 DEF Fetch, TypeInv
  <2>2. [id |-> Head(listed[r]), files |-> published[Head(listed[r])]] \in Record
    BY <2>1, NewRecord DEF TypeInv
  <2> HIDE DEF Record
  <2>3. got' \in [Runs -> Seq(Record)] /\ listed' \in [Runs -> Seq(Datasets)]
    BY <1>3, <2>1, <2>2 DEF Fetch, TypeInv
  <2> QED BY <1>3, <2>3 DEF Fetch, TypeInv, sail, history
<1>4. ASSUME NEW r \in Runs, FetchSkipped(r) PROVE TypeInv'
  <2>1. Tail(listed[r]) \in Seq(Datasets)
    BY <1>4 DEF FetchSkipped, TypeInv
  <2>2. listed' \in [Runs -> Seq(Datasets)]
    BY <1>4, <2>1 DEF FetchSkipped, TypeInv
  <2>3. faults' \in 0..MaxFaults
    BY <1>4, FaultType DEF FetchSkipped
  <2> QED BY <1>4, <2>2, <2>3 DEF FetchSkipped, TypeInv, sail
<1>5. ASSUME NEW r \in Runs, Fetched(r) PROVE TypeInv'
  BY <1>0, <1>5 DEF Fetched, GoTo, TypeInv, sail, history
<1>6. ASSUME NEW r \in Runs, OpenFile(r) PROVE TypeInv'
  <2>1. at[r].kind \in Kinds /\ Rec(r).id \in Datasets
    BY <1>6, AtRecord DEF OpenFile, OverRows
  <2>2. <<>> \in Rows
    BY DEF Rows
  <2>3. disk' \in Stored
    BY <1>6, <2>1, <2>2, StoredUpdate DEF OpenFile, TypeInv
  <2> QED BY <1>0, <1>6, <2>3 DEF OpenFile, GoTo, TypeInv, sail, history
<1>7. ASSUME NEW r \in Runs, WriteFile(r) \/ WriteFileFails(r) PROVE TypeInv'
  <2> DEFINE old == disk[at[r].kind][Rec(r).id]
             new == Content(Rec(r), at[r].kind)
  <2>1. at[r].kind \in Kinds /\ Rec(r).id \in Datasets /\ new \in Rows
    BY <1>7, AtRecord DEF WriteFile, WriteFileFails, OverRows
  <2>2. old \in Rows
    BY <1>7, <2>1 DEF WriteFile, WriteFileFails, Opened, TypeInv, Stored
  <2>3. \A n \in 0..Len(new) : SubSeq(new, 1, n) \in Rows
    BY <2>1, PrefixIsRows
  <2>4. disk' \in Stored
    <3>1. \A w \in Rows : [disk EXCEPT ![at[r].kind][Rec(r).id] = Overwrite(old, w)] \in Stored
      <4>1. \A w \in Rows : Overwrite(old, w) \in Rows
        BY <2>2, OverwriteFacts
      <4> QED BY <2>1, <4>1, StoredUpdate DEF TypeInv
    <3>2. CASE WriteFile(r)
      <4>1. disk' = [disk EXCEPT ![at[r].kind][Rec(r).id] = Overwrite(old, new)]
        BY <3>2 DEF WriteFile
      <4> QED BY <2>1, <3>1, <4>1
    <3>3. CASE WriteFileFails(r)
      <4>1. PICK n \in 0..Len(new) :
              disk' = [disk EXCEPT ![at[r].kind][Rec(r).id] =
                         Overwrite(old, SubSeq(new, 1, n))]
        BY <3>3 DEF WriteFileFails
      <4> QED BY <2>3, <3>1, <4>1
    <3> QED BY <1>7, <3>2, <3>3
  <2>5. CASE WriteFile(r)
    <3>1. AfterStaging(r) \in Steps
      BY <1>0 DEF AfterStaging
    <3>2. step' \in [Runs -> Steps] /\ at' \in [Runs -> Place]
      BY <1>0, <2>5, <3>1, NextRowsResult DEF WriteFile
    <3> QED BY <2>4, <2>5, <3>2 DEF WriteFile, TypeInv, sail, history
  <2>6. CASE WriteFileFails(r)
    <3>1. step' \in [Runs -> Steps]
      BY <1>0, <2>6 DEF WriteFileFails, GoTo, TypeInv
    <3>2. faults' \in 0..MaxFaults
      BY <2>6, FaultType DEF WriteFileFails
    <3> QED BY <2>4, <2>6, <3>1, <3>2 DEF WriteFileFails, TypeInv, sail
  <2> QED BY <1>7, <2>5, <2>6
<1>8. ASSUME NEW r \in Runs, StageView(r) PROVE TypeInv'
  <2>1. /\ at[r].kind \in Kinds /\ Rec(r).id \in Datasets
        /\ Content(Rec(r), at[r].kind) \in Rows
    BY <1>8, AtRecord DEF StageView, OverRows
  <2>2. view' \in Stored
    BY <1>8, <2>1 DEF StageView, TypeInv, Stored
  <2>3. step' \in [Runs -> Steps] /\ at' \in [Runs -> Place]
    <3>1. at[r] \in Place /\ at[r].dataset \in Nat \ {0}
      BY DEF TypeInv
    <3>2. \A k \in Kinds : [at[r] EXCEPT !.kind = k] \in Place
      BY <3>1
    <3>3. "metadata" \in Kinds /\ "files" \in Kinds
      BY DEF Kinds
    <3>4. PICK k \in Kinds : at' = [at EXCEPT ![r] = [at[r] EXCEPT !.kind = k]]
      BY <1>8, <3>3, Zenon DEF StageView
    <3>5. at' \in [Runs -> Place]
      BY <3>2, <3>4 DEF TypeInv
    <3> QED BY <1>0, <1>8, <3>5 DEF StageView, GoTo, TypeInv
  <2> QED BY <1>8, <2>2, <2>3 DEF StageView, TypeInv, history
<1>9. ASSUME NEW r \in Runs, CountRows(r) PROVE TypeInv'
  <2>1. at[r].kind \in Kinds /\ Rec(r).id \in Datasets
    BY <1>9, AtRecord DEF CountRows, OverRows
  <2>2. view[at[r].kind][Rec(r).id] \in Rows
    BY <1>9, <2>1 DEF CountRows, Opened, TypeInv, Stored
  <2>3. Len(view[at[r].kind][Rec(r).id]) \in Nat
    BY <2>2 DEF Rows
  <2>4. counts' \in [Runs -> Seq(Nat)]
    BY <1>9, <2>3 DEF CountRows, TypeInv
  <2>5. step' \in [Runs -> Steps] /\ at' \in [Runs -> Place]
    BY <1>0, <1>9, NextRowsResult DEF CountRows
  <2> QED BY <1>9, <2>4, <2>5 DEF CountRows, TypeInv, sail, history
<1>10. ASSUME NEW r \in Runs, Bootstrap(r) \/ Answer(r) \/ RunFails(r) PROVE TypeInv'
  <2>1. step' \in [Runs -> Steps] /\ faults' \in 0..MaxFaults
    <3>1. CASE Bootstrap(r) \/ Answer(r)
      <4>1. step' \in [Runs -> Steps]
        BY <1>0, <3>1 DEF Bootstrap, Answer, GoTo, TypeInv
      <4>2. faults' \in 0..MaxFaults
        BY <3>1 DEF Bootstrap, Answer, TypeInv, history
      <4> QED BY <4>1, <4>2
    <3>2. CASE RunFails(r)
      BY <1>0, <3>2, StageAssumption DEF RunFails, Fault, GoTo, TypeInv
    <3> QED BY <1>10, <3>1, <3>2
  <2> QED BY <1>10, <2>1 DEF Bootstrap, Answer, RunFails, TypeInv, sail, history
<1>11. ASSUME NEW r \in Runs, PutNodes(r) \/ PutEdges(r) PROVE TypeInv'
  <2>1. /\ nodes' \subseteq Datasets \union FileIds
        /\ edges' \subseteq Datasets \X FileIds
    BY <1>11, GraphParts DEF PutNodes, PutEdges, TypeInv
  <2>2. step' \in [Runs -> Steps]
    BY <1>0, <1>11 DEF PutNodes, PutEdges, GoTo, TypeInv
  <2> QED BY <1>11, <2>1, <2>2 DEF PutNodes, PutEdges, TypeInv, history
<1>12. ASSUME NEW r \in Runs, PutFails(r) PROVE TypeInv'
  <2>1. /\ nodes' \subseteq Datasets \union FileIds
        /\ edges' \subseteq Datasets \X FileIds
    BY <1>12, GraphParts DEF PutFails, TypeInv
  <2>2. step' \in [Runs -> Steps] /\ faults' \in 0..MaxFaults
    BY <1>0, <1>12, StageAssumption DEF PutFails, Fault, GoTo, TypeInv
  <2> QED BY <1>12, <2>1, <2>2 DEF PutFails, TypeInv
<1>13. ASSUME NEW r \in Runs, Verify(r) PROVE TypeInv'
  <2>1. verified' \in [Runs -> BOOLEAN]
    <3>1. (got[r][1].id \in nodes) \in BOOLEAN
      OBVIOUS
    <3> QED BY <1>13, <3>1 DEF Verify, TypeInv
  <2>2. step' \in [Runs -> Steps]
    BY <1>0, <1>13 DEF Verify, GoTo, TypeInv
  <2> QED BY <1>13, <2>1, <2>2 DEF Verify, TypeInv, sail, history
<1>14. CASE UNCHANGED vars
  BY <1>14 DEF TypeInv, vars, sail, local, history
<1> QED BY <1>1, <1>2, <1>3, <1>4, <1>5, <1>6, <1>7, <1>8, <1>9, <1>10, <1>11,
           <1>12, <1>13, <1>14
        DEF Next, RunStep
-----------------------------------------------------------------------------
(* The place of a run *)

\* A step of a run, its start included.
Moves(r) == RunStep(r) \/ \E l \in Listings, b \in BOOLEAN : Search(r, l, b)

LEMMA NextSplit ==
  ASSUME [Next]_vars
  PROVE  Quiet \/ \E r \in Runs : Moves(r)
BY DEF Next, Moves, Quiet, Republish, vars, sail, local, history

LEMMA StepNames ==
  /\ "open" \in Steps /\ "count" \in Steps /\ "view" \in Steps
  /\ "bootstrap" \in Steps /\ \A r \in Runs : AfterStaging(r) \in Steps
BY DEF Steps, AfterStaging

LEMMA OthersKeep ==
  ASSUME TypeInv, NEW r \in Runs, Moves(r)
  PROVE  OnlyRun(r)
<1>1. ASSUME NEW l \in Listings, NEW b \in BOOLEAN, Search(r, l, b) PROVE OnlyRun(r)
  BY <1>1 DEF Search, GoTo, OnlyRun, TypeInv
<1>2. CASE Fetch(r)
  BY <1>2 DEF Fetch, OnlyRun, TypeInv
<1>3. CASE FetchSkipped(r)
  BY <1>3 DEF FetchSkipped, OnlyRun, TypeInv
<1>4. CASE Fetched(r)
  BY <1>4 DEF Fetched, GoTo, OnlyRun, TypeInv
<1>5. CASE OpenFile(r)
  BY <1>5 DEF OpenFile, GoTo, OnlyRun, TypeInv
<1>6. CASE WriteFile(r)
  BY <1>6, StepNames, NextRowsResult DEF WriteFile, OnlyRun
<1>7. CASE WriteFileFails(r)
  BY <1>7 DEF WriteFileFails, GoTo, OnlyRun, TypeInv
<1>8. CASE StageView(r)
  BY <1>8 DEF StageView, GoTo, OnlyRun, TypeInv
<1>9. CASE CountRows(r)
  <2>1. \A q \in Runs \ {r} : step'[q] = step[q] /\ at'[q] = at[q]
    BY <1>9, StepNames, NextRowsResult DEF CountRows
  <2> QED BY <1>9, <2>1 DEF CountRows, OnlyRun, TypeInv
<1>10. CASE Bootstrap(r) \/ Answer(r) \/ RunFails(r)
  BY <1>10 DEF Bootstrap, Answer, RunFails, GoTo, OnlyRun, TypeInv
<1>11. CASE PutNodes(r) \/ PutEdges(r) \/ PutFails(r)
  BY <1>11 DEF PutNodes, PutEdges, PutFails, GoTo, OnlyRun, TypeInv
<1>12. CASE Verify(r)
  BY <1>12 DEF Verify, GoTo, OnlyRun, TypeInv
<1> QED BY <1>1, <1>2, <1>3, <1>4, <1>5, <1>6, <1>7, <1>8, <1>9, <1>10, <1>11,
           <1>12
        DEF Moves, RunStep

\* The place a run steps to.
LEMMA PlacedMove ==
  ASSUME TypeInv, NEW r \in Runs, Placed(r), Moves(r), TypeInv'
  PROVE  Placed(r)'
<1> USE DEF Placed, Staged, LiveSteps, OverRows
<1>0. /\ at[r] \in Place /\ at[r].dataset \in Nat \ {0}
      /\ at[r].kind \in {"metadata", "files"}
      /\ got[r] \in Seq(Record) /\ counts[r] \in Seq(Nat) /\ live[r] \in BOOLEAN
      /\ First.dataset = 1 /\ First.kind = "metadata"
      /\ Len(got[r]) \in Nat /\ (got[r] # <<>> => Len(got[r]) >= 1)
  <2>1. /\ at[r] \in Place /\ got[r] \in Seq(Record) /\ counts[r] \in Seq(Nat)
        /\ live[r] \in BOOLEAN
    BY DEF TypeInv, Place
  <2>2. Len(got[r]) \in Nat /\ (got[r] # <<>> => Len(got[r]) >= 1)
    BY <2>1
  <2> QED BY <2>1, <2>2, PlaceFacts
<1>1. ASSUME NEW l \in Listings, NEW b \in BOOLEAN, Search(r, l, b) PROVE Placed(r)'
  <2>1. step[r] = "new" /\ step'[r] = "fetch"
    BY <1>1 DEF Search, GoTo, TypeInv
  <2> QED BY <1>1, <2>1 DEF Search
<1>2. CASE Fetch(r)
  <2>1. step[r] = "fetch" /\ step'[r] = "fetch"
    BY <1>2 DEF Fetch
  <2> QED BY <1>2, <2>1 DEF Fetch
<1>3. CASE FetchSkipped(r)
  <2>1. step[r] = "fetch" /\ step'[r] = "fetch"
    BY <1>3 DEF FetchSkipped
  <2> QED BY <1>3, <2>1 DEF FetchSkipped
<1>4. CASE Fetched(r)
  <2>1. /\ step[r] = "fetch"
        /\ step'[r] = IF got[r] = <<>> THEN "failed" ELSE "open"
    BY <1>4 DEF Fetched, GoTo, TypeInv
  <2> QED BY <1>0, <1>4, <2>1 DEF Fetched
<1>5. CASE OpenFile(r)
  <2>1. step[r] = "open" /\ step'[r] = "write"
    BY <1>5 DEF OpenFile, GoTo, TypeInv
  <2> QED BY <1>5, <2>1 DEF OpenFile
<1>6. CASE WriteFile(r)
  <2>1. step[r] = "write" /\ Advanced(r, "open", "open", AfterStaging(r))
    BY <1>6, StepNames, NextRowsResult DEF WriteFile
  <2>2. got'[r] = got[r] /\ counts'[r] = counts[r] /\ live'[r] = live[r]
    BY <1>6 DEF WriteFile
  <2>3. Len(counts[r]) = 0
    BY <2>1
  <2> QED BY <1>0, <2>1, <2>2, <2>3 DEF Advanced, AfterStaging
<1>7. CASE WriteFileFails(r)
  <2>1. step'[r] = "torn"
    BY <1>7 DEF WriteFileFails, GoTo, TypeInv
  <2> QED BY <2>1
<1>8. CASE StageView(r)
  <2>1. got'[r] = got[r] /\ counts'[r] = counts[r] /\ live'[r] = live[r]
    BY <1>8 DEF StageView
  <2>2. /\ step[r] = "view"
        /\ \/ /\ at[r].kind = "metadata" /\ step'[r] = "view"
              /\ at'[r].kind = "files" /\ at'[r].dataset = at[r].dataset
           \/ /\ at[r].kind = "files" /\ step'[r] = "count"
              /\ at'[r].kind = "metadata" /\ at'[r].dataset = at[r].dataset
    BY <1>0, <1>8 DEF StageView, GoTo, TypeInv
  <2> QED BY <1>0, <2>1, <2>2
<1>9. CASE CountRows(r)
  <2>1. step[r] = "count" /\ Advanced(r, "count", "view", "bootstrap")
    BY <1>9, StepNames, NextRowsResult DEF CountRows
  <2>2. got'[r] = got[r] /\ live'[r] = live[r]
    BY <1>9 DEF CountRows
  <2>3. /\ counts'[r] = Append(counts[r], Len(view[at[r].kind][Rec(r).id]))
        /\ counts'[r] \in Seq(Nat)
    BY <1>9 DEF CountRows, TypeInv
  <2>4. Len(counts'[r]) = Len(counts[r]) + 1
    BY <1>0, <2>3
  <2>5. /\ Len(counts[r]) = 2 * at[r].dataset - (IF at[r].kind = "files" THEN 1 ELSE 2)
        /\ at[r].dataset <= Len(got[r]) /\ live[r] /\ got[r] # <<>>
    BY <2>1
  <2>6. CASE at[r].kind = "metadata"
    <3>1. step'[r] = "count" /\ at'[r] = [dataset |-> at[r].dataset, kind |-> "files"]
      BY <2>1, <2>6 DEF Advanced
    <3>2. Len(counts'[r]) = 2 * at[r].dataset - 1
      BY <1>0, <2>4, <2>5, <2>6
    <3> QED BY <2>2, <2>5, <3>1, <3>2
  <2>7. CASE at[r].kind = "files"
    <3>1. Len(counts'[r]) = 2 * at[r].dataset
      BY <1>0, <2>4, <2>5, <2>7
    <3>2. CASE /\ at[r].dataset < Len(got[r]) /\ step'[r] = "view"
               /\ at'[r] = [dataset |-> at[r].dataset + 1, kind |-> "metadata"]
      <4>1. at'[r].dataset = at[r].dataset + 1
        BY <3>2
      <4>2. at'[r].dataset <= Len(got[r]) /\ Len(counts'[r]) = 2 * at'[r].dataset - 2
        BY <1>0, <3>1, <3>2, <4>1
      <4> QED BY <2>2, <2>5, <3>2, <4>2
    <3>3. CASE at[r].dataset = Len(got[r]) /\ step'[r] = "bootstrap"
      BY <2>2, <2>5, <3>1, <3>3
    <3> QED BY <2>1, <2>7, <3>2, <3>3 DEF Advanced
  <2> QED BY <1>0, <2>6, <2>7
<1>10. CASE Bootstrap(r) \/ PutNodes(r) \/ PutEdges(r) \/ Verify(r) \/ Answer(r)
  <2>1. /\ got'[r] = got[r] /\ counts'[r] = counts[r] /\ live'[r] = live[r]
    BY <1>10 DEF Bootstrap, PutNodes, PutEdges, Verify, Answer
  <2>2. \/ step[r] = "bootstrap" /\ step'[r] = "nodes"
        \/ step[r] = "nodes" /\ step'[r] = "edges"
        \/ step[r] = "edges" /\ step'[r] = "verify"
        \/ step[r] = "verify" /\ step'[r] = "answer"
        \/ step[r] = "answer" /\ step'[r] = "answered"
    BY <1>10 DEF Bootstrap, PutNodes, PutEdges, Verify, Answer, GoTo, TypeInv
  <2> QED BY <1>0, <2>1, <2>2
<1>11. CASE PutFails(r) \/ RunFails(r)
  <2>1. step'[r] = "failed"
    BY <1>11 DEF PutFails, RunFails, GoTo, TypeInv
  <2> QED BY <2>1
<1> QED BY <1>1, <1>2, <1>3, <1>4, <1>5, <1>6, <1>7, <1>8, <1>9, <1>10, <1>11
        DEF Moves, RunStep

LEMMA PlacedStep ==
  ASSUME TypeInv, \A r \in Runs : Placed(r), TypeInv', [Next]_vars, NEW q \in Runs
  PROVE  Placed(q)'
<1>1. CASE Quiet
  BY <1>1 DEF Quiet, Placed, local
<1>2. ASSUME NEW r \in Runs, Moves(r) PROVE Placed(q)'
  <2>1. CASE q = r
    BY <1>2, <2>1, PlacedMove
  <2>2. CASE q # r
    <3>1. OnlyRun(r)
      BY <1>2, OthersKeep
    <3>2. /\ UNCHANGED <<step[q], at[q], got[q], counts[q], live[q]>>
      BY <2>2, <3>1 DEF OnlyRun
    <3> QED BY <3>2 DEF Placed
  <2> QED BY <2>1, <2>2
<1> QED BY <1>1, <1>2, NextSplit
-----------------------------------------------------------------------------
(* Files and views *)

FileSet(r, v) == disk' = [disk EXCEPT ![at[r].kind][Rec(r).id] = v]
ViewSet(r, v) == view' = [view EXCEPT ![at[r].kind][Rec(r).id] = v]

Elsewhere(k, d, m, e) == m # k \/ e # d

\* A step truncates a file, writes it, writes a part of it, or leaves all alone.
LEMMA DiskMove ==
  ASSUME TypeInv, NEW r \in Runs, Moves(r)
  PROVE  \/ UNCHANGED disk /\ step[r] # "write" /\ step'[r] # "write"
         \/ OpenFile(r) /\ step'[r] = "write" /\ FileSet(r, <<>>)
         \/ /\ WriteFile(r) /\ step'[r] # "write"
            /\ FileSet(r, Overwrite(disk[at[r].kind][Rec(r).id],
                                    Content(Rec(r), at[r].kind)))
         \/ /\ WriteFileFails(r) /\ step'[r] = "torn"
            /\ \E n \in 0..Len(Content(Rec(r), at[r].kind)) :
                 FileSet(r, Overwrite(disk[at[r].kind][Rec(r).id],
                                      SubSeq(Content(Rec(r), at[r].kind), 1, n)))
<1>1. CASE WriteFile(r)
  <2>1. Advanced(r, "open", "open", AfterStaging(r))
    BY <1>1, StepNames, NextRowsResult DEF WriteFile
  <2>2. step'[r] # "write"
    BY <2>1 DEF Advanced, AfterStaging
  <2> QED BY <1>1, <2>2 DEF WriteFile, FileSet
<1>2. CASE WriteFileFails(r)
  BY <1>2 DEF WriteFileFails, FileSet, GoTo, TypeInv
<1>3. CASE OpenFile(r)
  BY <1>3 DEF OpenFile, FileSet, GoTo, TypeInv
<1>4. CASE CountRows(r)
  <2>1. Advanced(r, "count", "view", "bootstrap")
    BY <1>4, StepNames, NextRowsResult DEF CountRows
  <2> QED BY <1>4, <2>1 DEF CountRows, Advanced
<1>5. ASSUME NEW l \in Listings, NEW b \in BOOLEAN, Search(r, l, b)
      PROVE  UNCHANGED disk /\ step[r] # "write" /\ step'[r] # "write"
  BY <1>5 DEF Search, GoTo, TypeInv
<1>6. CASE Fetch(r) \/ FetchSkipped(r) \/ Fetched(r)
  BY <1>6 DEF Fetch, FetchSkipped, Fetched, GoTo, TypeInv
<1>7. CASE StageView(r)
  BY <1>7 DEF StageView, GoTo, TypeInv
<1>8. CASE Bootstrap(r) \/ Answer(r) \/ RunFails(r) \/ Verify(r)
  BY <1>8 DEF Bootstrap, Answer, RunFails, Verify, GoTo, TypeInv
<1>9. CASE PutNodes(r) \/ PutEdges(r) \/ PutFails(r)
  BY <1>9 DEF PutNodes, PutEdges, PutFails, GoTo, TypeInv
<1> QED BY <1>1, <1>2, <1>3, <1>4, <1>5, <1>6, <1>7, <1>8, <1>9
        DEF Moves, RunStep

\* A step stages one view or leaves them alone.
LEMMA ViewMove ==
  ASSUME NEW r \in Runs, Moves(r)
  PROVE  \/ UNCHANGED view /\ ~StageView(r)
         \/ StageView(r) /\ ViewSet(r, Content(Rec(r), at[r].kind))
<1>1. CASE StageView(r)
  BY <1>1 DEF StageView, ViewSet
<1>2. CASE ~StageView(r)
  BY <1>2 DEF Moves, RunStep, Search, Fetch, FetchSkipped, Fetched, OpenFile,
              WriteFile, WriteFileFails, CountRows, Bootstrap, PutNodes, PutEdges,
              PutFails, Verify, Answer, RunFails, sail
<1> QED BY <1>1, <1>2

\* What is in the file or view that is changed, and in the others.
LEMMA FileSetFacts ==
  ASSUME TypeInv, NEW r \in Runs, Placed(r), step[r] \in OverRows,
         NEW v \in Rows, FileSet(r, v)
  PROVE  /\ disk'[at[r].kind][Rec(r).id] = v
         /\ \A m \in Kinds, e \in Datasets :
              Elsewhere(at[r].kind, Rec(r).id, m, e) => disk'[m][e] = disk[m][e]
<1>1. at[r].kind \in Kinds /\ Rec(r).id \in Datasets
  BY AtRecord
<1>2. disk \in Stored
  BY DEF TypeInv
<1>3. disk' = [disk EXCEPT ![at[r].kind][Rec(r).id] = v]
  BY DEF FileSet
<1> QED BY <1>1, <1>2, <1>3 DEF Stored, Elsewhere

LEMMA ViewSetFacts ==
  ASSUME TypeInv, NEW r \in Runs, Placed(r), step[r] \in OverRows,
         NEW v \in Rows, ViewSet(r, v)
  PROVE  /\ view'[at[r].kind][Rec(r).id] = v
         /\ \A m \in Kinds, e \in Datasets :
              Elsewhere(at[r].kind, Rec(r).id, m, e) => view'[m][e] = view[m][e]
<1>1. at[r].kind \in Kinds /\ Rec(r).id \in Datasets
  BY AtRecord
<1>2. view \in Stored
  BY DEF TypeInv
<1>3. view' = [view EXCEPT ![at[r].kind][Rec(r).id] = v]
  BY DEF ViewSet
<1> QED BY <1>1, <1>2, <1>3 DEF Stored, Elsewhere

\* No file and no view goes away.
LEMMA NothingGoes ==
  ASSUME TypeInv, NEW r \in Runs, Placed(r), Opened(r), Moves(r)
  PROVE  /\ \A k \in Kinds, d \in Datasets :
              /\ disk[k][d] # None => disk'[k][d] # None
              /\ view[k][d] # None => view'[k][d] # None
<1> DEFINE old == disk[at[r].kind][Rec(r).id]
           new == Content(Rec(r), at[r].kind)
<1>1. ASSUME NEW v \in Rows, FileSet(r, v), step[r] \in OverRows
      PROVE  \A k \in Kinds, d \in Datasets : disk[k][d] # None => disk'[k][d] # None
  BY <1>1, FileSetFacts, NoneIsNoRows DEF Elsewhere
<1>2. ASSUME step[r] = "write"
      PROVE  old \in Rows /\ new \in Rows /\ step[r] \in OverRows
  <2>1. step[r] \in OverRows
    BY <1>2 DEF OverRows
  <2>2. new \in Rows /\ at[r].kind \in Kinds /\ Rec(r).id \in Datasets
    BY <2>1, AtRecord
  <2> QED BY <1>2, <2>1, <2>2 DEF Opened, TypeInv, Stored
<1>3. \A k \in Kinds, d \in Datasets : disk[k][d] # None => disk'[k][d] # None
  <2>1. CASE UNCHANGED disk
    BY <2>1
  <2>2. CASE OpenFile(r) /\ FileSet(r, <<>>)
    <3>1. <<>> \in Rows /\ step[r] \in OverRows
      BY <2>2 DEF Rows, OpenFile, OverRows
    <3> QED BY <1>1, <2>2, <3>1
  <2>3. CASE WriteFile(r) /\ FileSet(r, Overwrite(old, new))
    <3>1. Overwrite(old, new) \in Rows /\ step[r] \in OverRows
      BY <1>2, <2>3, OverwriteFacts DEF WriteFile
    <3> QED BY <1>1, <2>3, <3>1
  <2>4. ASSUME WriteFileFails(r), NEW n \in 0..Len(new),
               FileSet(r, Overwrite(old, SubSeq(new, 1, n)))
        PROVE  \A k \in Kinds, d \in Datasets : disk[k][d] # None => disk'[k][d] # None
    <3>1. old \in Rows /\ new \in Rows /\ step[r] \in OverRows
      BY <1>2, <2>4 DEF WriteFileFails
    <3>2. Overwrite(old, SubSeq(new, 1, n)) \in Rows
      BY <2>4, <3>1, PrefixIsRows, OverwriteFacts
    <3> QED BY <1>1, <2>4, <3>1, <3>2
  <2> QED BY <2>1, <2>2, <2>3, <2>4, DiskMove
<1>4. \A k \in Kinds, d \in Datasets : view[k][d] # None => view'[k][d] # None
  <2>1. CASE UNCHANGED view
    BY <2>1
  <2>2. CASE StageView(r) /\ ViewSet(r, new)
    <3>1. step[r] \in OverRows
      BY <2>2 DEF StageView, OverRows
    <3>2. new \in Rows
      BY <3>1, AtRecord
    <3> QED BY <2>2, <3>1, <3>2, ViewSetFacts, NoneIsNoRows DEF Elsewhere
  <2> QED BY <2>1, <2>2, ViewMove
<1> QED BY <1>3, <1>4
LEMMA OpenedMove ==
  ASSUME TypeInv, NEW r \in Runs, Placed(r), Opened(r), Moves(r), TypeInv',
         Placed(r)'
  PROVE  Opened(r)'
<1>0. /\ at[r] \in Place /\ at[r].dataset \in Nat \ {0}
      /\ at[r].kind \in {"metadata", "files"}
      /\ First.dataset = 1 /\ First.kind = "metadata"
  BY PlaceFacts DEF TypeInv, Place, Kinds
<1>1. ASSUME step'[r] = "write"
      PROVE  disk'[at'[r].kind][got'[r][at'[r].dataset].id] # None
  <2>1. OpenFile(r) /\ FileSet(r, <<>>)
    BY <1>1, DiskMove
  <2>2. at' = at /\ got' = got /\ step[r] \in OverRows
    BY <2>1 DEF OpenFile, OverRows
  <2>3. <<>> \in Rows
    BY DEF Rows
  <2> QED BY <2>1, <2>2, <2>3, FileSetFacts, NoneIsNoRows DEF Rec
<1>2. ASSUME StageView(r)
      PROVE  Opened(r)'
  <2>1. /\ step[r] = "view" /\ step[r] \in OverRows /\ got'[r] = got[r]
        /\ \/ /\ at[r].kind = "metadata" /\ step'[r] = "view"
              /\ at'[r].kind = "files" /\ at'[r].dataset = at[r].dataset
           \/ /\ at[r].kind = "files" /\ step'[r] = "count"
              /\ at'[r].kind = "metadata" /\ at'[r].dataset = at[r].dataset
    BY <1>0, <1>2 DEF StageView, GoTo, TypeInv, OverRows
  <2>2. Content(Rec(r), at[r].kind) \in Rows /\ Rec(r).id \in Datasets
    BY <2>1, AtRecord
  <2>3. ViewSet(r, Content(Rec(r), at[r].kind))
    BY <1>2 DEF StageView, ViewSet
  <2>4. view'[at[r].kind][Rec(r).id] # None
    BY <2>1, <2>2, <2>3, ViewSetFacts, NoneIsNoRows
  <2>5. got'[r][at'[r].dataset].id = Rec(r).id
    BY <2>1 DEF Rec
  <2>6. at[r].kind = "files" => view'["metadata"][Rec(r).id] # None
    BY <1>2, <2>1, <2>2, NothingGoes DEF Opened, Kinds
  <2> QED BY <2>1, <2>4, <2>5, <2>6 DEF Opened, Rec, Kinds
<1>3. ASSUME CountRows(r) PROVE Opened(r)'
  <2>1. step[r] = "count" /\ Advanced(r, "count", "view", "bootstrap")
    BY <1>3, StepNames, NextRowsResult DEF CountRows
  <2>2. got' = got /\ view' = view
    BY <1>3 DEF CountRows, sail
  <2>3. CASE step'[r] = "count"
    <3>1. at'[r].dataset = at[r].dataset
      BY <2>1, <2>3 DEF Advanced
    <3> QED BY <2>1, <2>2, <2>3, <3>1 DEF Opened, Rec
  <2>4. CASE step'[r] # "count"
    <3>1. /\ step'[r] = "view" => at'[r].kind = "metadata"
          /\ step'[r] \in {"view", "bootstrap"}
      BY <1>0, <2>1, <2>4 DEF Advanced
    <3> QED BY <3>1 DEF Opened
  <2> QED BY <2>3, <2>4
<1>4. ASSUME ~StageView(r), ~CountRows(r)
      PROVE  step'[r] # "count" /\ (step'[r] = "view" => at'[r].kind = "metadata")
  <2>1. CASE WriteFile(r)
    <3>1. Advanced(r, "open", "open", AfterStaging(r))
      BY <2>1, StepNames, NextRowsResult DEF WriteFile
    <3> QED BY <1>0, <3>1 DEF Advanced, AfterStaging
  <2>2. ASSUME NEW l \in Listings, NEW b \in BOOLEAN, Search(r, l, b)
        PROVE  step'[r] = "fetch"
    BY <2>2 DEF Search, GoTo, TypeInv
  <2>3. ASSUME Fetch(r) \/ FetchSkipped(r)
        PROVE  step'[r] = "fetch"
    BY <2>3 DEF Fetch, FetchSkipped
  <2>4. ASSUME Fetched(r) \/ OpenFile(r) \/ WriteFileFails(r)
        PROVE  step'[r] \in {"failed", "open", "write", "torn"}
    BY <2>4 DEF Fetched, OpenFile, WriteFileFails, GoTo, TypeInv
  <2>5. ASSUME Bootstrap(r) \/ PutNodes(r) \/ PutEdges(r) \/ Verify(r) \/ Answer(r)
        PROVE  step'[r] \in {"nodes", "edges", "verify", "answer", "answered"}
    BY <2>5 DEF Bootstrap, PutNodes, PutEdges, Verify, Answer, GoTo, TypeInv
  <2>6. ASSUME PutFails(r) \/ RunFails(r)
        PROVE  step'[r] = "failed"
    BY <2>6 DEF PutFails, RunFails, GoTo, TypeInv
  <2> QED BY <1>4, <2>1, <2>2, <2>3, <2>4, <2>5, <2>6 DEF Moves, RunStep
<1>5. ASSUME ~StageView(r), ~CountRows(r) PROVE Opened(r)'
  BY <1>1, <1>4, <1>5 DEF Opened, Rec
<1> QED BY <1>2, <1>3, <1>5

\* The step of a run in a place takes none of them from another run.
LEMMA OpenedStep ==
  ASSUME TypeInv, \A r \in Runs : Placed(r) /\ Opened(r), [Next]_vars, TypeInv',
         \A r \in Runs : Placed(r)', NEW q \in Runs
  PROVE  Opened(q)'
<1>1. CASE Quiet
  BY <1>1 DEF Quiet, Opened, Rec, local, sail
<1>2. ASSUME NEW r \in Runs, Moves(r) PROVE Opened(q)'
  <2>1. CASE q = r
    BY <1>2, <2>1, OpenedMove
  <2>2. CASE q # r
    <3>1. step'[q] = step[q] /\ at'[q] = at[q] /\ got'[q] = got[q]
      BY <1>2, <2>2, OthersKeep DEF OnlyRun
    <3>2. got'[q][at'[q].dataset] = Rec(q)
      BY <3>1 DEF Rec
    <3>3. CASE step[q] \in OverRows
      <4>1. Rec(q).id \in Datasets /\ at[q].kind \in Kinds
        BY <3>3, AtRecord
      <4>2. \A k \in Kinds : /\ disk[k][Rec(q).id] # None => disk'[k][Rec(q).id] # None
                             /\ view[k][Rec(q).id] # None => view'[k][Rec(q).id] # None
        BY <1>2, <4>1, NothingGoes
      <4> QED BY <3>1, <3>2, <4>1, <4>2 DEF Opened, Rec, Kinds
    <3>4. CASE step[q] \notin OverRows
      BY <3>1, <3>4 DEF Opened, OverRows
    <3> QED BY <3>3, <3>4
  <2> QED BY <2>1, <2>2
<1> QED BY <1>1, <1>2, NextSplit

-----------------------------------------------------------------------------
(* What is fetched, and what is in the graph *)

\* What a run holds of the search changes only when it starts and fetches.
LEMMA FetchMove ==
  ASSUME TypeInv, NEW r \in Runs, Moves(r)
  PROVE  \/ got'[r] = got[r] /\ listed'[r] = listed[r]
         \/ /\ step[r] = "new" /\ step'[r] = "fetch" /\ got'[r] = got[r]
            /\ listed'[r] \in Listings
         \/ /\ step[r] = "fetch" /\ step'[r] = "fetch" /\ listed[r] # <<>>
            /\ listed'[r] = Tail(listed[r])
            /\ \/ got'[r] = got[r]
               \/ got'[r] = Append(got[r], [id |-> Head(listed[r]),
                                            files |-> published[Head(listed[r])]])
<1>1. ASSUME NEW l \in Listings, NEW b \in BOOLEAN, Search(r, l, b)
      PROVE  /\ step[r] = "new" /\ step'[r] = "fetch" /\ got'[r] = got[r]
             /\ listed'[r] \in Listings
  BY <1>1 DEF Search, GoTo, TypeInv
<1>2. CASE Fetch(r)
  BY <1>2 DEF Fetch, TypeInv
<1>3. CASE FetchSkipped(r)
  BY <1>3 DEF FetchSkipped, TypeInv
<1>4. CASE RunStep(r) /\ ~Fetch(r) /\ ~FetchSkipped(r)
  BY <1>4 DEF RunStep, Fetched, OpenFile, WriteFile, WriteFileFails, StageView,
              CountRows, Bootstrap, PutNodes, PutEdges, PutFails, Verify, Answer,
              RunFails
<1> QED BY <1>1, <1>2, <1>3, <1>4 DEF Moves

LEMMA DistinctMove ==
  ASSUME TypeInv, NEW r \in Runs, Placed(r), Distinct(r), Moves(r), TypeInv'
  PROVE  Distinct(r)'
<1>1. got[r] \in Seq(Record) /\ listed[r] \in Seq(Datasets)
  BY DEF TypeInv
<1>2. CASE got'[r] = got[r] /\ listed'[r] = listed[r]
  BY <1>2 DEF Distinct, IsInjective
<1>3. CASE step[r] = "new" /\ got'[r] = got[r] /\ listed'[r] \in Listings
  <2>1. got'[r] = <<>> /\ IsInjective(listed'[r])
    BY <1>3, StageAssumption DEF Placed
  <2> QED BY <2>1 DEF Distinct, IsInjective
<1>4. CASE /\ listed[r] # <<>> /\ listed'[r] = Tail(listed[r])
           /\ \/ got'[r] = got[r]
              \/ got'[r] = Append(got[r], [id |-> Head(listed[r]),
                                           files |-> published[Head(listed[r])]])
  <2> DEFINE l == listed[r]
             rec == [id |-> Head(l), files |-> published[Head(l)]]
  <2>1. /\ Head(l) \in Datasets /\ Head(l) = l[1] /\ Len(l) \in Nat \ {0}
        /\ Len(Tail(l)) = Len(l) - 1 /\ Tail(l) \in Seq(Datasets)
        /\ \A i \in 1..Len(Tail(l)) : Tail(l)[i] = l[i + 1]
    BY <1>1, <1>4, HeadTailProperties
  <2>2. rec \in Record
    BY <2>1, NewRecord DEF TypeInv
  <2>3. \A i, j \in 1..Len(l) : l[i] = l[j] => i = j
    BY <1>1 DEF Distinct, IsInjective
  <2>4. IsInjective(listed'[r])
    <3>1. DOMAIN Tail(l) = 1..Len(Tail(l))
      BY <2>1
    <3>2. \A i, j \in 1..Len(Tail(l)) : Tail(l)[i] = Tail(l)[j] => i = j
      BY <2>1, <2>3
    <3> QED BY <1>4, <3>1, <3>2 DEF IsInjective
  <2>5. \A i \in 1..Len(got[r]), j \in 1..Len(Tail(l)) :
          got[r][i].id # Tail(l)[j]
    <3>1. \A j \in 1..Len(Tail(l)) : j + 1 \in 1..Len(l) /\ j + 1 # 1
      BY <2>1
    <3> QED BY <2>1, <3>1 DEF Distinct
  <2>6. CASE got'[r] = got[r]
    BY <1>4, <2>4, <2>5, <2>6 DEF Distinct
  <2>7. CASE got'[r] = Append(got[r], rec)
    <3> DEFINE n == Len(got[r])
    <3> HIDE DEF rec
    <3>1. /\ Len(got'[r]) = n + 1 /\ n \in Nat /\ got'[r][n + 1] = rec
          /\ \A i \in 1..n : got'[r][i] = got[r][i]
      BY <1>1, <2>2, <2>7, AppendFacts
    <3>2. rec.id = l[1]
      BY <2>1 DEF rec
    <3>3. \A i \in 1..(n + 1) : i \in 1..n \/ i = n + 1
      BY <3>1
    <3>4. \A i, j \in 1..Len(got'[r]) : got'[r][i].id = got'[r][j].id => i = j
      <4>1. \A i \in 1..n : got'[r][i].id # rec.id
        BY <1>1, <2>1, <3>1, <3>2 DEF Distinct
      <4>2. \A i, j \in 1..n : got'[r][i].id = got'[r][j].id => i = j
        BY <3>1 DEF Distinct
      <4>3. got'[r][n + 1].id = rec.id /\ Len(got'[r]) = n + 1
        BY <3>1
      <4> HIDE DEF n
      <4> QED BY <3>3, <4>1, <4>2, <4>3
    <3>5. \A i \in 1..Len(got'[r]), j \in 1..Len(Tail(l)) : got'[r][i].id # Tail(l)[j]
      <4>1. \A j \in 1..Len(Tail(l)) : l[1] # Tail(l)[j]
        <5>1. \A j \in 1..Len(Tail(l)) : j + 1 \in 1..Len(l) /\ j + 1 # 1
          BY <2>1
        <5>2. 1 \in 1..Len(l)
          BY <2>1
        <5> QED BY <2>1, <2>3, <5>1, <5>2
      <4> QED BY <2>5, <3>1, <3>2, <3>3, <4>1
    <3> QED BY <1>4, <2>4, <3>4, <3>5 DEF Distinct
  <2> QED BY <1>4, <2>6, <2>7
<1> QED BY <1>2, <1>3, <1>4, FetchMove

LEMMA DistinctStep ==
  ASSUME TypeInv, \A r \in Runs : Placed(r) /\ Distinct(r), [Next]_vars, TypeInv',
         NEW q \in Runs
  PROVE  Distinct(q)'
<1>1. CASE Quiet
  BY <1>1 DEF Quiet, Distinct, IsInjective, local
<1>2. ASSUME NEW r \in Runs, Moves(r) PROVE Distinct(q)'
  <2>1. CASE q = r
    BY <1>2, <2>1, DistinctMove
  <2>2. CASE q # r
    <3>1. listed'[q] = listed[q] /\ got'[q] = got[q]
      BY <1>2, <2>2, OthersKeep DEF OnlyRun
    <3> QED BY <3>1 DEF Distinct, IsInjective
  <2> QED BY <2>1, <2>2
<1> QED BY <1>1, <1>2, NextSplit
\* The graph only grows.
LEMMA GraphGrows ==
  ASSUME [Next]_vars
  PROVE  nodes \subseteq nodes' /\ edges \subseteq edges'
<1>1. ASSUME NEW r \in Runs, RunStep(r) PROVE nodes \subseteq nodes' /\ edges \subseteq edges'
  <2>1. CASE PutFails(r)
    BY <2>1 DEF PutFails
  <2>2. CASE PutNodes(r) \/ PutEdges(r)
    BY <2>2 DEF PutNodes, PutEdges
  <2>3. CASE ~PutFails(r) /\ ~PutNodes(r) /\ ~PutEdges(r)
    BY <1>1, <2>3 DEF RunStep, Fetch, FetchSkipped, Fetched, OpenFile, WriteFile,
       WriteFileFails, StageView, CountRows, Bootstrap, Verify, Answer, RunFails, sail
  <2> QED BY <2>1, <2>2, <2>3
<1>2. ASSUME NEW r \in Runs, NEW l \in Listings, NEW b \in BOOLEAN, Search(r, l, b)
      PROVE  nodes \subseteq nodes' /\ edges \subseteq edges'
  BY <1>2 DEF Search, sail
<1>3. ASSUME NEW d \in Datasets, Republish(d)
      PROVE  nodes \subseteq nodes' /\ edges \subseteq edges'
  BY <1>3 DEF Republish, sail
<1>4. CASE UNCHANGED vars
  BY <1>4 DEF vars, sail
<1> QED BY <1>1, <1>2, <1>3, <1>4 DEF Next

\* The last steps of a run.
LEMMA EndMove ==
  ASSUME TypeInv, NEW r \in Runs, Moves(r),
         step'[r] \in {"edges", "verify", "answer", "answered"}
  PROVE  /\ got'[r] = got[r] /\ live'[r] = live[r]
         /\ \/ step'[r] = "edges" /\ PutNodes(r)
            \/ step'[r] = "verify" /\ PutEdges(r)
            \/ step'[r] = "answer" /\ Verify(r)
            \/ step'[r] = "answer" /\ WriteFile(r) /\ ~live[r]
            \/ step'[r] = "answered" /\ Answer(r)
<1>1. CASE WriteFile(r)
  <2>1. Advanced(r, "open", "open", AfterStaging(r)) /\ live[r] \in BOOLEAN
    BY <1>1, StepNames, NextRowsResult DEF WriteFile, TypeInv
  <2> QED BY <1>1, <2>1 DEF WriteFile, Advanced, AfterStaging
<1>2. CASE PutNodes(r) \/ PutEdges(r) \/ Verify(r) \/ Answer(r)
  BY <1>2 DEF PutNodes, PutEdges, Verify, Answer, GoTo, TypeInv
<1>3. CASE CountRows(r)
  <2>1. Advanced(r, "count", "view", "bootstrap")
    BY <1>3, StepNames, NextRowsResult DEF CountRows
  <2> QED BY <2>1 DEF Advanced
<1>4. ASSUME NEW l \in Listings, NEW b \in BOOLEAN, Search(r, l, b) PROVE FALSE
  BY <1>4 DEF Search, GoTo, TypeInv
<1>5. CASE Fetch(r) \/ FetchSkipped(r) \/ Fetched(r)
  BY <1>5 DEF Fetch, FetchSkipped, Fetched, GoTo, TypeInv
<1>6. CASE OpenFile(r) \/ WriteFileFails(r) \/ StageView(r)
  BY <1>6 DEF OpenFile, WriteFileFails, StageView, GoTo, TypeInv
<1>7. CASE Bootstrap(r) \/ PutFails(r) \/ RunFails(r)
  BY <1>7 DEF Bootstrap, PutFails, RunFails, GoTo, TypeInv
<1> QED BY <1>1, <1>2, <1>3, <1>4, <1>5, <1>6, <1>7 DEF Moves, RunStep

LEMMA SameGraph ==
  ASSUME NEW q \in Runs, got'[q] = got[q]
  PROVE  GraphNodes(q)' = GraphNodes(q) /\ GraphEdges(q)' = GraphEdges(q)
BY DEF GraphNodes, GraphEdges, ToSet

LEMMA InGraphMove ==
  ASSUME TypeInv, NEW r \in Runs, Placed(r), InGraph(r), Moves(r), [Next]_vars
  PROVE  InGraph(r)'
<1> SUFFICES ASSUME step'[r] \in {"edges", "verify", "answer", "answered"}
             PROVE  InGraph(r)'
  BY DEF InGraph
<1>1. /\ got'[r] = got[r] /\ live'[r] = live[r]
      /\ GraphNodes(r)' = GraphNodes(r) /\ GraphEdges(r)' = GraphEdges(r)
      /\ nodes \subseteq nodes' /\ edges \subseteq edges'
  BY EndMove, SameGraph, GraphGrows
<1>2. CASE step'[r] = "edges" /\ PutNodes(r)
  <2>1. GraphNodes(r) \subseteq nodes'
    BY <1>2 DEF PutNodes
  <2> QED BY <1>1, <1>2, <2>1 DEF InGraph
<1>3. CASE step'[r] = "verify" /\ PutEdges(r)
  <2>1. step[r] = "edges" /\ GraphEdges(r) \subseteq edges' /\ nodes' = nodes
    BY <1>3 DEF PutEdges
  <2> QED BY <1>1, <1>3, <2>1 DEF InGraph
<1>4. CASE step'[r] = "answer" /\ Verify(r)
  <2>1. step[r] = "verify" /\ verified'[r] = (got[r][1].id \in nodes)
    BY <1>4 DEF Verify, TypeInv
  <2>2. live[r] => /\ GraphNodes(r) \subseteq nodes /\ GraphEdges(r) \subseteq edges
    BY <2>1 DEF InGraph
  <2>3. got[r][1].id \in GraphNodes(r)
    <3>1. got[r] \in Seq(Record) /\ got[r] # <<>>
      BY <2>1 DEF TypeInv, Placed, Staged, LiveSteps
    <3>2. 1 \in DOMAIN got[r]
      BY <3>1
    <3> QED BY <3>2 DEF GraphNodes, ToSet
  <2>4. live[r] => verified'[r]
    BY <2>1, <2>2, <2>3
  <2> QED BY <1>1, <1>4, <2>2, <2>4 DEF InGraph
<1>5. CASE ~live[r]
  BY <1>1, <1>5 DEF InGraph
<1>6. CASE step'[r] = "answered" /\ Answer(r)
  <2>1. step[r] = "answer" /\ verified' = verified
    BY <1>6 DEF Answer
  <2> QED BY <1>1, <1>6, <2>1 DEF InGraph
<1> QED BY <1>2, <1>3, <1>4, <1>5, <1>6, EndMove

LEMMA InGraphStep ==
  ASSUME TypeInv, \A r \in Runs : Placed(r) /\ InGraph(r), [Next]_vars, NEW q \in Runs
  PROVE  InGraph(q)'
<1>0. nodes \subseteq nodes' /\ edges \subseteq edges'
  BY GraphGrows
<1>1. ASSUME /\ step'[q] = step[q] /\ live'[q] = live[q] /\ got'[q] = got[q]
             /\ verified'[q] = verified[q]
      PROVE  InGraph(q)'
  BY <1>0, <1>1, SameGraph DEF InGraph
<1>2. CASE Quiet
  BY <1>1, <1>2 DEF Quiet, local
<1>3. ASSUME NEW r \in Runs, Moves(r) PROVE InGraph(q)'
  <2>1. CASE q = r
    BY <1>3, <2>1, InGraphMove
  <2>2. CASE q # r
    BY <1>1, <1>3, <2>2, OthersKeep DEF OnlyRun
  <2> QED BY <2>1, <2>2
<1> QED BY <1>2, <1>3, NextSplit

-----------------------------------------------------------------------------
(* Where the rows of views and the counts come from *)

LEMMA FetchedStays ==
  ASSUME TypeInv, [Next]_vars, NEW q \in Runs
  PROVE  /\ Len(got[q]) \in Nat /\ Len(got'[q]) >= Len(got[q])
         /\ got'[q] \in Seq(Record)
         /\ \A i \in 1..Len(got[q]) : got'[q][i] = got[q][i]
<1>1. got[q] \in Seq(Record) /\ Len(got[q]) \in Nat
  BY DEF TypeInv
<1>2. CASE got'[q] = got[q]
  BY <1>1, <1>2
<1>3. ASSUME listed[q] # <<>>,
             got'[q] = Append(got[q], [id |-> Head(listed[q]),
                                       files |-> published[Head(listed[q])]])
      PROVE  /\ got'[q] \in Seq(Record) /\ Len(got'[q]) = Len(got[q]) + 1
             /\ \A i \in 1..Len(got[q]) : got'[q][i] = got[q][i]
  <2>1. Head(listed[q]) \in Datasets
    BY <1>3 DEF TypeInv
  <2>2. [id |-> Head(listed[q]), files |-> published[Head(listed[q])]] \in Record
    BY <2>1, NewRecord DEF TypeInv
  <2> QED BY <1>1, <1>3, <2>2, AppendFacts
<1>4. CASE Quiet
  BY <1>2, <1>4 DEF Quiet, local
<1>5. ASSUME NEW r \in Runs, Moves(r)
      PROVE  got'[q] = got[q] \/ (q = r /\ listed[q] # <<>> /\
               got'[q] = Append(got[q], [id |-> Head(listed[q]),
                                         files |-> published[Head(listed[q])]]))
  BY <1>5, OthersKeep, FetchMove DEF OnlyRun
<1> QED BY <1>1, <1>2, <1>3, <1>4, <1>5, NextSplit

LEMMA ContentsHave ==
  ASSUME NEW q \in Runs, NEW i \in DOMAIN got[q], NEW k
  PROVE  Content(got[q][i], k) \in Contents(got[q][i].id, k)
BY DEF Contents, ToSet

LEMMA ContentsGrow ==
  ASSUME TypeInv, [Next]_vars, NEW d, NEW k
  PROVE  Contents(d, k) \subseteq Contents(d, k)'
<1>1. ASSUME NEW q \in Runs PROVE ToSet(got[q]) \subseteq ToSet(got'[q])
  <2>1. \A i \in DOMAIN got[q] : i \in DOMAIN got'[q] /\ got'[q][i] = got[q][i]
    <3>1. DOMAIN got[q] = 1..Len(got[q])
      BY DEF TypeInv
    <3>2. DOMAIN got'[q] = 1..Len(got'[q]) /\ Len(got'[q]) \in Nat
      BY FetchedStays
    <3> QED BY <3>1, <3>2, FetchedStays
  <2> QED BY <2>1 DEF ToSet
<1> QED BY <1>1 DEF Contents

LEMMA ContentsAreRows ==
  ASSUME TypeInv, NEW d, NEW k \in Kinds
  PROVE  Contents(d, k) \subseteq Rows
<1>1. \A q \in Runs : ToSet(got[q]) \subseteq Record
  BY DEF TypeInv, ToSet
<1> QED BY <1>1, ContentIsRows DEF Contents
\* The parts of Explained: a view, and the counts of a run.
ViewExplained(k, d) == view[k][d] = None \/ view[k][d] \in Contents(d, k)

CountExplained(q, i) ==
  /\ CountedAt(i) \in 1..Len(got[q])
  /\ \E c \in Contents(got[q][CountedAt(i)].id, CountedKind(i)) :
       counts[q][i] = Len(c)

LEMMA ExplainedParts ==
  Explained <=> /\ \A k \in Kinds, d \in Datasets : ViewExplained(k, d)
                /\ \A q \in Runs : \A i \in 1..Len(counts[q]) : CountExplained(q, i)
BY DEF Explained, ViewExplained, CountExplained

LEMMA ViewExplainedStep ==
  ASSUME TypeInv, \A r \in Runs : Placed(r), [Next]_vars,
         NEW k \in Kinds, NEW d \in Datasets, ViewExplained(k, d)
  PROVE  ViewExplained(k, d)'
<1>1. Contents(d, k) \subseteq Contents(d, k)'
  BY ContentsGrow
<1>2. ASSUME view'[k][d] = view[k][d] PROVE ViewExplained(k, d)'
  BY <1>1, <1>2 DEF ViewExplained
<1>3. ASSUME NEW r \in Runs, StageView(r), ViewSet(r, Content(Rec(r), at[r].kind))
      PROVE  ViewExplained(k, d)'
  <2>1. step[r] \in OverRows
    BY <1>3 DEF StageView, OverRows
  <2>2. /\ Content(Rec(r), at[r].kind) \in Rows /\ Rec(r) = got[r][at[r].dataset]
        /\ at[r].dataset \in 1..Len(got[r])
    BY <2>1, AtRecord
  <2>3. /\ view'[at[r].kind][Rec(r).id] = Content(Rec(r), at[r].kind)
        /\ Elsewhere(at[r].kind, Rec(r).id, k, d) => view'[k][d] = view[k][d]
    BY <1>3, <2>1, <2>2, ViewSetFacts
  <2>4. CASE k = at[r].kind /\ d = Rec(r).id
    <3>1. at[r].dataset \in DOMAIN got[r]
      BY <2>2 DEF TypeInv
    <3>2. Content(Rec(r), k) \in Contents(d, k)
      BY <2>2, <2>4, <3>1, ContentsHave
    <3> QED BY <1>1, <2>3, <2>4, <3>2 DEF ViewExplained
  <2>5. CASE k # at[r].kind \/ d # Rec(r).id
    BY <1>2, <2>3, <2>5 DEF Elsewhere
  <2> QED BY <2>4, <2>5
<1>4. CASE Quiet
  BY <1>2, <1>4 DEF Quiet, sail
<1> QED BY <1>2, <1>3, <1>4, NextSplit, ViewMove

\* The next count of a run is that of the rows it is at.
LEMMA NextCount ==
  ASSUME TypeInv, NEW r \in Runs, Placed(r), step[r] = "count"
  PROVE  /\ CountedAt(Len(counts[r]) + 1) = at[r].dataset
         /\ CountedKind(Len(counts[r]) + 1) = at[r].kind
<1>1. /\ at[r].dataset \in Nat \ {0} /\ at[r].kind \in {"metadata", "files"}
      /\ Len(counts[r]) \in Nat
  BY DEF TypeInv, Kinds
<1>2. Len(counts[r]) = 2 * at[r].dataset - (IF at[r].kind = "files" THEN 1 ELSE 2)
  BY DEF Placed
<1>3. CASE at[r].kind = "metadata"
  <2>1. Len(counts[r]) + 1 = 2 * at[r].dataset - 1
    BY <1>1, <1>2, <1>3
  <2> QED BY <1>1, <1>3, <2>1, CountedFacts
<1>4. CASE at[r].kind = "files"
  <2>1. Len(counts[r]) + 1 = 2 * at[r].dataset
    BY <1>1, <1>2, <1>4
  <2> QED BY <1>1, <1>4, <2>1, CountedFacts
<1> QED BY <1>1, <1>3, <1>4

\* A run counts the view it is at, and nothing else changes a count.
LEMMA CountMove ==
  ASSUME TypeInv, NEW r \in Runs, Placed(r), Opened(r), Moves(r)
  PROVE  \/ counts'[r] = counts[r]
         \/ /\ CountRows(r) /\ step[r] = "count" /\ got' = got /\ view' = view
            /\ LET rows == view[at[r].kind][Rec(r).id] IN
               /\ rows \in Rows
               /\ Len(counts'[r]) = Len(counts[r]) + 1
               /\ counts'[r][Len(counts[r]) + 1] = Len(rows)
               /\ \A i \in 1..Len(counts[r]) : counts'[r][i] = counts[r][i]
<1>1. CASE CountRows(r)
  <2> DEFINE rows == view[at[r].kind][Rec(r).id]
  <2>1. step[r] = "count" /\ got' = got /\ view' = view /\ step[r] \in OverRows
    BY <1>1 DEF CountRows, sail, OverRows
  <2>2. at[r].kind \in Kinds /\ Rec(r).id \in Datasets
    BY <2>1, AtRecord
  <2>3. rows \in Rows
    BY <2>1, <2>2 DEF Opened, TypeInv, Stored
  <2>4. Len(rows) \in Nat /\ counts[r] \in Seq(Nat)
    BY <2>3 DEF Rows, TypeInv
  <2>5. counts'[r] = Append(counts[r], Len(rows))
    BY <1>1 DEF CountRows, TypeInv
  <2> HIDE DEF rows
  <2>6. /\ Len(counts'[r]) = Len(counts[r]) + 1
        /\ counts'[r][Len(counts[r]) + 1] = Len(rows)
        /\ \A i \in 1..Len(counts[r]) : counts'[r][i] = counts[r][i]
    BY <2>4, <2>5, AppendFacts
  <2> QED BY <1>1, <2>1, <2>3, <2>6 DEF rows
<1>2. CASE ~CountRows(r)
  BY <1>2 DEF Moves, RunStep, Search, Fetch, FetchSkipped, Fetched, OpenFile,
              WriteFile, WriteFileFails, StageView, Bootstrap, PutNodes, PutEdges,
              PutFails, Verify, Answer, RunFails
<1> QED BY <1>1, <1>2

LEMMA CountExplainedStep ==
  ASSUME TypeInv, \A r \in Runs : Placed(r) /\ Opened(r), Explained, [Next]_vars,
         NEW q \in Runs, NEW i \in 1..Len(counts'[q])
  PROVE  CountExplained(q, i)'
<1>1. ASSUME i \in 1..Len(counts[q]), counts'[q][i] = counts[q][i]
      PROVE  CountExplained(q, i)'
  <2>1. /\ CountedAt(i) \in 1..Len(got[q])
        /\ \E c \in Contents(got[q][CountedAt(i)].id, CountedKind(i)) :
             counts[q][i] = Len(c)
    BY <1>1 DEF Explained
  <2>2. /\ CountedAt(i) \in 1..Len(got'[q])
        /\ got'[q][CountedAt(i)] = got[q][CountedAt(i)]
    BY <2>1, FetchedStays
  <2>3. Contents(got[q][CountedAt(i)].id, CountedKind(i))
          \subseteq Contents(got[q][CountedAt(i)].id, CountedKind(i))'
    BY ContentsGrow, <2>2
  <2> QED BY <1>1, <2>1, <2>2, <2>3 DEF CountExplained
<1>2. CASE counts'[q] = counts[q]
  BY <1>1, <1>2
<1>3. CASE Quiet
  BY <1>2, <1>3 DEF Quiet, local
<1>4. ASSUME NEW r \in Runs, Moves(r) PROVE CountExplained(q, i)'
  <2>1. CASE q # r
    BY <1>2, <1>4, <2>1, OthersKeep DEF OnlyRun
  <2>2. CASE q = r
    <3>1. CASE counts'[r] = counts[r]
      BY <1>2, <2>2, <3>1
    <3>2. CASE counts'[r] # counts[r]
      <4> DEFINE n == Len(counts[r])
                 rows == view[at[r].kind][Rec(r).id]
      <4>1. /\ step[r] = "count" /\ got' = got /\ view' = view /\ rows \in Rows
            /\ Len(counts'[r]) = n + 1 /\ counts'[r][n + 1] = Len(rows)
            /\ \A j \in 1..n : counts'[r][j] = counts[r][j]
        BY <1>4, <3>2, CountMove
      <4>2. n \in Nat
        BY DEF TypeInv
      <4>3. CASE i \in 1..n
        BY <1>1, <2>2, <4>1, <4>3
      <4>4. CASE i = n + 1
        <5>1. step[r] \in OverRows
          BY <4>1 DEF OverRows
        <5>2. /\ at[r].dataset \in 1..Len(got[r]) /\ at[r].kind \in Kinds
              /\ Rec(r) = got[r][at[r].dataset] /\ Rec(r).id \in Datasets
          BY <5>1, AtRecord
        <5>3. CountedAt(i) = at[r].dataset /\ CountedKind(i) = at[r].kind
          BY <4>1, <4>4, NextCount
        <5>4. rows \in Contents(Rec(r).id, at[r].kind)
          BY <4>1, <5>2, NoneIsNoRows DEF Explained
        <5>5. PICK d \in Datasets : d = Rec(r).id
          BY <5>2
        <5>6. PICK k \in Kinds : k = at[r].kind
          BY <5>2
        <5>7. rows \in Contents(d, k)'
          BY <4>1, <5>4, <5>5, <5>6 DEF Contents
        <5>8. /\ CountedAt(i) \in 1..Len(got'[q]) /\ CountedKind(i) = k
              /\ got'[q][CountedAt(i)].id = d /\ counts'[q][i] = Len(rows)
          BY <2>2, <4>1, <4>4, <5>2, <5>3, <5>5, <5>6
        <5> QED BY <5>7, <5>8 DEF CountExplained
      <4> QED BY <2>2, <4>1, <4>2, <4>3, <4>4
    <3> QED BY <3>1, <3>2
  <2> QED BY <2>1, <2>2
<1> QED BY <1>3, <1>4, NextSplit
-----------------------------------------------------------------------------
(* One run at a time *)

\* A run starts when it is new, and moves on only while it is under way.
LEMMA StartMove ==
  ASSUME TypeInv, NEW r \in Runs, Moves(r)
  PROVE  \/ /\ step[r] = "new" /\ step'[r] = "fetch"
            /\ started' = Append(started, r)
            /\ ~overlap' => (~overlap /\ Running = {})
            /\ got' = got /\ counts' = counts /\ UNCHANGED <<disk, view>>
         \/ RunStep(r) /\ r \in Running /\ UNCHANGED <<started, overlap, live>>
<1>1. ASSUME NEW l \in Listings, NEW b \in BOOLEAN, Search(r, l, b)
      PROVE  /\ step[r] = "new" /\ step'[r] = "fetch"
             /\ started' = Append(started, r)
             /\ ~overlap' => (~overlap /\ Running = {})
             /\ got' = got /\ counts' = counts /\ UNCHANGED <<disk, view>>
  BY <1>1 DEF Search, GoTo, TypeInv, sail
<1>2. ASSUME RunStep(r) PROVE r \in Running
  BY <1>2 DEF RunStep, Fetch, FetchSkipped, Fetched, OpenFile, WriteFile,
     WriteFileFails, StageView, CountRows, Bootstrap, PutNodes, PutEdges, PutFails,
     Verify, Answer, RunFails, Running, Idle
<1>3. ASSUME RunStep(r) PROVE UNCHANGED <<started, overlap, live>>
  BY <1>3 DEF RunStep, Fetch, FetchSkipped, Fetched, OpenFile, WriteFile,
     WriteFileFails, StageView, CountRows, Bootstrap, PutNodes, PutEdges, PutFails,
     Verify, Answer, RunFails, history
<1> QED BY <1>1, <1>2, <1>3 DEF Moves

LEMMA StartedLast ==
  ASSUME TypeInv, NEW r \in Runs, started' = Append(started, r)
  PROVE  Last(started)' = r
<1>1. started \in Seq(Runs)
  BY DEF TypeInv
<1>2. Len(started') = Len(started) + 1 /\ started'[Len(started) + 1] = r
  BY <1>1, AppendFacts
<1> QED BY <1>2 DEF Last

\* As long as no two runs have overlapped, the others are idle during a step.
LEMMA OthersIdle ==
  ASSUME TypeInv, OneAtATime, NEW r \in Runs, Moves(r), ~overlap'
  PROVE  /\ ~overlap
         /\ \A q \in Runs \ {r} : Idle(q)
         /\ \A q \in Runs : Latest(q)' => q = r
<1>1. CASE /\ started' = Append(started, r)
           /\ ~overlap' => (~overlap /\ Running = {})
  <2>1. Last(started)' = r
    BY <1>1, StartedLast
  <2> QED BY <1>1, <2>1 DEF Running, Latest
<1>2. CASE RunStep(r) /\ r \in Running /\ UNCHANGED <<started, overlap>>
  <2>1. ~overlap /\ Latest(r) /\ Last(started)' = Last(started)
    BY <1>2 DEF OneAtATime, Last
  <2> QED BY <2>1 DEF OneAtATime, Latest, Running
<1> QED BY <1>1, <1>2, StartMove

LEMMA OneAtATimeStep ==
  ASSUME TypeInv, OneAtATime, [Next]_vars
  PROVE  OneAtATime'
<1> SUFFICES ASSUME ~overlap', NEW q \in Runs, ~Idle(q)' PROVE Latest(q)'
  BY DEF OneAtATime, Running
<1>1. CASE Quiet
  <2>1. ~overlap /\ ~Idle(q) /\ Last(started)' = Last(started) /\ started' = started
    BY <1>1 DEF Quiet, local, Idle, Last
  <2> QED BY <2>1 DEF OneAtATime, Running, Latest
<1>2. ASSUME NEW r \in Runs, Moves(r) PROVE Latest(q)'
  <2>1. q = r
    <3>1. CASE q # r
      <4>1. Idle(q) /\ step'[q] = step[q]
        BY <1>2, <3>1, OthersIdle, OthersKeep DEF OnlyRun
      <4> QED BY <4>1 DEF Idle
    <3> QED BY <3>1
  <2>2. CASE started' = Append(started, r)
    BY <2>1, <2>2, StartedLast DEF Latest
  <2>3. CASE r \in Running /\ UNCHANGED <<started, overlap>>
    <3>1. Latest(r)
      BY <2>3 DEF OneAtATime
    <3> QED BY <2>1, <2>3, <3>1 DEF Latest, Last
  <2> QED BY <1>2, <2>2, <2>3, StartMove
<1> QED BY <1>1, <1>2, NextSplit

-----------------------------------------------------------------------------
(* Rows on disk *)

LEMMA TruncatedStep ==
  ASSUME TypeInv, \A r \in Runs : Placed(r), OneAtATime, Truncated, [Next]_vars
  PROVE  Truncated'
<1> SUFFICES ASSUME ~overlap', NEW q \in Runs, step'[q] = "write"
             PROVE  disk'[at'[q].kind][got'[q][at'[q].dataset].id] = <<>>
  BY DEF Truncated, Rec
<1>1. CASE Quiet
  BY <1>1 DEF Quiet, Truncated, Rec, local
<1>2. ASSUME NEW r \in Runs, Moves(r)
      PROVE  disk'[at'[q].kind][got'[q][at'[q].dataset].id] = <<>>
  <2>1. CASE q # r
    <3>1. Idle(q) /\ step'[q] = step[q]
      BY <1>2, <2>1, OthersIdle, OthersKeep DEF OnlyRun
    <3> QED BY <3>1 DEF Idle
  <2>2. CASE q = r
    <3>1. OpenFile(r) /\ FileSet(r, <<>>)
      BY <1>2, <2>2, DiskMove
    <3>2. at' = at /\ got' = got /\ step[r] \in OverRows
      BY <3>1 DEF OpenFile, OverRows
    <3>3. <<>> \in Rows
      BY DEF Rows
    <3> QED BY <2>2, <3>1, <3>2, <3>3, FileSetFacts DEF Rec
  <2> QED BY <2>1, <2>2
<1> QED BY <1>1, <1>2, NextSplit

\* What a file holds once it is written.
LEMMA WholeWrite ==
  ASSUME TypeInv, NEW r \in Runs, Placed(r), Truncated, ~overlap, WriteFile(r)
  PROVE  /\ step[r] \in OverRows
         /\ FileSet(r, Content(Rec(r), at[r].kind))
         /\ disk'[at[r].kind][Rec(r).id] = Content(Rec(r), at[r].kind)
         /\ \A m \in Kinds, e \in Datasets :
              Elsewhere(at[r].kind, Rec(r).id, m, e) => disk'[m][e] = disk[m][e]
<1> DEFINE old == disk[at[r].kind][Rec(r).id]
           new == Content(Rec(r), at[r].kind)
<1>1. step[r] = "write" /\ step[r] \in OverRows
  BY DEF WriteFile, OverRows
<1>2. new \in Rows
  BY <1>1, AtRecord
<1>3. old = <<>> /\ <<>> \in Rows
  <2>1. old = <<>>
    BY <1>1 DEF Truncated
  <2> QED BY <2>1 DEF Rows
<1>4. disk' = [disk EXCEPT ![at[r].kind][Rec(r).id] = Overwrite(old, new)]
  BY DEF WriteFile
<1>5. Overwrite(old, new) = new
  BY <1>2, <1>3, OverwriteFacts
<1>6. FileSet(r, new)
  BY <1>4, <1>5 DEF FileSet
<1> QED BY <1>1, <1>2, <1>6, FileSetFacts

LocalRow(k, d) ==
  disk[k][d] = None \/ disk[k][d] \in Contents(d, k) \/ Inside({"write", "torn"}, d, k)

LEMMA LocalRowStep ==
  ASSUME TypeInv, \A r \in Runs : Placed(r) /\ Opened(r), OneAtATime, Truncated,
         [Next]_vars, ~overlap', NEW k \in Kinds, NEW d \in Datasets, LocalRow(k, d)
  PROVE  LocalRow(k, d)'
<1>1. Contents(d, k) \subseteq Contents(d, k)'
  BY ContentsGrow
<1>2. ASSUME NEW p \in Runs, step'[p] \in {"write", "torn"},
             got'[p][at'[p].dataset].id = d, at'[p].kind = k
      PROVE  LocalRow(k, d)'
  BY <1>2 DEF LocalRow, Inside, Rec
<1>3. CASE Quiet
  <2>1. disk' = disk /\ step' = step /\ got' = got /\ at' = at
    BY <1>3 DEF Quiet, local
  <2>2. CASE disk[k][d] = None \/ disk[k][d] \in Contents(d, k)
    BY <1>1, <2>1, <2>2 DEF LocalRow
  <2>3. ASSUME NEW p \in Runs, step[p] \in {"write", "torn"}, Rec(p).id = d,
               at[p].kind = k
        PROVE  LocalRow(k, d)'
    BY <1>2, <2>1, <2>3 DEF Rec
  <2> QED BY <2>2, <2>3 DEF LocalRow, Inside
<1>4. ASSUME NEW r \in Runs, Moves(r) PROVE LocalRow(k, d)'
  <2>1. step[r] # "torn" /\ ~overlap
    BY <1>4, StartMove, OthersIdle DEF Running, Idle
  <2>2. ASSUME disk'[k][d] = disk[k][d],
               step[r] = "write" => Elsewhere(at[r].kind, Rec(r).id, k, d)
        PROVE  LocalRow(k, d)'
    <3>1. CASE disk[k][d] = None \/ disk[k][d] \in Contents(d, k)
      BY <1>1, <2>2, <3>1 DEF LocalRow
    <3>2. ASSUME NEW p \in Runs, step[p] \in {"write", "torn"}, Rec(p).id = d,
                 at[p].kind = k
          PROVE  LocalRow(k, d)'
      <4>1. p # r
        BY <2>1, <2>2, <3>2 DEF Elsewhere
      <4>2. step'[p] = step[p] /\ got'[p] = got[p] /\ at'[p] = at[p]
        BY <1>4, <4>1, OthersKeep DEF OnlyRun
      <4> QED BY <1>2, <3>2, <4>2 DEF Rec
    <3> QED BY <3>1, <3>2 DEF LocalRow, Inside
  <2>3. CASE UNCHANGED disk /\ step[r] # "write"
    BY <2>2, <2>3
  <2>4. ASSUME OpenFile(r) \/ WriteFileFails(r), step'[r] \in {"write", "torn"},
               NEW v \in Rows, FileSet(r, v)
        PROVE  LocalRow(k, d)'
    <3>1. step[r] \in OverRows /\ at' = at /\ got' = got
      BY <2>4 DEF OpenFile, WriteFileFails, OverRows
    <3>2. CASE k = at[r].kind /\ d = Rec(r).id
      BY <1>2, <2>4, <3>1, <3>2 DEF Rec
    <3>3. CASE k # at[r].kind \/ d # Rec(r).id
      <4>1. Elsewhere(at[r].kind, Rec(r).id, k, d)
        BY <3>3 DEF Elsewhere
      <4>2. disk'[k][d] = disk[k][d]
        BY <2>4, <3>1, <4>1, FileSetFacts
      <4> QED BY <2>2, <4>1, <4>2
    <3> QED BY <3>2, <3>3
  <2>5. CASE OpenFile(r) /\ step'[r] = "write" /\ FileSet(r, <<>>)
    <3>1. <<>> \in Rows
      BY DEF Rows
    <3> QED BY <2>4, <2>5, <3>1
  <2>6. CASE WriteFile(r)
    <3>1. /\ step[r] \in OverRows
          /\ disk'[at[r].kind][Rec(r).id] = Content(Rec(r), at[r].kind)
          /\ Elsewhere(at[r].kind, Rec(r).id, k, d) => disk'[k][d] = disk[k][d]
      BY <2>1, <2>6, WholeWrite
    <3>2. CASE k = at[r].kind /\ d = Rec(r).id
      <4>1. at[r].dataset \in DOMAIN got[r] /\ Rec(r) = got[r][at[r].dataset]
        BY <3>1, AtRecord DEF TypeInv
      <4>2. Content(Rec(r), k) \in Contents(d, k)
        BY <3>2, <4>1, ContentsHave
      <4> QED BY <1>1, <3>1, <3>2, <4>2 DEF LocalRow
    <3>3. CASE k # at[r].kind \/ d # Rec(r).id
      BY <2>2, <3>1, <3>3 DEF Elsewhere
    <3> QED BY <3>2, <3>3
  <2>7. ASSUME WriteFileFails(r), step'[r] = "torn",
               NEW n \in 0..Len(Content(Rec(r), at[r].kind)),
               FileSet(r, Overwrite(disk[at[r].kind][Rec(r).id],
                                    SubSeq(Content(Rec(r), at[r].kind), 1, n)))
        PROVE  LocalRow(k, d)'
    <3> DEFINE old == disk[at[r].kind][Rec(r).id]
               new == Content(Rec(r), at[r].kind)
    <3>1. step[r] = "write" /\ step[r] \in OverRows
      BY <2>7 DEF WriteFileFails, OverRows
    <3>2. new \in Rows
      BY <3>1, AtRecord
    <3>3. old \in Rows
      <4>1. old = <<>>
        BY <2>1, <3>1 DEF Truncated
      <4>2. <<>> \in Rows
        BY DEF Rows
      <4> QED BY <4>1, <4>2
    <3>4. Overwrite(old, SubSeq(new, 1, n)) \in Rows
      BY <2>7, <3>2, <3>3, PrefixIsRows, OverwriteFacts
    <3> QED BY <2>4, <2>7, <3>4
  <2> QED BY <1>4, <2>3, <2>5, <2>6, <2>7, DiskMove
<1> QED BY <1>3, <1>4, NextSplit
-----------------------------------------------------------------------------
(* What the latest run staged *)

DiskStands(r) ==
  \A i \in 1..Len(got[r]), k \in Kinds :
    Written(r, i, k) => disk[k][got[r][i].id] = Content(got[r][i], k)

ViewStands(r) ==
  \A i \in 1..Len(got[r]), k \in Kinds :
    (live[r] /\ Viewed(r, i, k)) => view[k][got[r][i].id] = Content(got[r][i], k)

CountsStand(r) ==
  \A i \in 1..Len(counts[r]) :
    counts[r][i] = Len(Content(got[r][CountedAt(i)], CountedKind(i)))

LEMMA StandsParts ==
  ASSUME NEW r \in Runs
  PROVE  Stands(r) <=> DiskStands(r) /\ ViewStands(r) /\ CountsStand(r)
BY DEF Stands, DiskStands, ViewStands, CountsStand

\* Rows of another dataset or of the other kind are somewhere else.
LEMMA ElsewhereFacts ==
  ASSUME TypeInv, NEW r \in Runs, Placed(r), Distinct(r), step[r] \in OverRows,
         NEW i \in 1..Len(got[r]), NEW k \in Kinds,
         i # at[r].dataset \/ k # at[r].kind
  PROVE  /\ got[r][i].id \in Datasets
         /\ Elsewhere(at[r].kind, Rec(r).id, k, got[r][i].id)
<1>1. at[r].dataset \in 1..Len(got[r]) /\ Rec(r) = got[r][at[r].dataset]
  BY AtRecord
<1>2. got[r][i] \in Record
  BY DEF TypeInv
<1> QED BY <1>1, <1>2, RecordFacts DEF Distinct, Elsewhere

\* A run's own steps keep what it has written.
LEMMA DiskStandsMove ==
  ASSUME TypeInv, NEW r \in Runs, Placed(r), Distinct(r), DiskStands(r), RunStep(r),
         Truncated, ~overlap
  PROVE  DiskStands(r)'
<1> USE DEF Staged, LiveSteps
<1>0. /\ at[r] \in Place /\ at[r].dataset \in Nat \ {0}
      /\ at[r].kind \in {"metadata", "files"} /\ Kinds = {"metadata", "files"}
      /\ First.dataset = 1 /\ First.kind = "metadata" /\ Len(got[r]) \in Nat
      /\ Moves(r)
  BY PlaceFacts DEF TypeInv, Place, Kinds, Moves
<1>1. ASSUME UNCHANGED disk, got'[r] = got[r], step[r] \in Staged
      PROVE  DiskStands(r)'
  BY <1>1 DEF DiskStands, Written
<1>2. ASSUME step'[r] \notin Staged \union {"open", "write"}
      PROVE  DiskStands(r)'
  BY <1>2 DEF DiskStands, Written
<1>3. CASE Fetch(r) \/ FetchSkipped(r)
  BY <1>2, <1>3 DEF Fetch, FetchSkipped
<1>4. CASE Fetched(r)
  <2>1. step[r] = "fetch" /\ at'[r] = at[r]
        /\ step'[r] \in {"failed", "open"}
    BY <1>4 DEF Fetched, GoTo, TypeInv
  <2>2. at'[r] = First
    BY <2>1 DEF Placed
  <2> QED BY <1>0, <2>1, <2>2 DEF DiskStands, Written, Before
<1>5. CASE OpenFile(r)
  <2>1. /\ step[r] = "open" /\ step'[r] = "write" /\ at' = at /\ got' = got
        /\ FileSet(r, <<>>) /\ step[r] \in OverRows
    BY <1>5 DEF OpenFile, OverRows, FileSet, GoTo, TypeInv
  <2>2. <<>> \in Rows
    BY DEF Rows
  <2>3. ASSUME NEW i \in 1..Len(got[r]), NEW k \in Kinds, Before(r, i, k)
        PROVE  disk'[k][got[r][i].id] = Content(got[r][i], k)
    <3>1. i # at[r].dataset \/ k # at[r].kind
      BY <1>0, <2>3 DEF Before
    <3>2. disk'[k][got[r][i].id] = disk[k][got[r][i].id]
      BY <2>1, <2>2, <3>1, ElsewhereFacts, FileSetFacts
    <3> QED BY <2>1, <2>3, <3>2 DEF DiskStands, Written
  <2> QED BY <2>1, <2>3 DEF DiskStands, Written, Before
<1>6. CASE WriteFile(r)
  <2>1. /\ step[r] = "write" /\ got' = got /\ step[r] \in OverRows
        /\ Advanced(r, "open", "open", AfterStaging(r))
    BY <1>6, StepNames, NextRowsResult DEF WriteFile, OverRows
  <2>2. /\ disk'[at[r].kind][Rec(r).id] = Content(Rec(r), at[r].kind)
        /\ \A m \in Kinds, e \in Datasets :
             Elsewhere(at[r].kind, Rec(r).id, m, e) => disk'[m][e] = disk[m][e]
    BY <1>6, WholeWrite
  <2>3. ASSUME NEW i \in 1..Len(got[r]), NEW k \in Kinds,
               Before(r, i, k) \/ (i = at[r].dataset /\ k = at[r].kind)
        PROVE  disk'[k][got[r][i].id] = Content(got[r][i], k)
    <3>1. CASE i = at[r].dataset /\ k = at[r].kind
      BY <2>2, <3>1 DEF Rec
    <3>2. CASE (i # at[r].dataset \/ k # at[r].kind) /\ Before(r, i, k)
      <4>1. disk'[k][got[r][i].id] = disk[k][got[r][i].id]
        BY <2>1, <2>2, <3>2, ElsewhereFacts
      <4> QED BY <2>1, <3>2, <4>1 DEF DiskStands, Written
    <3> QED BY <2>3, <3>1, <3>2
  <2>4. ASSUME NEW i \in 1..Len(got[r]), NEW k \in Kinds, Written(r, i, k)'
        PROVE  Before(r, i, k) \/ (i = at[r].dataset /\ k = at[r].kind)
    <3>1. CASE /\ at[r].kind = "metadata" /\ step'[r] = "open"
               /\ at'[r] = [dataset |-> at[r].dataset, kind |-> "files"]
      BY <1>0, <2>4, <3>1 DEF Written, Before
    <3>2. CASE /\ at[r].kind = "files" /\ step'[r] = "open"
               /\ at'[r] = [dataset |-> at[r].dataset + 1, kind |-> "metadata"]
      <4>1. i < at[r].dataset + 1
        BY <2>4, <3>2 DEF Written, Before
      <4>2. i < at[r].dataset \/ i = at[r].dataset
        BY <1>0, <4>1
      <4> QED BY <1>0, <3>2, <4>2 DEF Before
    <3>3. CASE at[r].kind = "files" /\ at[r].dataset = Len(got[r])
      BY <1>0, <3>3 DEF Before
    <3> QED BY <2>1, <3>1, <3>2, <3>3 DEF Advanced
  <2> QED BY <2>1, <2>3, <2>4 DEF DiskStands
<1>7. CASE WriteFileFails(r) \/ PutFails(r) \/ RunFails(r)
  <2>1. step'[r] \in {"torn", "failed"}
    BY <1>7 DEF WriteFileFails, PutFails, RunFails, GoTo, TypeInv
  <2> QED BY <1>2, <2>1
<1>8. CASE StageView(r) \/ CountRows(r)
  BY <1>1, <1>8 DEF StageView, CountRows
<1>9. CASE Bootstrap(r) \/ PutNodes(r) \/ PutEdges(r) \/ Verify(r) \/ Answer(r)
  BY <1>1, <1>9 DEF Bootstrap, PutNodes, PutEdges, Verify, Answer
<1> QED BY <1>3, <1>4, <1>5, <1>6, <1>7, <1>8, <1>9 DEF RunStep

\* They keep what it has staged,
LEMMA ViewStandsMove ==
  ASSUME TypeInv, NEW r \in Runs, Placed(r), Distinct(r), ViewStands(r), RunStep(r)
  PROVE  ViewStands(r)'
<1> DEFINE Done == {"bootstrap", "nodes", "edges", "verify", "answer", "answered"}
<1>0. /\ at[r] \in Place /\ at[r].dataset \in Nat \ {0}
      /\ at[r].kind \in {"metadata", "files"} /\ Kinds = {"metadata", "files"}
      /\ First.dataset = 1 /\ First.kind = "metadata" /\ Len(got[r]) \in Nat
      /\ Moves(r)
  BY PlaceFacts DEF TypeInv, Place, Kinds, Moves
<1>1. ASSUME UNCHANGED view, got'[r] = got[r], live'[r] = live[r], step[r] \in Done
      PROVE  ViewStands(r)'
  BY <1>1 DEF ViewStands, Viewed
<1>2. ASSUME step'[r] \notin Done \union {"view", "count"} PROVE ViewStands(r)'
  BY <1>2 DEF ViewStands, Viewed
<1>3. CASE Fetch(r) \/ FetchSkipped(r)
  BY <1>2, <1>3 DEF Fetch, FetchSkipped
<1>4. CASE Fetched(r) \/ OpenFile(r) \/ WriteFileFails(r) \/ PutFails(r) \/ RunFails(r)
  <2>1. step'[r] \in {"failed", "open", "write", "torn"}
    BY <1>4 DEF Fetched, OpenFile, WriteFileFails, PutFails, RunFails, GoTo, TypeInv
  <2> QED BY <1>2, <2>1
<1>5. CASE WriteFile(r)
  <2>1. Advanced(r, "open", "open", AfterStaging(r)) /\ live' = live
    BY <1>5, StepNames, NextRowsResult DEF WriteFile
  <2>2. CASE step'[r] = "open"
    BY <1>2, <2>2
  <2>3. CASE at'[r] = First /\ step'[r] = AfterStaging(r)
    <3>1. CASE live[r]
      BY <1>0, <2>3, <3>1 DEF AfterStaging, ViewStands, Viewed, Before
    <3>2. CASE ~live[r]
      BY <2>1, <3>2 DEF ViewStands
    <3> QED BY <3>1, <3>2
  <2> QED BY <2>1, <2>2, <2>3 DEF Advanced
<1>6. CASE StageView(r)
  <2>1. /\ step[r] = "view" /\ step[r] \in OverRows /\ got' = got /\ live' = live
        /\ \/ /\ at[r].kind = "metadata" /\ step'[r] = "view"
              /\ at'[r].kind = "files" /\ at'[r].dataset = at[r].dataset
           \/ /\ at[r].kind = "files" /\ step'[r] = "count"
              /\ at'[r].kind = "metadata" /\ at'[r].dataset = at[r].dataset
    BY <1>0, <1>6 DEF StageView, GoTo, TypeInv, OverRows
  <2>2. Content(Rec(r), at[r].kind) \in Rows /\ ViewSet(r, Content(Rec(r), at[r].kind))
    BY <1>6, <2>1, AtRecord DEF StageView, ViewSet
  <2>3. /\ view'[at[r].kind][Rec(r).id] = Content(Rec(r), at[r].kind)
        /\ \A m \in Kinds, e \in Datasets :
             Elsewhere(at[r].kind, Rec(r).id, m, e) => view'[m][e] = view[m][e]
    BY <2>1, <2>2, ViewSetFacts
  <2>4. ASSUME NEW i \in 1..Len(got[r]), NEW k \in Kinds, live[r],
               Before(r, i, k) \/ (i = at[r].dataset /\ k = at[r].kind)
        PROVE  view'[k][got[r][i].id] = Content(got[r][i], k)
    <3>1. CASE i = at[r].dataset /\ k = at[r].kind
      BY <2>3, <3>1 DEF Rec
    <3>2. CASE (i # at[r].dataset \/ k # at[r].kind) /\ Before(r, i, k)
      <4>1. view'[k][got[r][i].id] = view[k][got[r][i].id]
        BY <2>1, <2>3, <3>2, ElsewhereFacts
      <4> QED BY <2>1, <2>4, <3>2, <4>1 DEF ViewStands, Viewed
    <3> QED BY <2>4, <3>1, <3>2
  <2>5. ASSUME NEW i \in 1..Len(got[r]), NEW k \in Kinds, Viewed(r, i, k)'
        PROVE  Before(r, i, k) \/ (i = at[r].dataset /\ k = at[r].kind)
    <3>1. CASE /\ at[r].kind = "metadata" /\ step'[r] = "view"
               /\ at'[r].kind = "files" /\ at'[r].dataset = at[r].dataset
      BY <1>0, <2>5, <3>1 DEF Viewed, Before
    <3>2. CASE /\ at[r].kind = "files" /\ step'[r] = "count"
               /\ at'[r].dataset = at[r].dataset
      <4>1. i <= at[r].dataset
        BY <2>5, <3>2 DEF Viewed
      <4> QED BY <1>0, <3>2, <4>1 DEF Before
    <3> QED BY <2>1, <3>1, <3>2
  <2> QED BY <2>1, <2>4, <2>5 DEF ViewStands
<1>7. CASE CountRows(r)
  <2>1. /\ step[r] = "count" /\ Advanced(r, "count", "view", "bootstrap")
        /\ UNCHANGED <<view, got, live>>
    BY <1>7, StepNames, NextRowsResult DEF CountRows, sail
  <2>2. at[r].dataset <= Len(got[r])
    BY <2>1 DEF Placed, OverRows
  <2>3. ASSUME NEW i \in 1..Len(got[r]), NEW k \in Kinds, Viewed(r, i, k)'
        PROVE  i <= at[r].dataset
    <3>1. CASE step'[r] = "count" /\ at'[r] = [dataset |-> at[r].dataset, kind |-> "files"]
      BY <2>3, <3>1 DEF Viewed
    <3>2. CASE /\ step'[r] = "view"
               /\ at'[r] = [dataset |-> at[r].dataset + 1, kind |-> "metadata"]
      <4>1. i < at[r].dataset + 1
        BY <2>3, <3>2 DEF Viewed, Before
      <4> QED BY <1>0, <4>1
    <3>3. CASE at[r].dataset = Len(got[r])
      BY <1>0, <3>3
    <3> QED BY <2>1, <3>1, <3>2, <3>3 DEF Advanced
  <2> QED BY <2>1, <2>3 DEF ViewStands, Viewed
<1>8. CASE Bootstrap(r) \/ PutNodes(r) \/ PutEdges(r) \/ Verify(r) \/ Answer(r)
  BY <1>1, <1>8 DEF Bootstrap, PutNodes, PutEdges, Verify, Answer, sail
<1> QED BY <1>3, <1>4, <1>5, <1>6, <1>7, <1>8 DEF RunStep

\* and what it has counted.
LEMMA CountsStandMove ==
  ASSUME TypeInv, NEW r \in Runs, Placed(r), Opened(r), ViewStands(r),
         CountsStand(r), RunStep(r)
  PROVE  CountsStand(r)'
<1>0. Moves(r) /\ counts[r] \in Seq(Nat) /\ Len(counts[r]) \in Nat
  BY DEF Moves, TypeInv
<1>1. CASE counts'[r] = counts[r]
  <2>1. CASE got'[r] = got[r]
    BY <1>1, <2>1 DEF CountsStand, CountedAt, CountedKind
  <2>2. CASE step[r] \in {"new", "fetch"}
    <3>1. Len(counts'[r]) = 0
      BY <1>1, <2>2 DEF Placed
    <3> QED BY <3>1 DEF CountsStand
  <2> QED BY <1>0, <2>1, <2>2, FetchMove
<1>2. CASE counts'[r] # counts[r]
  <2> DEFINE n == Len(counts[r])
             rows == view[at[r].kind][Rec(r).id]
  <2>1. /\ step[r] = "count" /\ got' = got /\ view' = view
        /\ Len(counts'[r]) = n + 1 /\ counts'[r][n + 1] = Len(rows)
        /\ \A i \in 1..n : counts'[r][i] = counts[r][i]
    BY <1>0, <1>2, CountMove
  <2>2. /\ at[r].dataset \in 1..Len(got[r]) /\ at[r].kind \in Kinds
        /\ Rec(r) = got[r][at[r].dataset]
    BY <2>1, AtRecord DEF OverRows
  <2>3. rows = Content(Rec(r), at[r].kind)
    <3>1. live[r] /\ Viewed(r, at[r].dataset, at[r].kind)
      BY <2>1, <2>2 DEF Placed, LiveSteps, Viewed
    <3> QED BY <2>2, <3>1 DEF ViewStands
  <2>4. CountedAt(n + 1) = at[r].dataset /\ CountedKind(n + 1) = at[r].kind
    BY <2>1, NextCount
  <2>5. counts'[r][n + 1] = Len(Content(got'[r][CountedAt(n + 1)], CountedKind(n + 1)))
    BY <2>1, <2>2, <2>3, <2>4
  <2>6. \A i \in 1..n :
          counts'[r][i] = Len(Content(got'[r][CountedAt(i)], CountedKind(i)))
    BY <2>1 DEF CountsStand
  <2>7. \A i \in 1..(n + 1) : i \in 1..n \/ i = n + 1
    BY <1>0
  <2>8. \A i \in 1..Len(counts'[r]) :
          counts'[r][i] = Len(Content(got'[r][CountedAt(i)], CountedKind(i)))
    BY <2>1, <2>5, <2>6, <2>7
  <2> QED BY <2>8 DEF CountsStand, CountedAt, CountedKind
<1> QED BY <1>1, <1>2
LEMMA LatestStandsStep ==
  ASSUME TypeInv, \A r \in Runs : Placed(r) /\ Opened(r) /\ Distinct(r),
         OneAtATime, Truncated, LatestStands, [Next]_vars
  PROVE  LatestStands'
<1> SUFFICES ASSUME ~overlap', NEW q \in Runs, Latest(q)' PROVE Stands(q)'
  BY DEF LatestStands
<1>1. CASE Quiet
  <2>1. ~overlap /\ Latest(q)
    BY <1>1 DEF Quiet, Latest, Last
  <2>2. DiskStands(q) /\ ViewStands(q) /\ CountsStand(q)
    BY <2>1, StandsParts DEF LatestStands
  <2>3. DiskStands(q)'
    BY <1>1, <2>2 DEF Quiet, local, DiskStands, Written, Before
  <2>4. ViewStands(q)'
    BY <1>1, <2>2 DEF Quiet, local, sail, ViewStands, Viewed, Before
  <2>5. CountsStand(q)'
    BY <1>1, <2>2 DEF Quiet, local, CountsStand, CountedAt, CountedKind
  <2> QED BY <2>3, <2>4, <2>5 DEF Stands, DiskStands, ViewStands, CountsStand
<1>2. ASSUME NEW r \in Runs, Moves(r) PROVE Stands(q)'
  <2>1. q = r /\ ~overlap
    BY <1>2, OthersIdle
  <2>2. CASE step[r] = "new" /\ step'[r] = "fetch" /\ counts' = counts
    <3>1. Len(counts'[r]) = 0
      BY <2>2 DEF Placed
    <3> QED BY <2>1, <2>2, <3>1 DEF Stands, Written, Viewed, Staged, LiveSteps
  <2>3. CASE RunStep(r) /\ r \in Running
    <3>1. Latest(r)
      BY <2>1, <2>3 DEF OneAtATime
    <3>2. DiskStands(r) /\ ViewStands(r) /\ CountsStand(r)
      BY <2>1, <3>1, StandsParts DEF LatestStands
    <3>3. DiskStands(r)' /\ ViewStands(r)' /\ CountsStand(r)'
      BY <2>1, <2>3, <3>2, DiskStandsMove, ViewStandsMove, CountsStandMove
    <3> QED BY <2>1, <3>3 DEF Stands, DiskStands, ViewStands, CountsStand
  <2> QED BY <1>2, <2>2, <2>3, StartMove
<1> QED BY <1>1, <1>2, NextSplit

-----------------------------------------------------------------------------
(* The invariants *)

LEMMA InitIInv == ASSUME Init PROVE IInv
<1>1. TypeInv
  BY TypeInit
<1>2. ASSUME NEW r \in Runs
      PROVE  /\ step[r] = "new" /\ listed[r] = <<>>
             /\ got[r] = <<>> /\ at[r] = First /\ counts[r] = <<>>
  BY DEF Init
<1>3. ASSUME NEW r \in Runs
      PROVE  Placed(r) /\ Opened(r) /\ Distinct(r) /\ InGraph(r)
  <2>1. Placed(r) /\ Opened(r) /\ InGraph(r)
    BY <1>2 DEF Placed, Opened, InGraph, Staged, LiveSteps, OverRows
  <2>2. Len(got[r]) = 0 /\ DOMAIN listed[r] = {}
    BY <1>2
  <2>3. Distinct(r)
    BY <2>2 DEF Distinct, IsInjective
  <2> QED BY <2>1, <2>3
<1>4. \A k \in Kinds, d \in Datasets : disk[k][d] = None /\ view[k][d] = None
  BY DEF Init
<1>5. Explained
  <2>1. \A r \in Runs : Len(counts[r]) = 0
    BY <1>2
  <2> QED BY <1>4, <2>1 DEF Explained
<1>6. OneAtATime /\ Truncated
  BY <1>2 DEF OneAtATime, Truncated, Running, Idle
<1>7. LocalRowsWhole
  BY <1>4 DEF LocalRowsWhole
<1>8. LatestStands
  <2>1. ASSUME NEW r \in Runs PROVE Stands(r)
    <3>1. Len(got[r]) = 0 /\ Len(counts[r]) = 0
      BY <1>2
    <3> QED BY <3>1 DEF Stands
  <2> QED BY <2>1 DEF LatestStands
<1> QED BY <1>1, <1>3, <1>5, <1>6, <1>7, <1>8 DEF IInv

LEMMA NextIInv == ASSUME IInv, [Next]_vars PROVE IInv'
<1> USE DEF IInv
<1>1. TypeInv'
  BY TypeStep
<1>2. \A r \in Runs : Placed(r)'
  BY <1>1, PlacedStep
<1>3. \A r \in Runs : Opened(r)'
  BY <1>1, <1>2, OpenedStep
<1>4. \A r \in Runs : Distinct(r)'
  BY <1>1, DistinctStep
<1>5. \A r \in Runs : InGraph(r)'
  BY InGraphStep
<1>6. Explained'
  <2>1. \A k \in Kinds, d \in Datasets : ViewExplained(k, d)'
    BY ViewExplainedStep, ExplainedParts
  <2>2. \A q \in Runs : \A i \in 1..Len(counts'[q]) : CountExplained(q, i)'
    BY CountExplainedStep
  <2> QED BY <2>1, <2>2 DEF Explained, ViewExplained, CountExplained
<1>7. OneAtATime' /\ Truncated' /\ LatestStands'
  BY OneAtATimeStep, TruncatedStep, LatestStandsStep
<1>8. LocalRowsWhole'
  <2> SUFFICES ASSUME ~overlap', NEW k \in Kinds, NEW d \in Datasets
               PROVE  LocalRow(k, d)'
    BY DEF LocalRowsWhole, LocalRow
  <2>1. ~overlap
    <3>1. CASE Quiet
      BY <3>1 DEF Quiet
    <3>2. ASSUME NEW r \in Runs, Moves(r) PROVE ~overlap
      BY <3>2, OthersIdle
    <3> QED BY <3>1, <3>2, NextSplit
  <2>2. LocalRow(k, d)
    BY <2>1 DEF LocalRowsWhole, LocalRow
  <2> QED BY <2>2, LocalRowStep
<1> QED BY <1>1, <1>2, <1>3, <1>4, <1>5, <1>6, <1>7, <1>8

LEMMA AlwaysIInv == Spec => []IInv
<1>1. Init => IInv
  BY InitIInv
<1>2. IInv /\ [Next]_vars => IInv'
  BY NextIInv
<1> QED BY <1>1, <1>2, PTL DEF Spec

\* Every variable keeps its type, and a run that is at rows is at a dataset it
\* fetched: the loops of stage_dataverse_datasets and of
\* load_semantic_graph_into_sail stay inside the list of datasets.
THEOREM StagingTypeCorrect == Spec => []ETypeOK
<1>1. ASSUME IInv PROVE ETypeOK
  <2>1. TypeInv
    BY <1>1 DEF IInv
  <2>2. ASSUME NEW k \in Kinds, NEW d \in Datasets
        PROVE  /\ disk[k][d] = None \/ disk[k][d] \in Rows
               /\ view[k][d] = None \/ view[k][d] \in Rows
    BY <2>1 DEF TypeInv, Stored
  <2>3. ASSUME NEW r \in Runs, step[r] \in OverRows
        PROVE  at[r] \in [dataset : 1..Len(got[r]), kind : Kinds]
    <3>1. at[r].dataset \in 1..Len(got[r]) /\ at[r].kind \in Kinds /\ at[r] \in Place
      BY <1>1, <2>1, <2>3, AtRecord DEF IInv
    <3> QED BY <3>1, PlaceFacts
  <2> QED BY <2>1, <2>2, <2>3 DEF TypeInv, ETypeOK, OverRows
<1> QED BY <1>1, AlwaysIInv, PTL

\* Without overlapping runs, what fs::write leaves of a dataset's rows is one
\* whole version of them, or was left by a run inside fs::write or killed there.
THEOREM StagedFilesWhole == Spec => []LocalRowsWhole
<1>1. IInv => LocalRowsWhole
  BY DEF IInv
<1> QED BY <1>1, AlwaysIInv, PTL

\* What the run started last answered is what is on disk, in the session's
\* views and in its report, whatever the runs before it left behind.
THEOREM LatestAnswerStands == Spec => []AnswerStands
<1>1. ASSUME IInv PROVE AnswerStands
  <2> SUFFICES ASSUME NEW r \in Runs, step[r] = "answered", ~overlap,
                      Last(started) = r
               PROVE  /\ \A k \in Kinds : \A rec \in ToSet(got[r]) :
                           /\ disk[k][rec.id] = Content(rec, k)
                           /\ live[r] => view[k][rec.id] = Content(rec, k)
                      /\ counts[r] = IF live[r] THEN Expected(r) ELSE <<>>
    BY DEF AnswerStands, Answered
  <2>1. /\ got[r] \in Seq(Record) /\ counts[r] \in Seq(Nat) /\ live[r] \in BOOLEAN
        /\ Len(counts[r]) = IF live[r] THEN 2 * Len(got[r]) ELSE 0
    BY <1>1 DEF IInv, TypeInv, Placed
  <2>2. Stands(r)
    BY <1>1 DEF IInv, LatestStands, Latest
  <2>3. ASSUME NEW k \in Kinds, NEW rec \in ToSet(got[r])
        PROVE  /\ disk[k][rec.id] = Content(rec, k)
               /\ live[r] => view[k][rec.id] = Content(rec, k)
    <3>1. PICK i \in 1..Len(got[r]) : rec = got[r][i]
      <4>1. DOMAIN got[r] = 1..Len(got[r])
        BY <2>1
      <4> QED BY <4>1, Zenon DEF ToSet
    <3>2. Written(r, i, k) /\ Viewed(r, i, k)
      BY DEF Written, Viewed, Staged
    <3> QED BY <2>2, <3>1, <3>2 DEF Stands
  <2>4. CASE live[r]
    <3>1. Len(counts[r]) = 2 * Len(got[r])
      BY <2>1, <2>4
    <3>2. counts[r] = [i \in 1..(2 * Len(got[r])) |-> counts[r][i]]
      BY <2>1, <3>1
    <3>3. \A i \in 1..(2 * Len(got[r])) :
            counts[r][i] = Len(Content(got[r][CountedAt(i)], CountedKind(i)))
      BY <2>2, <3>1 DEF Stands
    <3>4. counts[r] = Expected(r)
      BY <3>2, <3>3, Zenon DEF Expected
    <3> QED BY <2>3, <2>4, <3>4
  <2>5. CASE ~live[r]
    <3>1. counts[r] = <<>>
      BY <2>1, <2>5
    <3> QED BY <2>3, <2>5, <3>1
  <2> QED BY <2>4, <2>5
<1> QED BY <1>1, AlwaysIInv, PTL

\* However runs overlap in one Spark session, each count in an answer is the
\* length of what some run fetched of that dataset and that kind of rows.
THEOREM CountsAreExplained == Spec => []CountsExplained
<1>1. IInv => CountsExplained
  BY DEF IInv, Explained, CountsExplained, Answered
<1> QED BY <1>1, AlwaysIInv, PTL

\* put_graph adds and never takes away, so that an answer of a live run stays
\* covered by the graph, and the node it read back was one it had put.
THEOREM GraphCovers == Spec => []GraphCoversAnswers
<1>1. ASSUME IInv PROVE GraphCoversAnswers
  <2> SUFFICES ASSUME NEW r \in Runs, step[r] = "answered", live[r],
                      NEW rec \in ToSet(got[r])
               PROVE  /\ verified[r]
                      /\ {rec.id} \union ToSet(rec.files) \subseteq nodes
                      /\ {rec.id} \X ToSet(rec.files) \subseteq edges
    <3>1. ASSUME NEW r \in Runs, step[r] = "answered", live[r] PROVE verified[r]
      BY <1>1, <3>1 DEF IInv, InGraph
    <3> QED BY <3>1 DEF GraphCoversAnswers, Answered
  <2>1. verified[r] /\ GraphNodes(r) \subseteq nodes /\ GraphEdges(r) \subseteq edges
    BY <1>1 DEF IInv, InGraph
  <2>2. {rec.id} \union ToSet(rec.files) \subseteq GraphNodes(r)
    BY DEF GraphNodes
  <2>3. {rec.id} \X ToSet(rec.files) \subseteq GraphEdges(r)
    BY DEF GraphEdges
  <2> QED BY <2>1, <2>2, <2>3
<1> QED BY <1>1, AlwaysIInv, PTL
=============================================================================
