---------------------- MODULE LakehouseValidateProofs ----------------------
(***************************************************************************)
(* Proofs about `lakehouse-verify` and `lakehouse-validate` beside a       *)
(* loader, for every set of datasets, files and listings: the loader's own *)
(* invariants of LakehouseLoadProofs carry over, and a history variable    *)
(* that says that no load was started ties what either command has read so *)
(* far to what the loader published.                                       *)
(***************************************************************************)
EXTENDS LakehouseValidate, LakehouseLoadProofs

\* A file that is missing or truncated is told from every set of file reports.
MarkersAreNoReports == None \notin SUBSET Entry /\ Torn \notin SUBSET Entry

-----------------------------------------------------------------------------
(* The inductive invariants *)

\* How many documents of a kind the validator is past.
ReadCount(kind) ==
  IF wpc = "done" THEN NumDatasets
  ELSE IF wpc = "cdif" /\ kind = "croissant" THEN wds
  ELSE wds - 1

CountInv == \A k \in DocumentKinds : documents[k] =< ReadCount(k)

\* What the verifier has still to count is in the manifest that stands now.
CalmVerifier ==
  vcalm => /\ fresh
           /\ \A e \in vleft : e \in report /\ Loaded(e)
           /\ vpc # "error"
           /\ vbad = {}

\* Nothing is noted but that a dataset without files has no distribution.
IssuesExact ==
  \A i \in issues :
    i.ds \in Empty /\ i.message = "distribution must be a non-empty array"

\* Every document the validator is past was parsed, and is noted when its
\* dataset has no files.
DocumentsExact ==
  \A k \in DocumentKinds :
    /\ documents[k] = ReadCount(k)
    /\ \A d \in Empty : d =< ReadCount(k) =>
         \E i \in issues : i.ds = d /\ i.kind = k

CalmValidator ==
  wcalm => fresh /\ wpc # "error" /\ IssuesExact /\ DocumentsExact

-----------------------------------------------------------------------------
(* The loader beside a reader is the loader *)

LEMMA LoaderStep == [WNext]_wvars => [Next]_vars
BY DEF WNext, VerifierRuns, Verifier, Validator, ReadManifest,
   ReadManifestFails, CountTable, CountTableFails, SailFails, FinishVerify,
   OpenManifest, OpenManifestFails, ReadDocument, vvars, wvars

LEMMA LoaderInit == WInit => IInv
<1>1. Init => LayersInv
  BY ConstantsAssumption DEF Init, LayersInv, PublishedLayersAgree, Datasets,
     CatalogPhases
<1>2. QED
  BY <1>1, BasicInit, CoverInit DEF IInv, WInit, VInit

LEMMA LoaderInvStep == IInv /\ [WNext]_wvars => IInv'
BY LoaderStep, BasicStep, CoverStep, LayersStep DEF IInv

LEMMA LoaderInvariant == WSpec => []IInv
BY LoaderInit, LoaderInvStep, PTL DEF WSpec

\* While no load is started nothing changes that a reader of the published
\* files and tables looks at.
LEMMA QuietStep ==
  ASSUME IInv, [Next]_vars, fresh, fresh'
  PROVE  UNCHANGED <<report, table, croissant, cdif, pc, ds>>
<1>1. pc = "idle" /\ BasicInv
  BY DEF IInv, CoverInv
<1>2. CASE Unrelated
  BY <1>2 DEF Unrelated, published
<1>3. CASE Working \/ Reporting
  BY <1>1, <1>3 DEF Working, Reporting, FilePhases
<1>4. CASE StartLoad
  BY <1>4 DEF StartLoad
<1>5. CASE \/ Resolve \/ WriteCroissant \/ WriteCdif \/ DropCatalogTable
           \/ CreateCatalogTable \/ BeginPublish \/ FinishPublish \/ Ending
  BY <1>1, <1>5 DEF Resolve, WriteCroissant, WriteCdif, DropCatalogTable,
     CreateCatalogTable, BeginPublish, FinishPublish, Ending
<1>6. QED
  BY <1>1, <1>2, <1>3, <1>4, <1>5, StepClasses

LEMMA FreshManifest ==
  ASSUME MarkersAreNoReports, IInv, fresh
  PROVE  report \in SUBSET Entry /\ report \notin {None, Torn}
BY DEF MarkersAreNoReports, IInv, CoverInv

-----------------------------------------------------------------------------
(* Types *)

LEMMA DatasetsRange == Datasets = 1..NumDatasets /\ NumDatasets \in Nat \ {0}
BY ConstantsAssumption DEF Datasets

\* The validator is one document further after it has read one.
LEMMA ReadCountStep ==
  ASSUME wds \in Datasets, wpc \in DocumentKinds, NextDocument
  PROVE  /\ wds' \in Datasets
         /\ wpc' \in {"croissant", "cdif", "done"}
         /\ ReadCount(wpc) = wds - 1
         /\ \A k \in DocumentKinds :
              ReadCount(k)' = IF k = wpc THEN ReadCount(k) + 1
                                         ELSE ReadCount(k)
         /\ \A k \in DocumentKinds : ReadCount(k) \in 0..NumDatasets
<1>1. CASE wpc = "croissant" /\ wpc' = "cdif" /\ wds' = wds
  BY <1>1, DatasetsRange DEF ReadCount, DocumentKinds
<1>2. CASE /\ wpc = "cdif" /\ wds < NumDatasets
           /\ wpc' = "croissant" /\ wds' = wds + 1
  BY <1>2, DatasetsRange DEF ReadCount, DocumentKinds
<1>3. CASE wpc = "cdif" /\ wds = NumDatasets /\ wpc' = "done" /\ wds' = wds
  BY <1>3, DatasetsRange DEF ReadCount, DocumentKinds
<1>4. QED
  BY <1>1, <1>2, <1>3 DEF NextDocument

LEMMA NotedType ==
  ASSUME WTypeOK, wpc \in DocumentKinds, NEW messages \in SUBSET Messages,
         Note(messages)
  PROVE  issues' \subseteq
           [ds : Datasets, kind : DocumentKinds, message : Messages]
BY DEF WTypeOK, Note

LEMMA ShapeMessagesType ==
  ASSUME NEW k, NEW S
  PROVE  ShapeMessages(k, S) \in SUBSET Messages
BY DEF ShapeMessages, Messages

\* What reading a document does: it is counted when it can be parsed.
LEMMA ReadDocumentEffect ==
  ASSUME WTypeOK, ReadDocument
  PROVE  \E doc \in OnDisk(wpc, wds), messages \in SUBSET Messages :
           /\ Note(messages)
           /\ doc \in {None, Torn} => documents' = documents
           /\ doc \notin {None, Torn} =>
                /\ documents' = [documents EXCEPT ![wpc] = @ + 1]
                /\ messages = ShapeMessages(wpc, doc)
<1>1. PICK doc \in OnDisk(wpc, wds) :
        IF doc \in {None, Torn}
        THEN /\ Note({IF doc = None THEN "cannot read document"
                      ELSE "invalid JSON"})
             /\ UNCHANGED documents
        ELSE /\ documents' = [documents EXCEPT ![wpc] = @ + 1]
             /\ Note(ShapeMessages(wpc, doc))
  BY DEF ReadDocument
<1>2. CASE doc \in {None, Torn}
  <2>1. {IF doc = None THEN "cannot read document" ELSE "invalid JSON"}
          \in SUBSET Messages
    BY DEF Messages
  <2>2. QED
    BY <1>1, <1>2, <2>1
<1>3. CASE doc \notin {None, Torn}
  <2>1. ShapeMessages(wpc, doc) \in SUBSET Messages
    BY ShapeMessagesType
  <2>2. QED
    BY <1>1, <1>3, <2>1
<1>4. QED
  BY <1>2, <1>3

LEMMA VTypeStep ==
  ASSUME WTypeOK, IInv, [WNext]_wvars
  PROVE  VTypeOK'
<1> USE DEF WTypeOK, VTypeOK
<1>1. CASE Next /\ BesideUnchanged
  <2>1. vcalm' \in BOOLEAN
    BY <1>1, Zenon DEF BesideUnchanged
  <2>2. QED
    BY <1>1, <2>1 DEF BesideUnchanged, verifier
<1>2. fresh \in BOOLEAN /\ report \in {None, Torn} \union SUBSET Entry
  BY DEF IInv, BasicInv, TypeOK
<1>3. CASE ReadManifest \/ ReadManifestFails
  <2>1. vcalm' \in BOOLEAN
    BY <1>2, <1>3 DEF ReadManifest, ReadManifestFails
  <2>2. vpc' \in {"counting", "error"} /\ vbad' \in SUBSET Entry
    BY <1>3 DEF ReadManifest, ReadManifestFails
  <2>3. vleft' \in SUBSET Entry
    BY <1>2, <1>3 DEF ReadManifest, ReadManifestFails
  <2>4. QED
    BY <2>1, <2>2, <2>3
<1>4. CASE \E e \in vleft : CountTable(e) \/ CountTableFails(e)
  BY <1>4 DEF CountTable, CountTableFails
<1>5. CASE FinishVerify \/ SailFails
  BY <1>5 DEF FinishVerify, SailFails
<1>6. CASE Validator \/ UNCHANGED wvars
  BY <1>6 DEF Validator, OpenManifest, OpenManifestFails, ReadDocument, vvars,
     wvars
<1>7. QED
  BY <1>1, <1>3, <1>4, <1>5, <1>6 DEF WNext, VerifierRuns, Verifier

LEMMA WTypeStep ==
  WTypeOK /\ CountInv /\ IInv /\ [WNext]_wvars => (WTypeOK /\ CountInv)'
<1> SUFFICES ASSUME WTypeOK, CountInv, IInv, [WNext]_wvars
             PROVE  (WTypeOK /\ CountInv)'
  OBVIOUS
<1> USE DEF WTypeOK
<1>1. VTypeOK'
  BY VTypeStep
<1>2. fresh \in BOOLEAN
  BY DEF IInv, BasicInv, TypeOK
<1>3. CASE Next /\ BesideUnchanged
  <2>1. wcalm' \in BOOLEAN
    BY <1>3, Zenon DEF BesideUnchanged
  <2>2. UNCHANGED <<command, wpc, wds, documents, issues>>
    BY <1>3 DEF BesideUnchanged, validator
  <2>3. CountInv'
    BY <2>2 DEF CountInv, ReadCount
  <2>4. QED
    BY <1>1, <2>1, <2>2, <2>3
<1>4. CASE VerifierRuns \/ UNCHANGED wvars
  <2>1. UNCHANGED <<command, wpc, wds, documents, issues, wcalm>>
    BY <1>4 DEF VerifierRuns, validator, wvars
  <2>2. CountInv'
    BY <2>1 DEF CountInv, ReadCount
  <2>3. QED
    BY <1>1, <2>1, <2>2
<1>5. CASE OpenManifest \/ OpenManifestFails
  <2>1. /\ command' = command /\ wpc' \in {"croissant", "error"} /\ wds' = 1
        /\ documents' = [k \in DocumentKinds |-> 0] /\ issues' = {}
        /\ wcalm' = fresh
    BY <1>5 DEF OpenManifest, OpenManifestFails
  <2>2. CountInv'
    BY <2>1 DEF CountInv, ReadCount
  <2>3. QED
    BY <1>1, <1>2, <2>1, <2>2, DatasetsRange
<1>6. CASE ReadDocument
  <2>1. wpc \in DocumentKinds /\ NextDocument /\ UNCHANGED <<command, wcalm>>
    BY <1>6 DEF ReadDocument
  <2>2. PICK doc \in OnDisk(wpc, wds), messages \in SUBSET Messages :
          /\ Note(messages)
          /\ doc \in {None, Torn} => documents' = documents
          /\ doc \notin {None, Torn} =>
               documents' = [documents EXCEPT ![wpc] = @ + 1]
    BY <1>6, ReadDocumentEffect
  <2>3. issues' \subseteq
          [ds : Datasets, kind : DocumentKinds, message : Messages]
    BY <2>1, <2>2, NotedType
  <2>4. /\ wds' \in Datasets /\ wpc' \in {"croissant", "cdif", "done"}
        /\ ReadCount(wpc) = wds - 1
        /\ \A k \in DocumentKinds :
             ReadCount(k)' = IF k = wpc THEN ReadCount(k) + 1 ELSE ReadCount(k)
        /\ \A k \in DocumentKinds : ReadCount(k) \in 0..NumDatasets
    BY <2>1, ReadCountStep
  <2>5. documents[wpc] =< wds - 1 /\ wds \in 1..NumDatasets
    BY <2>1, <2>4, DatasetsRange DEF CountInv
  <2>6. documents' = documents
        \/ documents' = [documents EXCEPT ![wpc] = documents[wpc] + 1]
    BY <2>2
  <2>7. documents[wpc] + 1 \in 0..NumDatasets
    BY <2>1, <2>5, DatasetsRange
  <2>8. documents' \in [DocumentKinds -> 0..NumDatasets]
    BY <2>1, <2>6, <2>7
  <2>9. CountInv'
    BY <2>1, <2>4, <2>6, DatasetsRange DEF CountInv
  <2>10. QED
    BY <1>1, <2>1, <2>3, <2>4, <2>8, <2>9
<1>7. QED
  BY <1>3, <1>4, <1>5, <1>6 DEF WNext, Validator

LEMMA WTypeInvariant == WSpec => [](WTypeOK /\ CountInv)
<1>1. WInit => WTypeOK /\ CountInv
  <2>1. ASSUME WInit PROVE VTypeOK /\ wcalm \in BOOLEAN
    BY <2>1, Zenon DEF WInit, VInit, VTypeOK
  <2>2. ASSUME WInit PROVE WTypeOK
    <3>1. /\ command \in {"lakehouse-verify", "lakehouse-validate"}
          /\ wpc = "idle" /\ wds = 1 /\ issues = {}
          /\ documents = [k \in DocumentKinds |-> 0]
      BY <2>2 DEF WInit
    <3>2. QED
      BY <2>1, <2>2, <3>1, DatasetsRange DEF WTypeOK
  <2>3. WInit => CountInv
    BY DEF WInit, CountInv, ReadCount
  <2>4. QED
    BY <2>2, <2>3
<1>2. QED
  BY <1>1, WTypeStep, LoaderInvariant, PTL DEF WSpec

\* Both commands keep their state well typed beside a loader that goes on
\* replacing what they read; the validator never counts more documents of a
\* kind than there are datasets.
THEOREM ReadersTypeCorrect == WSpec => []WTypeOK
BY WTypeInvariant, PTL

-----------------------------------------------------------------------------
(* lakehouse-verify *)

LEMMA CalmVerifierStep ==
  ASSUME DistinctTables, MarkersAreNoReports
  PROVE  IInv /\ StandInv /\ CalmVerifier /\ [WNext]_wvars => CalmVerifier'
<1> SUFFICES ASSUME IInv, StandInv, CalmVerifier, [WNext]_wvars, vcalm'
             PROVE  CalmVerifier'
  BY DEF CalmVerifier
<1> USE DEF CalmVerifier
<1>1. CASE Next /\ BesideUnchanged
  <2>1. vcalm /\ fresh' /\ UNCHANGED <<vpc, vleft, vbad>>
    BY <1>1 DEF BesideUnchanged, verifier
  <2>2. report' = report
    BY <1>1, <2>1, QuietStep
  <2>3. QED
    BY <2>1, <2>2
<1>2. CASE ReadManifest
  BY <1>2 DEF ReadManifest, vars
<1>3. CASE ReadManifestFails
  <2>1. fresh /\ report \in {None, Torn}
    BY <1>3 DEF ReadManifestFails
  <2>2. QED
    BY <2>1, FreshManifest
<1>4. CASE \E e \in vleft : CountTable(e) \/ CountTableFails(e)
  <2>1. PICK e \in vleft : CountTable(e) \/ CountTableFails(e)
    BY <1>4
  <2>2. vcalm /\ UNCHANGED vars
    BY <2>1 DEF CountTable, CountTableFails
  <2>3. table[TableOf[e.file]] # None /\ table[TableOf[e.file]].rows = e.rows
    BY <2>1, <2>2 DEF StandInv, PublishedRowsStand
  <2>4. vleft' = vleft \ {e} /\ vbad' = vbad /\ vpc' = vpc
    BY <2>1, <2>3 DEF CountTable, CountTableFails
  <2>5. QED
    BY <2>2, <2>4 DEF vars
<1>5. CASE FinishVerify \/ SailFails
  BY <1>5 DEF FinishVerify, SailFails, vars
<1>6. CASE Validator \/ UNCHANGED wvars
  <2>1. UNCHANGED vvars
    BY <1>6 DEF Validator, OpenManifest, OpenManifestFails, ReadDocument,
       wvars
  <2>2. QED
    BY <2>1 DEF vvars, vars
<1>7. QED
  BY <1>1, <1>2, <1>3, <1>4, <1>5, <1>6 DEF WNext, VerifierRuns, Verifier

\* When no two files share a table name, a verification that no load has run
\* into finds every table there and with the manifest's row count, wherever
\* the loader was stopped, failed or started again before.
THEOREM VerifierRaisesNoFalseAlarm ==
  ASSUME DistinctTables, MarkersAreNoReports
  PROVE  WSpec => []NoFalseAlarm
<1>1. WInit => StandInv /\ CalmVerifier
  BY DEF WInit, VInit, Init, StandInv, PublishedRowsStand, CalmVerifier
<1>2. IInv /\ StandInv /\ CalmVerifier /\ [WNext]_wvars
        => (StandInv /\ CalmVerifier)'
  BY LoaderStep, StandStep, CalmVerifierStep DEF IInv
<1>3. CalmVerifier => NoFalseAlarm
  BY DEF CalmVerifier, NoFalseAlarm
<1>4. QED
  BY <1>1, <1>2, <1>3, LoaderInvariant, PTL DEF WSpec

-----------------------------------------------------------------------------
(* lakehouse-validate *)

\* What the documents of a dataset hold while nothing is loaded.
LEMMA PublishedDocument ==
  ASSUME MarkersAreNoReports, IInv, fresh,
         NEW k \in DocumentKinds, NEW d \in Datasets, NEW doc \in OnDisk(k, d)
  PROVE  /\ doc \notin {None, Torn}
         /\ d \in Empty =>
              ShapeMessages(k, doc)
                = {"distribution must be a non-empty array"}
         /\ d \notin Empty => ShapeMessages(k, doc) = {}
<1> DEFINE own == {e \in report : DatasetOf[e.file] = d}
<1>1. pc = "idle"
  BY DEF IInv, CoverInv
<1>2. croissant[d] = own /\ cdif[d] = own
  BY DEF IInv, LayersInv, PublishedLayersAgree
<1>3. doc = own
  BY <1>1, <1>2 DEF OnDisk, DocumentKinds
<1>4. own \in SUBSET Entry
  BY FreshManifest
<1>5. doc \notin {None, Torn}
  BY <1>3, <1>4 DEF MarkersAreNoReports
<1>6. FilesIn(report, d) = {e.file : e \in own}
  BY DEF FilesIn
<1>7. d \in Empty <=> {e.file : e \in own} = {}
  BY <1>6 DEF Empty
<1>8. ShapeMessages(k, own) =
        IF {e.file : e \in own} = {}
        THEN {"distribution must be a non-empty array"} ELSE {}
  BY DEF ShapeMessages, CroissantDocument, CdifDocument
<1>9. QED
  BY <1>3, <1>5, <1>7, <1>8

LEMMA CalmValidatorStep ==
  ASSUME MarkersAreNoReports
  PROVE  IInv /\ WTypeOK /\ CalmValidator /\ [WNext]_wvars => CalmValidator'
<1> SUFFICES ASSUME IInv, WTypeOK, CalmValidator, [WNext]_wvars, wcalm'
             PROVE  CalmValidator'
  BY DEF CalmValidator
<1>1. ASSUME wcalm, fresh', report' = report,
             UNCHANGED <<wpc, wds, documents, issues>>
      PROVE  CalmValidator'
  <2>1. Empty' = Empty /\ \A k \in DocumentKinds : ReadCount(k)' = ReadCount(k)
    BY <1>1 DEF Empty, ReadCount
  <2>2. IssuesExact /\ DocumentsExact /\ wpc' # "error"
    BY <1>1 DEF CalmValidator
  <2>3. IssuesExact'
    BY <1>1, <2>1, <2>2 DEF IssuesExact
  <2>4. \A k \in DocumentKinds :
          /\ documents'[k] = ReadCount(k)'
          /\ \A d \in Empty : d =< ReadCount(k)' =>
               \E i \in issues' : i.ds = d /\ i.kind = k
    BY <1>1, <2>1, <2>2 DEF DocumentsExact
  <2>5. DocumentsExact'
    BY <2>1, <2>4 DEF DocumentsExact
  <2>6. QED
    BY <1>1, <2>2, <2>3, <2>5 DEF CalmValidator
<1>2. CASE Next /\ BesideUnchanged
  <2>1. wcalm /\ fresh' /\ UNCHANGED <<wpc, wds, documents, issues>>
    BY <1>2 DEF BesideUnchanged, validator
  <2>2. fresh
    BY <2>1 DEF CalmValidator
  <2>3. report' = report
    BY <1>2, <2>1, <2>2, QuietStep
  <2>4. QED
    BY <1>1, <2>1, <2>3
<1>3. CASE VerifierRuns \/ UNCHANGED wvars
  <2>1. /\ UNCHANGED <<wcalm, wpc, wds, documents, issues>>
        /\ fresh' = fresh /\ report' = report
    BY <1>3 DEF VerifierRuns, Verifier, validator, ReadManifest,
       ReadManifestFails, CountTable, CountTableFails, SailFails,
       FinishVerify, wvars, vvars, vars
  <2>2. fresh
    BY <2>1 DEF CalmValidator
  <2>3. QED
    BY <1>1, <2>1, <2>2
<1>4. CASE OpenManifestFails
  <2>1. fresh /\ report \in {None, Torn}
    BY <1>4 DEF OpenManifestFails
  <2>2. QED
    BY <2>1, FreshManifest
<1>5. CASE OpenManifest
  <2>1. /\ wpc' = "croissant" /\ wds' = 1 /\ issues' = {}
        /\ documents' = [k \in DocumentKinds |-> 0]
        /\ fresh' = fresh /\ fresh
    BY <1>5 DEF OpenManifest, vvars, vars
  <2>2. \A k \in DocumentKinds : ReadCount(k)' = 0
    BY <2>1 DEF ReadCount
  <2>3. \A d \in Empty' : ~(d =< 0)
    BY DatasetsRange DEF Empty
  <2>4. IssuesExact'
    BY <2>1 DEF IssuesExact
  <2>5. DocumentsExact'
    BY <2>1, <2>2, <2>3 DEF DocumentsExact
  <2>6. QED
    BY <2>1, <2>4, <2>5 DEF CalmValidator
<1>6. CASE ReadDocument
  <2>1. /\ wpc \in DocumentKinds /\ NextDocument /\ wcalm
        /\ fresh' = fresh /\ report' = report
    BY <1>6 DEF ReadDocument, vvars, vars
  <2>2. fresh /\ wds \in Datasets /\ IssuesExact /\ DocumentsExact
    BY <2>1 DEF CalmValidator, WTypeOK
  <2>3. PICK doc \in OnDisk(wpc, wds), messages \in SUBSET Messages :
          /\ Note(messages)
          /\ doc \in {None, Torn} => documents' = documents
          /\ doc \notin {None, Torn} =>
               /\ documents' = [documents EXCEPT ![wpc] = @ + 1]
               /\ messages = ShapeMessages(wpc, doc)
    BY <1>6, ReadDocumentEffect
  <2>4. /\ documents' = [documents EXCEPT ![wpc] = @ + 1]
        /\ wds \in Empty =>
             messages = {"distribution must be a non-empty array"}
        /\ wds \notin Empty => messages = {}
    BY <2>1, <2>2, <2>3, PublishedDocument
  <2>5. /\ wpc' # "error"
        /\ ReadCount(wpc) = wds - 1
        /\ \A k \in DocumentKinds :
             ReadCount(k)' = IF k = wpc THEN ReadCount(k) + 1 ELSE ReadCount(k)
        /\ \A k \in DocumentKinds : ReadCount(k) \in 0..NumDatasets
    BY <2>1, <2>2, ReadCountStep
  <2>6. Empty' = Empty
    BY <2>1 DEF Empty
  <2>7. issues' = issues \union
          {[ds |-> wds, kind |-> wpc, message |-> m] : m \in messages}
    BY <2>3 DEF Note
  <2>8. ASSUME NEW i \in issues'
        PROVE  i.ds \in Empty
               /\ i.message = "distribution must be a non-empty array"
    <3>1. CASE i \in issues
      BY <2>2, <3>1 DEF IssuesExact
    <3>2. CASE i \notin issues
      <4>1. PICK m \in messages : i = [ds |-> wds, kind |-> wpc, message |-> m]
        BY <2>7, <2>8, <3>2
      <4>2. wds \in Empty /\ m = "distribution must be a non-empty array"
        BY <2>4, <4>1
      <4>3. QED
        BY <4>1, <4>2
    <3>3. QED
      BY <3>1, <3>2
  <2>9. ASSUME NEW k \in DocumentKinds
        PROVE  documents'[k] = ReadCount(k)'
    <3>1. documents[k] = ReadCount(k) /\ documents[wpc] = ReadCount(wpc)
      BY <2>1, <2>2 DEF DocumentsExact
    <3>2. documents \in [DocumentKinds -> 0..NumDatasets]
      BY DEF WTypeOK
    <3>3. documents'[k] = IF k = wpc THEN documents[k] + 1 ELSE documents[k]
      BY <2>1, <2>4, <3>2
    <3>4. QED
      BY <2>5, <3>1, <3>3
  <2>10. ASSUME NEW k \in DocumentKinds, NEW d \in Empty, d =< ReadCount(k)'
         PROVE  \E i \in issues' : i.ds = d /\ i.kind = k
    <3>1. CASE d =< ReadCount(k)
      BY <2>2, <2>7, <3>1 DEF DocumentsExact
    <3>2. CASE ~(d =< ReadCount(k))
      <4>1. k = wpc /\ d = wds
        BY <2>2, <2>5, <2>10, <3>2, DatasetsRange DEF Empty
      <4>2. [ds |-> wds, kind |-> wpc,
             message |-> "distribution must be a non-empty array"] \in issues'
        BY <2>4, <2>7, <2>10, <4>1
      <4>3. QED
        BY <4>1, <4>2
    <3>3. QED
      BY <3>1, <3>2
  <2>11. IssuesExact' /\ DocumentsExact'
    BY <2>6, <2>8, <2>9, <2>10 DEF IssuesExact, DocumentsExact
  <2>12. QED
    BY <2>1, <2>2, <2>5, <2>11 DEF CalmValidator
<1>7. QED
  BY <1>2, <1>3, <1>4, <1>5, <1>6 DEF WNext, Validator

\* A validation that no load has run into parses both documents of every
\* dataset, notes each dataset without files twice and nothing else.
THEOREM ValidatorIsExact ==
  ASSUME MarkersAreNoReports
  PROVE  WSpec => []ValidationExact
<1>1. WInit => CalmValidator
  BY DEF WInit, CalmValidator
<1>2. IInv /\ WTypeOK /\ CalmValidator /\ [WNext]_wvars => CalmValidator'
  BY CalmValidatorStep
<1>3. CalmValidator => ValidationExact
  <2>1. SUFFICES ASSUME CalmValidator, wcalm, wpc = "done"
                 PROVE  /\ \A d \in Empty, k \in DocumentKinds :
                             \E i \in issues : i.ds = d /\ i.kind = k
                        /\ \A k \in DocumentKinds : documents[k] = NumDatasets
    BY DEF CalmValidator, IssuesExact, ValidationExact
  <2>2. \A k \in DocumentKinds : ReadCount(k) = NumDatasets
    BY <2>1 DEF ReadCount
  <2>3. \A d \in Empty : d =< NumDatasets
    BY DatasetsRange DEF Empty
  <2>4. QED
    BY <2>1, <2>2, <2>3 DEF CalmValidator, DocumentsExact
<1>4. QED
  BY <1>1, <1>2, <1>3, LoaderInvariant, WTypeInvariant, PTL DEF WSpec
=============================================================================
