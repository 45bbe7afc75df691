------------------------- MODULE LakehouseValidate -------------------------
(***************************************************************************)
(* `lakehouse-validate` (validate_lakehouse_semantics, src/src/validation) *)
(* beside the loader: a process of its own that reads the manifest and     *)
(* then, dataset after dataset, the Croissant and the CDIF document the    *)
(* manifest names.  What it cannot use it notes and goes on; only a        *)
(* manifest it cannot read is an error.  The loader writes the documents   *)
(* and never waits for it.                                                 *)
(*                                                                         *)
(* A behaviour has this command or `lakehouse-verify` beside the loader:   *)
(* both only read, so neither can see whether the other one is there.      *)
(***************************************************************************)
EXTENDS LakehouseVerify

VARIABLES
  command,   \* the command that is run beside the loader
  wpc,       \* what the validator does next
  wds,       \* the dataset of the manifest it is at
  documents, \* how many documents of each kind it has parsed
  issues,    \* what it has noted: [ds, kind, message]
  wcalm      \* history: as vcalm

validator == <<wpc, wds, documents, issues>>
wvars     == <<vvars, command, validator, wcalm>>

DocumentKinds == {"croissant", "cdif"}
Messages      == {"cannot read document", "invalid JSON",
                  "distribution must be a non-empty array"}

WTypeOK ==
  /\ VTypeOK
  /\ command \in {"lakehouse-verify", "lakehouse-validate"}
  /\ wpc \in {"idle", "croissant", "cdif", "done", "error"}
  /\ wds \in Datasets
  /\ documents \in [DocumentKinds -> 0..NumDatasets]
  /\ issues \subseteq [ds : Datasets, kind : DocumentKinds, message : Messages]
  /\ wcalm \in BOOLEAN

WInit ==
  /\ VInit
  /\ command \in {"lakehouse-verify", "lakehouse-validate"}
  /\ wpc = "idle"
  /\ wds = 1
  /\ documents = [k \in DocumentKinds |-> 0]
  /\ issues = {}
  /\ wcalm = FALSE

-----------------------------------------------------------------------------
(* The documents *)

\* The Croissant document made of file reports: every file is in its
\* distribution, every typed table is a record set.
CroissantDocument(S) ==
  [distribution |-> {e.file : e \in S},
   recordSet    |-> {TableOf[e.file] : e \in {x \in S : Loaded(x)}}]

\* The CDIF document made of a Croissant document; the elements of a record
\* set are told apart by the record set only.
CdifDocument(c) ==
  [distribution |-> c.distribution, dataElement |-> c.recordSet]

\* What the file of a document holds for a reader: what was written last or,
\* while the loader is about to write it, perhaps a truncated file.
OnDisk(kind, d) ==
  {IF kind = "croissant" THEN croissant[d] ELSE cdif[d]} \union
    (IF pc = kind /\ ds = d THEN {Torn} ELSE {})

\* Mutant: the messages for the data elements of a dataset without tables.
ShapeMessagesOfTables(kind, S) ==
  LET c == CroissantDocument(S)
      members == IF kind = "croissant" THEN c.recordSet
                 ELSE CdifDocument(c).dataElement
  IN  IF members = {} THEN {"distribution must be a non-empty array"} ELSE {}

\* validate_croissant and validate_cdif: identifiers, types, context and
\* profiles are always there, the other arrays may be empty.
ShapeMessages(kind, S) ==
  LET c == CroissantDocument(S)
      members == IF kind = "croissant" THEN c.distribution
                 ELSE CdifDocument(c).distribution
  IN  IF members = {} THEN {"distribution must be a non-empty array"} ELSE {}

-----------------------------------------------------------------------------
(* The validator *)

OpenManifest ==
  /\ command = "lakehouse-validate"
  /\ wpc \notin DocumentKinds
  /\ report \notin {None, Torn}
  /\ wpc' = "croissant"
  /\ wds' = 1
  /\ documents' = [k \in DocumentKinds |-> 0]
  /\ issues' = {}
  /\ wcalm' = fresh
  /\ UNCHANGED <<vvars, command>>

OpenManifestFails ==
  /\ command = "lakehouse-validate"
  /\ wpc \notin DocumentKinds
  /\ report \in {None, Torn}
  /\ wpc' = "error"
  /\ wds' = 1
  /\ documents' = [k \in DocumentKinds |-> 0]
  /\ issues' = {}
  /\ wcalm' = fresh
  /\ UNCHANGED <<vvars, command>>

\* The CDIF document follows the Croissant document of the same dataset.
NextDocument ==
  \/ wpc = "croissant" /\ wpc' = "cdif" /\ wds' = wds
  \/ wpc = "cdif" /\ wds < NumDatasets /\ wpc' = "croissant" /\ wds' = wds + 1
  \/ wpc = "cdif" /\ wds = NumDatasets /\ wpc' = "done" /\ wds' = wds

Note(messages) ==
  issues' = issues \union {[ds |-> wds, kind |-> wpc, message |-> m] :
                             m \in messages}

\* Mutant: the rest of the dataset is skipped after an unusable document.
ReadDocumentGivesUp ==
  /\ wpc \in DocumentKinds
  /\ \E doc \in OnDisk(wpc, wds) :
       IF doc \in {None, Torn}
       THEN /\ Note({IF doc = None THEN "cannot read document"
                     ELSE "invalid JSON"})
            /\ UNCHANGED <<documents, wpc, wds>>
       ELSE /\ documents' = [documents EXCEPT ![wpc] = @ + 1]
            /\ Note(ShapeMessages(wpc, doc))
            /\ NextDocument
  /\ UNCHANGED <<vvars, command, wcalm>>

\* validate_json_file
ReadDocument ==
  /\ wpc \in DocumentKinds
  /\ \E doc \in OnDisk(wpc, wds) :
       IF doc \in {None, Torn}
       THEN /\ Note({IF doc = None THEN "cannot read document"
                     ELSE "invalid JSON"})
            /\ UNCHANGED documents
       ELSE /\ documents' = [documents EXCEPT ![wpc] = @ + 1]
            /\ Note(ShapeMessages(wpc, doc))
  /\ NextDocument
  /\ UNCHANGED <<vvars, command, wcalm>>

Validator == OpenManifest \/ OpenManifestFails \/ ReadDocument

-----------------------------------------------------------------------------

BesideUnchanged ==
  /\ vcalm' = (vcalm /\ fresh')
  /\ wcalm' = (wcalm /\ fresh')
  /\ UNCHANGED <<verifier, command, validator>>

VerifierRuns ==
  /\ command = "lakehouse-verify"
  /\ Verifier
  /\ UNCHANGED <<command, validator, wcalm>>

VerifierGoesOn ==
  /\ command = "lakehouse-verify"
  /\ VerifierCounts
  /\ UNCHANGED <<command, validator, wcalm>>

WNext ==
  \/ Next /\ BesideUnchanged
  \/ VerifierRuns
  \/ Validator

WSpec == WInit /\ [][WNext]_wvars

\* Each process goes on with what it has begun: none of them waits for
\* another one.  Nobody has to start a load or a command.
WFairSpec ==
  /\ WSpec
  /\ WF_wvars(Progress /\ BesideUnchanged)
  /\ WF_wvars(VerifierGoesOn)
  /\ WF_wvars(ReadDocument)

-----------------------------------------------------------------------------
(* Properties *)

\* Datasets of the manifest no file was selected of.
Empty == {d \in Datasets : FilesIn(report, d) = {}}

\* A validation is exact as long as no load was started since the manifest was
\* written: it parses two documents for each dataset, and what it notes is that
\* a dataset without files has no distribution, and nothing else.
ValidationExact ==
  wcalm =>
    /\ wpc # "error"
    /\ \A i \in issues :
         i.ds \in Empty /\ i.message = "distribution must be a non-empty array"
    /\ wpc = "done" =>
         /\ \A d \in Empty, k \in DocumentKinds :
              \E i \in issues : i.ds = d /\ i.kind = k
         /\ \A k \in DocumentKinds : documents[k] = NumDatasets

\* A validation ends, even while loads go on rewriting the documents.
ValidationEnds == wpc \in DocumentKinds ~> wpc \notin DocumentKinds
=============================================================================
