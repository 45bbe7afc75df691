--------------------------- MODULE LakehouseLoad ---------------------------
(***************************************************************************)
(* The `lakehouse-load` command (src/src/lakehouse): one loader process    *)
(* that fetches every file of every dataset, prepares a tabular copy of    *)
(* it, replaces the file's typed table in Sail chunk by chunk, writes the  *)
(* semantic sidecars and the catalog tables, and last the manifest         *)
(* `load-report.json`.  The process may stop at any step (an error carried *)
(* by `?`, a kill, a power failure) and may be run again; the repository   *)
(* it downloads from may publish another listing of a dataset's files at   *)
(* any time.                                                               *)
(*                                                                         *)
(* A file's contents are abstracted to the number of its lines, the header *)
(* included: 0 is a zero-length file and 1 a header without rows.  A       *)
(* prepared copy also says whose file it was made from and, when it was    *)
(* cut off inside a line, whether what is left of that line is still       *)
(* UTF-8; a table says of which prepared copy it holds the first rows.     *)
(***************************************************************************)
EXTENDS Integers, Sequences, FiniteSets

CONSTANTS
  NumDatasets,  \* the specs are loaded in the order 1, 2, ..., NumDatasets
  Files,        \* Dataverse file ids, of all datasets and all their versions
  DatasetOf,    \* the dataset a file belongs to
  Listings,     \* the sequences of files a dataset may list, by dataset
  Kind,         \* how normalize_tabular_file treats the file
  Lines,        \* the file's length in lines
  SheetLines,   \* the lines normalize_tabular_file makes of a workbook or a
                \* constants table; none, of a workbook whose sheet is empty
  NonAscii,     \* the lines of the tabular copy that are not plain ASCII
  Unreadable,   \* the first line of a CSV file that is not UTF-8, or the line
                \* before which the conversion of another file breaks off
                \* (1, when a workbook cannot be opened); 0 for no such line
  Slots,        \* paths under prepared/
  SlotOf,       \* the path under prepared/ the file's name is mapped to
  Tables,       \* names of typed tables
  TableOf,      \* the table the dataset's id and the file's name are mapped to
  MaxFiles,     \* --max-files-per-dataset
  ChunkRows,    \* ROWS_PER_SAIL_CHUNK
  SampleRows,   \* how many records infer_typed_columns looks at
  MaxFaults,    \* bound on crashes, failures and new listings in a behaviour
  None,         \* no such file, no such table
  Torn          \* a manifest that was truncated and not yet rewritten

Datasets == 1..NumDatasets
Kinds    == {"copied", "rewritten", "asset"}
Elements(s) == {s[i] : i \in DOMAIN s}

ASSUME ConstantsAssumption ==
  /\ NumDatasets \in Nat \ {0}
  /\ DatasetOf \in [Files -> Datasets]
  /\ Kind \in [Files -> Kinds]
  /\ Lines \in [Files -> Nat]
  /\ SheetLines \in [Files -> Nat]
  /\ NonAscii \in [Files -> SUBSET (Nat \ {0})]
  /\ Unreadable \in [Files -> Nat]
  /\ SlotOf \in [Files -> Slots]
  /\ TableOf \in [Files -> Tables]
  /\ MaxFiles \in Nat
  /\ ChunkRows \in Nat \ {0}
  /\ SampleRows \in Nat
  /\ MaxFaults \in Nat

\* A line that is not UTF-8 is not ASCII, and is a line of the file; a
\* conversion breaks off before its last line or when it has been written.
ASSUME UnreadableAssumption ==
  \A f \in Files :
    IF Kind[f] = "rewritten"
    THEN Unreadable[f] =< SheetLines[f] + 1
    ELSE Unreadable[f] # 0 => /\ Unreadable[f] =< Lines[f]
                             /\ Unreadable[f] \in NonAscii[f]

\* Dataverse gives each file of a listing an id of its own.
ASSUME ListingsAssumption ==
  \A d \in Datasets :
    /\ Listings[d] # {}
    /\ \A l \in Listings[d] :
         /\ l \in Seq(Files)
         /\ \A i \in 1..Len(l) : DatasetOf[l[i]] = d
         /\ \A i, j \in 1..Len(l) : l[i] = l[j] => i = j

Statuses == {"typed_table_loaded", "empty_tabular_file",
             "non_tabular_asset_downloaded", "download_failed"}

\* A LakehouseFileReport.  Its table is TableOf[file] when the status is
\* "typed_table_loaded" and None otherwise; rows is 0 when there is no table.
Entry    == [file : Files, status : Statuses, size : Nat, rows : Nat]

\* A prepared copy ends with a line ("whole"), inside a line ("cut") or inside
\* a character of a line ("split"); lines counts that line as well.
Ends     == {"whole", "cut", "split"}
Prepared == [of : Files, lines : Nat, end : Ends]
Table    == [of : Prepared, rows : Nat]

ASSUME NoneAssumption ==
  /\ None \notin Nat
  /\ None \notin Prepared
  /\ None \notin Table
  /\ Torn # None

CatalogTables == <<"lakehouse_datasets", "lakehouse_files",
                   "lakehouse_columns">>

Phases == {"idle", "resolve", "file", "downloading", "normalize", "preparing",
           "infer", "drop", "chunk", "count", "croissant", "cdif",
           "drop_catalog", "create_catalog", "publish", "publishing"}

VARIABLES
  listing,    \* what the repository lists for each dataset now
  raw,        \* raw/<id>_<name>, in lines
  tmp,        \* raw/<id>_<name>.download, in lines
  prepared,   \* prepared/<stem>/data.*
  table,      \* typed tables in Sail
  croissant,  \* semantic/croissant.json: the file reports it was made from
  cdif,       \* semantic/cdif.json: likewise
  catalog,    \* the three catalog tables: the file reports they list
  report,     \* manifest/load-report.json: the file reports it lists
  pc,         \* what the loader does next
  ds,         \* the spec being loaded
  todo,       \* selected files of that spec not yet reported
  reports,    \* file reports made by this load
  pos,        \* rows of the prepared file already read into chunks
  created,    \* stage_and_write_chunk's `created`
  ci,         \* the catalog table being replaced
  fresh,      \* history: no load was started since the manifest was written
  faults      \* history: crashes, failures and new listings so far

env     == <<listing, faults>>
disk    == <<raw, tmp, prepared>>
sidecar == <<croissant, cdif>>
loader  == <<ds, todo, reports, pos, created, ci>>
vars    == <<listing, raw, tmp, prepared, table, croissant, cdif, catalog,
             report, pc, ds, todo, reports, pos, created, ci, fresh, faults>>

TypeOK ==
  /\ listing \in [Datasets -> UNION {Listings[d] : d \in Datasets}]
  /\ raw \in [Files -> Nat \union {None}]
  /\ tmp \in [Files -> Nat \union {None}]
  /\ prepared \in [Slots -> Prepared \union {None}]
  /\ table \in [Tables -> Table \union {None}]
  /\ croissant \in [Datasets -> {None, Torn} \union SUBSET Entry]
  /\ cdif \in [Datasets -> {None, Torn} \union SUBSET Entry]
  /\ catalog \in [1..3 -> {None} \union SUBSET Entry]
  /\ report \in {None, Torn} \union SUBSET Entry
  /\ pc \in Phases
  /\ ds \in Datasets
  /\ todo \in Seq(Files)
  /\ reports \in SUBSET Entry
  /\ pos \in Nat
  /\ created \in BOOLEAN
  /\ ci \in 1..3
  /\ fresh \in BOOLEAN
  /\ faults \in 0..MaxFaults

Init ==
  /\ listing \in [Datasets -> UNION {Listings[d] : d \in Datasets}]
  /\ \A d \in Datasets : listing[d] \in Listings[d]
  /\ raw = [f \in Files |-> None]
  /\ tmp = [f \in Files |-> None]
  /\ prepared = [s \in Slots |-> None]
  /\ table = [t \in Tables |-> None]
  /\ croissant = [d \in Datasets |-> None]
  /\ cdif = [d \in Datasets |-> None]
  /\ catalog = [c \in 1..3 |-> None]
  /\ report = None
  /\ pc = "idle"
  /\ ds = 1
  /\ todo = <<>>
  /\ reports = {}
  /\ pos = 0
  /\ created = FALSE
  /\ ci = 1
  /\ fresh = FALSE
  /\ faults = 0

-----------------------------------------------------------------------------
(* Helpers *)

Fault   == faults < MaxFaults /\ faults' = faults + 1

Selected(l) == SubSeq(l, 1, IF MaxFiles < Len(l) THEN MaxFiles ELSE Len(l))

\* The loader takes the next file, or leaves the loop over the files.
Continue(rest) == IF rest = <<>> THEN "croissant" ELSE "file"

ReportsOf(d) == {e \in reports : DatasetOf[e.file] = d}

\* Mutant: the file stays at the head of the list.
ReportFileAgain(status, size, rows) ==
  /\ reports' = reports \union {[file |-> Head(todo), status |-> status,
                                 size |-> size, rows |-> rows]}
  /\ pc' = Continue(todo)
  /\ pos' = 0
  /\ created' = FALSE
  /\ UNCHANGED <<ds, todo, ci>>

\* The end of load_one_file: the caller pushes the report and goes on.
ReportFile(status, size, rows) ==
  /\ reports' = reports \union {[file |-> Head(todo), status |-> status,
                                 size |-> size, rows |-> rows]}
  /\ todo' = Tail(todo)
  /\ pc' = Continue(Tail(todo))
  /\ pos' = 0
  /\ created' = FALSE
  /\ UNCHANGED <<ds, ci>>

\* The process forgets everything when it ends, whatever the reason.
Exit ==
  /\ pc' = "idle"
  /\ ds' = 1
  /\ todo' = <<>>
  /\ reports' = {}
  /\ pos' = 0
  /\ created' = FALSE
  /\ ci' = 1

HasContents(f) == raw[f] # None /\ raw[f] # 0

-----------------------------------------------------------------------------
(* The repository *)

Republish(d) ==
  /\ Fault
  /\ \E l \in Listings[d] :
       /\ l # listing[d]
       /\ listing' = [listing EXCEPT ![d] = l]
  /\ UNCHANGED <<disk, table, sidecar, catalog, report, pc, loader, fresh>>

-----------------------------------------------------------------------------
(* load_lakehouse and load_one_dataset *)

StartLoad ==
  /\ pc = "idle"
  /\ pc' = "resolve"
  /\ fresh' = FALSE
  /\ UNCHANGED <<env, disk, table, sidecar, catalog, report, loader>>

Resolve ==
  /\ pc = "resolve"
  /\ todo' = Selected(listing[ds])
  /\ pc' = Continue(Selected(listing[ds]))
  /\ UNCHANGED <<env, disk, table, sidecar, catalog, report, fresh,
                 ds, reports, pos, created, ci>>

-----------------------------------------------------------------------------
(* download_if_missing *)

SkipDownload ==
  /\ pc = "file"
  /\ HasContents(Head(todo))
  /\ pc' = "normalize"
  /\ UNCHANGED <<env, disk, table, sidecar, catalog, report, loader, fresh>>

\* Mutant: a file that cannot be downloaded is left out of the report.
RequestFailsSilently ==
  /\ Fault
  /\ pc = "file"
  /\ ~HasContents(Head(todo))
  /\ todo' = Tail(todo)
  /\ pc' = Continue(Tail(todo))
  /\ UNCHANGED <<listing, disk, table, sidecar, catalog, report, fresh, ds,
                 reports, pos, created, ci>>

\* The request could not be sent, or was answered with an error status.
RequestFails ==
  /\ Fault
  /\ pc = "file"
  /\ ~HasContents(Head(todo))
  /\ ReportFile("download_failed", 0, 0)
  /\ UNCHANGED <<listing, disk, table, sidecar, catalog, report, fresh>>

\* Mutant: the old table is dropped before the new file is there.
BeginDownloadDropping ==
  /\ pc = "file"
  /\ ~HasContents(Head(todo))
  /\ tmp' = [tmp EXCEPT ![Head(todo)] = 0]
  /\ table' = [table EXCEPT ![TableOf[Head(todo)]] = None]
  /\ pc' = "downloading"
  /\ UNCHANGED <<env, raw, prepared, sidecar, catalog, report, loader, fresh>>

\* Mutant: the temporary file is opened with create_new.
BeginDownloadExclusive ==
  /\ pc = "file"
  /\ ~HasContents(Head(todo))
  /\ \/ /\ tmp[Head(todo)] = None
        /\ tmp' = [tmp EXCEPT ![Head(todo)] = 0]
        /\ pc' = "downloading"
        /\ UNCHANGED loader
     \/ /\ tmp[Head(todo)] # None
        /\ ReportFile("download_failed", 0, 0)
        /\ UNCHANGED tmp
  /\ UNCHANGED <<env, raw, prepared, table, sidecar, catalog, report, fresh>>

BeginDownload ==
  /\ pc = "file"
  /\ ~HasContents(Head(todo))
  /\ tmp' = [tmp EXCEPT ![Head(todo)] = 0]
  /\ pc' = "downloading"
  /\ UNCHANGED <<env, raw, prepared, table, sidecar, catalog, report,
                 loader, fresh>>

\* Mutant: the body is written to the file itself.
ReceiveLineInPlace ==
  /\ pc = "downloading"
  /\ tmp[Head(todo)] < Lines[Head(todo)]
  /\ tmp' = [tmp EXCEPT ![Head(todo)] = @ + 1]
  /\ raw' = [raw EXCEPT ![Head(todo)] = tmp[Head(todo)] + 1]
  /\ UNCHANGED <<env, prepared, table, sidecar, catalog, report, pc, loader,
                 fresh>>

ReceiveLine ==
  /\ pc = "downloading"
  /\ tmp[Head(todo)] < Lines[Head(todo)]
  /\ tmp' = [tmp EXCEPT ![Head(todo)] = @ + 1]
  /\ UNCHANGED <<env, raw, prepared, table, sidecar, catalog, report, pc,
                 loader, fresh>>

\* Reading the body fails; the temporary file is left behind.
ReceiveFails ==
  /\ Fault
  /\ pc = "downloading"
  /\ ReportFile("download_failed", 0, 0)
  /\ UNCHANGED <<listing, disk, table, sidecar, catalog, report, fresh>>

FinishDownload ==
  /\ pc = "downloading"
  /\ tmp[Head(todo)] = Lines[Head(todo)]
  /\ raw' = [raw EXCEPT ![Head(todo)] = tmp[Head(todo)]]
  /\ tmp' = [tmp EXCEPT ![Head(todo)] = None]
  /\ pc' = "normalize"
  /\ UNCHANGED <<env, prepared, table, sidecar, catalog, report, loader,
                 fresh>>

-----------------------------------------------------------------------------
(* normalize_tabular_file *)

\* Mutant: CODATA and XLSX files are kept as well.
PreparedIsKeptAlways(f) ==
  /\ prepared[SlotOf[f]] # None
  /\ prepared[SlotOf[f]].lines # 0

\* prepared_copy keeps a non-empty copy; CODATA and XLSX are always rewritten.
PreparedIsKept(f) ==
  /\ Kind[f] = "copied"
  /\ prepared[SlotOf[f]] # None
  /\ prepared[SlotOf[f]].lines # 0

NormalizeAsset ==
  /\ pc = "normalize"
  /\ Kind[Head(todo)] = "asset"
  /\ ReportFile("non_tabular_asset_downloaded", raw[Head(todo)], 0)
  /\ UNCHANGED <<env, disk, table, sidecar, catalog, report, fresh>>

KeepPrepared ==
  /\ pc = "normalize"
  /\ PreparedIsKept(Head(todo))
  /\ pc' = "infer"
  /\ UNCHANGED <<env, disk, table, sidecar, catalog, report, loader, fresh>>

\* The next line of a workbook or of a constants table cannot be converted.
ConversionStops(written) ==
  /\ Kind[Head(todo)] = "rewritten"
  /\ Unreadable[Head(todo)] = written + 1

\* fs::copy and csv::Writer::from_path truncate the file before they write.
BeginPrepare ==
  /\ pc = "normalize"
  /\ Kind[Head(todo)] # "asset"
  /\ ~PreparedIsKept(Head(todo))
  /\ ~ConversionStops(0)
  /\ prepared' = [prepared EXCEPT ![SlotOf[Head(todo)]] =
                     [of |-> Head(todo), lines |-> 0, end |-> "whole"]]
  /\ pc' = "preparing"
  /\ UNCHANGED <<env, raw, tmp, table, sidecar, catalog, report, loader,
                 fresh>>

LinesToWrite ==
  IF Kind[Head(todo)] = "rewritten" THEN SheetLines[Head(todo)]
                                    ELSE raw[Head(todo)]

WritePrepared ==
  /\ pc = "preparing"
  /\ prepared[SlotOf[Head(todo)]].lines < LinesToWrite
  /\ ~ConversionStops(prepared[SlotOf[Head(todo)]].lines)
  /\ prepared' = [prepared EXCEPT ![SlotOf[Head(todo)]].lines = @ + 1]
  /\ UNCHANGED <<env, raw, tmp, table, sidecar, catalog, report, pc,
                 loader, fresh>>

FinishPrepare ==
  /\ pc = "preparing"
  /\ prepared[SlotOf[Head(todo)]].lines = LinesToWrite
  /\ ~ConversionStops(prepared[SlotOf[Head(todo)]].lines)
  /\ pc' = "infer"
  /\ UNCHANGED <<env, disk, table, sidecar, catalog, report, loader, fresh>>

\* The `?` behind a workbook that cannot be opened (nothing is written yet) or
\* a line of the constants table that is not text: the load ends.
ConversionFails ==
  /\ \/ pc = "normalize" /\ ConversionStops(0)
     \/ pc = "preparing" /\ ConversionStops(prepared[SlotOf[Head(todo)]].lines)
  /\ Exit
  /\ UNCHANGED <<env, disk, table, sidecar, catalog, report, fresh>>

-----------------------------------------------------------------------------
(* The rest of load_one_file: infer, drop, materialize in chunks, count *)

\* No csv reader gets past a line that is not UTF-8: one of the file itself,
\* or the last one of a copy that stopped inside a character.
BadLine(p, i) ==
  IF i = p.lines /\ p.end # "whole"
  THEN p.end = "split"
  ELSE Kind[p.of] = "copied" /\ i = Unreadable[p.of]

BadAmong(p, first, last) == \E i \in first..last : i =< p.lines /\ BadLine(p, i)

SampleIsBad ==
  BadAmong(prepared[SlotOf[Head(todo)]], 1, 1 + SampleRows)

\* infer_typed_columns finds no column only in a file without a header.
InferNothing ==
  /\ pc = "infer"
  /\ prepared[SlotOf[Head(todo)]].lines = 0
  /\ ReportFile("empty_tabular_file", raw[Head(todo)], 0)
  /\ UNCHANGED <<env, disk, table, sidecar, catalog, report, fresh>>

InferColumns ==
  /\ pc = "infer"
  /\ prepared[SlotOf[Head(todo)]].lines # 0
  /\ ~SampleIsBad
  /\ pc' = "drop"
  /\ UNCHANGED <<env, disk, table, sidecar, catalog, report, loader, fresh>>

\* The header or a record of the sample cannot be read: the load ends.
InferFails ==
  /\ pc = "infer"
  /\ SampleIsBad
  /\ Exit
  /\ UNCHANGED <<env, disk, table, sidecar, catalog, report, fresh>>

DropTable ==
  /\ pc = "drop"
  /\ table' = [table EXCEPT ![TableOf[Head(todo)]] = None]
  /\ pc' = "chunk"
  /\ UNCHANGED <<env, disk, sidecar, catalog, report, loader, fresh>>

RowsLeft == prepared[SlotOf[Head(todo)]].lines - 1 - pos

\* Row n of a prepared copy is its line n + 1.
ChunkIsBad ==
  BadAmong(prepared[SlotOf[Head(todo)]], pos + 2, pos + 1 + ChunkRows)

\* stage_and_write_chunk with n rows: CREATE TABLE AS the first time, which
\* Sail refuses when the table exists, INSERT afterwards; nothing when there
\* are no rows and the table was created.
WriteChunk(n) ==
  LET t == TableOf[Head(todo)]
  IN  /\ created \/ table[t] = None
      /\ table' = IF created
                  THEN IF n = 0
                       THEN table
                       ELSE [table EXCEPT ![t] =
                               [of |-> @.of, rows |-> @.rows + n]]
                  ELSE [table EXCEPT ![t] =
                          [of |-> prepared[SlotOf[Head(todo)]], rows |-> n]]
      /\ created' = TRUE
      /\ pos' = pos + n

FullChunk ==
  /\ pc = "chunk"
  /\ RowsLeft >= ChunkRows
  /\ ~ChunkIsBad
  /\ WriteChunk(ChunkRows)
  /\ UNCHANGED <<env, disk, sidecar, catalog, report, fresh, pc, ds, todo,
                 reports, ci>>

\* Mutant: the rows after the last full chunk are not written.
LastChunkForgotten ==
  /\ pc = "chunk"
  /\ RowsLeft < ChunkRows
  /\ ~ChunkIsBad
  /\ WriteChunk(0)
  /\ pc' = "count"
  /\ UNCHANGED <<env, disk, sidecar, catalog, report, fresh, ds, todo,
                 reports, ci>>

LastChunk ==
  /\ pc = "chunk"
  /\ RowsLeft < ChunkRows
  /\ ~ChunkIsBad
  /\ WriteChunk(RowsLeft)
  /\ pc' = "count"
  /\ UNCHANGED <<env, disk, sidecar, catalog, report, fresh, ds, todo,
                 reports, ci>>

\* A record past the sample cannot be read: the load ends, the old table is
\* dropped and the new one, if a chunk was written, stays as far as it got.
ChunkFails ==
  /\ pc = "chunk"
  /\ ChunkIsBad
  /\ Exit
  /\ UNCHANGED <<env, disk, table, sidecar, catalog, report, fresh>>

\* Mutant: the header is counted as well.
CountLines ==
  /\ pc = "count"
  /\ ReportFile("typed_table_loaded", raw[Head(todo)],
                table[TableOf[Head(todo)]].rows + 1)
  /\ UNCHANGED <<env, disk, table, sidecar, catalog, report, fresh>>

CountRows ==
  /\ pc = "count"
  /\ ReportFile("typed_table_loaded", raw[Head(todo)],
                table[TableOf[Head(todo)]].rows)
  /\ UNCHANGED <<env, disk, table, sidecar, catalog, report, fresh>>

-----------------------------------------------------------------------------
(* The end of load_one_dataset, the catalog and the manifest *)

\* Mutant: only files with a table are described.
WriteCroissantOfTables ==
  /\ pc = "croissant"
  /\ croissant' = [croissant EXCEPT ![ds] =
                     {e \in ReportsOf(ds) : e.status = "typed_table_loaded"}]
  /\ pc' = "cdif"
  /\ UNCHANGED <<env, disk, table, cdif, catalog, report, loader, fresh>>

WriteCroissant ==
  /\ pc = "croissant"
  /\ croissant' = [croissant EXCEPT ![ds] = ReportsOf(ds)]
  /\ pc' = "cdif"
  /\ UNCHANGED <<env, disk, table, cdif, catalog, report, loader, fresh>>

WriteCdif ==
  /\ pc = "cdif"
  /\ cdif' = [cdif EXCEPT ![ds] = ReportsOf(ds)]
  /\ IF ds < NumDatasets
     THEN ds' = ds + 1 /\ pc' = "resolve"
     ELSE ds' = ds /\ pc' = "drop_catalog"
  /\ UNCHANGED <<env, disk, table, croissant, catalog, report, fresh,
                 todo, reports, pos, created, ci>>

DropCatalogTable ==
  /\ pc = "drop_catalog"
  /\ catalog' = [catalog EXCEPT ![ci] = None]
  /\ pc' = "create_catalog"
  /\ UNCHANGED <<env, disk, table, sidecar, report, loader, fresh>>

\* Mutant: the loop over the catalog tables runs once too often.
CreateCatalogTablePastEnd ==
  /\ pc = "create_catalog"
  /\ catalog' = [catalog EXCEPT ![ci] = reports]
  /\ IF ci <= Len(CatalogTables)
     THEN ci' = ci + 1 /\ pc' = "drop_catalog"
     ELSE ci' = ci /\ pc' = "publish"
  /\ UNCHANGED <<env, disk, table, sidecar, report, fresh, ds, todo,
                 reports, pos, created>>

CreateCatalogTable ==
  /\ pc = "create_catalog"
  /\ catalog' = [catalog EXCEPT ![ci] = reports]
  /\ IF ci < Len(CatalogTables)
     THEN ci' = ci + 1 /\ pc' = "drop_catalog"
     ELSE ci' = ci /\ pc' = "publish"
  /\ UNCHANGED <<env, disk, table, sidecar, report, fresh, ds, todo,
                 reports, pos, created>>

\* fs::write truncates the manifest and then writes it.
BeginPublish ==
  /\ pc = "publish"
  /\ report' = Torn
  /\ pc' = "publishing"
  /\ UNCHANGED <<env, disk, table, sidecar, catalog, loader, fresh>>

FinishPublish ==
  /\ pc = "publishing"
  /\ report' = reports
  /\ fresh' = TRUE
  /\ Exit
  /\ UNCHANGED <<env, disk, table, sidecar, catalog>>

\* What a step that is cut short may leave of the file it was writing: a
\* truncated sidecar, or one more line of the prepared copy, cut off somewhere
\* inside, where fs::copy or the csv writer got to.
TornFile ==
  \/ UNCHANGED <<prepared, sidecar>>
  \/ /\ pc = "croissant"
     /\ croissant' = [croissant EXCEPT ![ds] = Torn]
     /\ UNCHANGED <<prepared, cdif>>
  \/ /\ pc = "cdif"
     /\ cdif' = [cdif EXCEPT ![ds] = Torn]
     /\ UNCHANGED <<prepared, croissant>>
  \/ /\ pc = "preparing"
     /\ LET p == prepared[SlotOf[Head(todo)]]
            n == p.lines + 1
        IN  /\ n =< LinesToWrite
            /\ \E end \in {"cut", "split"} :
                 /\ end = "split" => n \in NonAscii[Head(todo)]
                 /\ prepared' = [prepared EXCEPT ![SlotOf[Head(todo)]] =
                                   [of |-> p.of, lines |-> n, end |-> end]]
     /\ UNCHANGED sidecar

\* An error carried by `?` out of load_lakehouse, or a crash: whatever the
\* load did so far to the disk and to Sail stays as it is.
Abort ==
  /\ Fault
  /\ pc # "idle"
  /\ Exit
  /\ TornFile
  /\ UNCHANGED <<listing, raw, tmp, table, catalog, report, fresh>>

-----------------------------------------------------------------------------

\* What the loader does by itself with the files as they are: all its steps
\* but those that something around it makes fail.
Progress ==
  \/ Resolve
  \/ SkipDownload \/ BeginDownload \/ ReceiveLine \/ FinishDownload
  \/ NormalizeAsset \/ KeepPrepared
  \/ BeginPrepare \/ WritePrepared \/ FinishPrepare
  \/ InferNothing \/ InferColumns \/ DropTable
  \/ FullChunk \/ LastChunk \/ CountRows
  \/ ConversionFails \/ InferFails \/ ChunkFails
  \/ WriteCroissant \/ WriteCdif
  \/ DropCatalogTable \/ CreateCatalogTable
  \/ BeginPublish \/ FinishPublish

DownloadFails == RequestFails \/ ReceiveFails

Next ==
  \/ StartLoad
  \/ Progress
  \/ DownloadFails
  \/ Abort
  \/ \E d \in Datasets : Republish(d)

Spec == Init /\ [][Next]_vars

-----------------------------------------------------------------------------
(* Properties *)

Loaded(e) == e.status = "typed_table_loaded"

\* The files of dataset d among the file reports S.
FilesIn(S, d) == {e.file : e \in {x \in S : DatasetOf[x.file] = d}}

\* A raw file is never seen half-downloaded, whenever the process stops: the
\* body goes to a temporary file that is renamed when it is complete, so the
\* "already there" test of download_if_missing can trust what it finds.
RawNeverPartial == \A f \in Files : raw[f] \in {None, Lines[f]}

\* Chunking loses and repeats no row of the prepared file, whatever was left
\* in Sail by an earlier load and wherever the last chunk boundary falls.
ChunksExact ==
  pc = "count" =>
    LET p == prepared[SlotOf[Head(todo)]]
    IN  table[TableOf[Head(todo)]] = [of |-> p, rows |-> p.lines - 1]

\* No two files that may be loaded together are mapped to one table name.
\* safe_sql_name does not ensure it: "b 1.csv" and "b-1.csv" share a table.
DistinctTables ==
  /\ \A d \in Datasets : \A l \in Listings[d] : \A f, g \in Elements(l) :
       TableOf[f] = TableOf[g] => f = g
  /\ \A f, g \in Files : TableOf[f] = TableOf[g] => DatasetOf[f] = DatasetOf[g]

\* What lakehouse-verify relies on: until another load is started, every
\* table the manifest names exists with the row count the manifest gives.
PublishedRowsStand ==
  fresh => \A e \in report :
             Loaded(e) => /\ table[TableOf[e.file]] # None
                          /\ table[TableOf[e.file]].rows = e.rows

\* Until another load is started, the manifest, the three catalog tables and
\* the two sidecars of every dataset describe the same files.
PublishedLayersAgree ==
  fresh => /\ \A c \in 1..3 : catalog[c] = report
           /\ \A d \in Datasets :
                LET own == {e \in report : DatasetOf[e.file] = d}
                IN  croissant[d] = own /\ cdif[d] = own

\* A manifest reports each selected file of one listing of every dataset, once:
\* no file is skipped when another fails, and two listings are never mixed.
ReportCoversListing ==
  report \notin {None, Torn} =>
    /\ \A e1, e2 \in report : e1.file = e2.file => e1 = e2
    /\ \A d \in Datasets : \E l \in Listings[d] :
         FilesIn(report, d) = Elements(Selected(l))

\* The tabular copy of a file as normalize_tabular_file makes it, to the end.
WholeCopy(f) ==
  [of |-> f, end |-> "whole",
   lines |-> IF Kind[f] = "rewritten" THEN SheetLines[f] ELSE Lines[f]]

HoldsItsFile(e) ==
  LET p == WholeCopy(e.file)
  IN  table[TableOf[e.file]] = [of |-> p, rows |-> p.lines - 1]

\* The table published for a file holds that file's rows, all of them.
\* Code that keeps an earlier copy under prepared/ does not ensure it.
PublishedTablesExact == fresh => \A e \in report : Loaded(e) => HoldsItsFile(e)

\* It does for the formats whose prepared file is rewritten by every load.
RewrittenTablesExact ==
  fresh => \A e \in report :
             Loaded(e) /\ Kind[e.file] = "rewritten" => HoldsItsFile(e)

\* A file of table t was downloaded to the end and its prepared copy has a
\* header and a sample that can be read.
Replaceable(t) ==
  \E f \in Files :
    LET p == prepared[SlotOf[f]]
    IN  /\ TableOf[f] = t
        /\ raw[f] = Lines[f]
        /\ p # None
        /\ p.lines > 0
        /\ ~BadAmong(p, 1, 1 + SampleRows)

\* A table is only dropped when there is a file to replace it with: a failed
\* download, an empty file and an unreadable sample leave the old table in
\* place.  An unreadable record further down is met after the drop.
DroppedOnlyToReplace ==
  [][\A t \in Tables :
       table[t] # None /\ table'[t] = None => Replaceable(t)]_vars

\* Every load ends, whatever it finds left by earlier ones.
LoadEnds == pc # "idle" ~> pc = "idle"

\* Everything the repository lists now is reported and nothing has failed.
Complete ==
  /\ fresh
  /\ \A e \in report : e.status # "download_failed"
  /\ \A d \in Datasets :
       FilesIn(report, d) = Elements(Selected(listing[d]))

\* No load can get past file f: it cannot be converted, or the copy of it that
\* lies under prepared/ and will be kept has a line that is not UTF-8.
Spoilt(f) ==
  IF Kind[f] = "rewritten"
  THEN Unreadable[f] # 0
  ELSE /\ PreparedIsKept(f)
       /\ LET p == prepared[SlotOf[f]] IN BadAmong(p, 1, p.lines)

Blocked ==
  \E d \in Datasets : \E f \in Elements(Selected(listing[d])) : Spoilt(f)

\* If the operator keeps running the loader, then complete manifests are
\* published again and again once failures, crashes and new listings stop,
\* unless a selected file is spoilt: no other debris of an interrupted load,
\* and nothing in Sail, can block the loads that follow.
RerunsConverge == []<><<StartLoad>>_vars => []<>(Complete \/ Blocked)
=============================================================================
