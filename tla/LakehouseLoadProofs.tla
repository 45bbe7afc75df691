------------------------ MODULE LakehouseLoadProofs ------------------------
(***************************************************************************)
(* Proofs about the loader for every set of datasets, files and listings,  *)
(* every chunk size and any number of crashes, failures and reloads.       *)
(***************************************************************************)
EXTENDS LakehouseLoad, TLAPS

-----------------------------------------------------------------------------
(* The inductive invariant *)

FilePhases == {"file", "downloading", "normalize", "preparing", "infer",
               "drop", "chunk", "count"}

\* What the loader's control state says about the file it works on.
FileInv ==
  /\ pc \in FilePhases => todo # <<>>
  /\ pc = "downloading" => tmp[Head(todo)] \in Nat
  /\ pc \in {"normalize", "preparing", "infer", "drop", "chunk", "count"}
       => raw[Head(todo)] = Lines[Head(todo)]
  /\ pc \in {"preparing", "infer", "drop", "chunk", "count"}
       => prepared[SlotOf[Head(todo)]] \in Prepared
  /\ pc \in {"drop", "chunk", "count"}
       => prepared[SlotOf[Head(todo)]].lines > 0 /\ ~SampleIsBad

\* How far the table of that file has come.
ChunkInv ==
  /\ pc \notin {"chunk", "count"} => pos = 0 /\ created = FALSE
  /\ pc = "chunk" =>
       LET p == prepared[SlotOf[Head(todo)]]
       IN  /\ pos <= p.lines - 1
           /\ IF created
              THEN table[TableOf[Head(todo)]] = [of |-> p, rows |-> pos]
              ELSE pos = 0
  /\ ChunksExact

BasicInv == TypeOK /\ FileInv /\ RawNeverPartial /\ ChunkInv

\* The load ends without a manifest: Sail and what was published stay.
Ending ==
  /\ pc # "idle"
  /\ Exit
  /\ UNCHANGED <<raw, tmp, table, catalog, report, fresh>>

GivesUp == ConversionFails \/ InferFails \/ ChunkFails

-----------------------------------------------------------------------------
LEMMA SelectedType ==
  ASSUME NEW l \in Seq(Files)
  PROVE  Selected(l) \in Seq(Files)
BY ConstantsAssumption DEF Selected

LEMMA ListedType ==
  ASSUME TypeOK
  PROVE  listing[ds] \in Seq(Files)
BY ListingsAssumption DEF TypeOK

\* What the end of load_one_file does to the loader's variables.
LEMMA ReportFileType ==
  ASSUME TypeOK, todo # <<>>,
         NEW status \in Statuses, NEW size \in Nat, NEW rows \in Nat,
         ReportFile(status, size, rows)
  PROVE  /\ ds' = ds /\ ci' = ci /\ pos' = 0 /\ created' = FALSE
         /\ todo' \in Seq(Files)
         /\ reports' \in SUBSET Entry
         /\ pc' \in {"file", "croissant"}
         /\ pc' = "file" => todo' # <<>>
<1>1. Head(todo) \in Files /\ Tail(todo) \in Seq(Files)
  BY DEF TypeOK
<1>2. [file |-> Head(todo), status |-> status, size |-> size, rows |-> rows]
        \in Entry
  BY <1>1 DEF Entry
<1>3. QED
  BY <1>1, <1>2 DEF ReportFile, TypeOK, Continue

LEMMA FirstFile ==
  ASSUME TypeOK, todo # <<>>
  PROVE  /\ Head(todo) \in Files /\ Tail(todo) \in Seq(Files)
         /\ SlotOf[Head(todo)] \in Slots /\ TableOf[Head(todo)] \in Tables
         /\ Lines[Head(todo)] \in Nat
         /\ Kind[Head(todo)] \in Kinds
BY ConstantsAssumption DEF TypeOK

LEMMA GivingUp ==
  ASSUME GivesUp
  PROVE  Ending /\ UNCHANGED <<env, prepared, sidecar>>
BY DEF GivesUp, ConversionFails, InferFails, ChunkFails, Ending, disk

\* The sample of a copy that does not change stays readable.
LEMMA SampleKept ==
  ASSUME UNCHANGED <<prepared, todo>>
  PROVE  SampleIsBad' <=> SampleIsBad
BY DEF SampleIsBad, BadAmong, BadLine

LEMMA ExitType ==
  ASSUME Exit
  PROVE  /\ ds' \in Datasets /\ pc' \in Phases /\ todo' \in Seq(Files)
         /\ reports' \in SUBSET Entry /\ pos' \in Nat /\ ci' \in 1..3
         /\ created' \in BOOLEAN
<1>1. 1 \in Datasets /\ "idle" \in Phases
  BY ConstantsAssumption DEF Datasets, Phases
<1>2. created' \in BOOLEAN
  BY Zenon DEF Exit
<1>3. QED
  BY <1>1, <1>2 DEF Exit

\* Whatever is torn when a load is cut short, files stay files.
LEMMA TornFileType ==
  ASSUME TypeOK, FileInv, TornFile
  PROVE  /\ prepared' \in [Slots -> Prepared \union {None}]
         /\ croissant' \in [Datasets -> {None, Torn} \union SUBSET Entry]
         /\ cdif' \in [Datasets -> {None, Torn} \union SUBSET Entry]
<1>1. CASE UNCHANGED prepared
  BY <1>1 DEF TypeOK, TornFile, sidecar
<1>2. ASSUME pc = "preparing",
             NEW end \in {"cut", "split"},
             prepared' = [prepared EXCEPT ![SlotOf[Head(todo)]] =
                            [of |-> prepared[SlotOf[Head(todo)]].of,
                             lines |-> prepared[SlotOf[Head(todo)]].lines + 1,
                             end |-> end]]
      PROVE  prepared' \in [Slots -> Prepared \union {None}]
  <2> DEFINE p == prepared[SlotOf[Head(todo)]]
  <2>1. p \in Prepared
    BY <1>2 DEF FileInv
  <2>2. [of |-> p.of, lines |-> p.lines + 1, end |-> end] \in Prepared
    BY <2>1 DEF Prepared, Ends
  <2>3. QED
    BY <1>2, <2>2 DEF TypeOK
<1>3. CASE ~UNCHANGED prepared
  BY <1>2, <1>3 DEF TornFile, TypeOK, sidecar
<1>4. QED
  BY <1>1, <1>3

LEMMA TypeInit == Init => TypeOK
<1> SUFFICES ASSUME Init PROVE TypeOK
  OBVIOUS
<1>1. ds \in Datasets /\ faults \in 0..MaxFaults
  BY ConstantsAssumption DEF Init, Datasets
<1>2. pc \in Phases /\ todo \in Seq(Files)
  BY DEF Init, Phases
<1>3. /\ croissant \in [Datasets -> {None, Torn} \union SUBSET Entry]
      /\ cdif \in [Datasets -> {None, Torn} \union SUBSET Entry]
      /\ catalog \in [1..3 -> {None} \union SUBSET Entry]
      /\ report \in {None, Torn} \union SUBSET Entry
      /\ reports \in SUBSET Entry
  BY DEF Init
<1>4. /\ listing \in [Datasets -> UNION {Listings[d] : d \in Datasets}]
      /\ raw \in [Files -> Nat \union {None}]
      /\ tmp \in [Files -> Nat \union {None}]
      /\ prepared \in [Slots -> Prepared \union {None}]
      /\ table \in [Tables -> Table \union {None}]
  BY DEF Init
<1>5. pos \in Nat /\ ci \in 1..3
  BY DEF Init
<1>6. created \in BOOLEAN /\ fresh \in BOOLEAN
  BY Zenon DEF Init
<1>7. QED
  BY <1>1, <1>2, <1>3, <1>4, <1>5, <1>6 DEF TypeOK

\* A step that ends load_one_file keeps every variable well typed.
LEMMA ReportFileKeepsType ==
  ASSUME TypeOK, todo # <<>>,
         NEW status \in Statuses, NEW size \in Nat, NEW rows \in Nat,
         ReportFile(status, size, rows),
         UNCHANGED <<listing, raw, tmp, prepared, table, croissant, cdif,
                     catalog, report, fresh>>,
         faults' \in 0..MaxFaults
  PROVE  TypeOK'
<1>1. pc' \in Phases
  BY ReportFileType DEF Phases
<1>2. todo' \in Seq(Files) /\ reports' \in SUBSET Entry
  BY ReportFileType
<1>3. ds' = ds /\ ci' = ci /\ pos' = 0 /\ created' = FALSE
  BY ReportFileType
<1>4. QED
  BY <1>1, <1>2, <1>3 DEF TypeOK

\* What one chunk does to the table: the rows are added to those there.
LEMMA WriteChunkResult ==
  ASSUME BasicInv, pc = "chunk", NEW n \in Nat, WriteChunk(n)
  PROVE  LET p == prepared[SlotOf[Head(todo)]]
         IN  /\ [of |-> p, rows |-> pos + n] \in Table
             /\ table' = [table EXCEPT ![TableOf[Head(todo)]] =
                            [of |-> p, rows |-> pos + n]]
<1> DEFINE t == TableOf[Head(todo)]
<1> DEFINE p == prepared[SlotOf[Head(todo)]]
<1>1. t \in Tables /\ p \in Prepared /\ pos \in Nat
  BY FirstFile DEF BasicInv, FileInv, FilePhases, TypeOK
<1>2. [of |-> p, rows |-> pos + n] \in Table
  BY <1>1 DEF Table
<1>3. CASE created /\ n # 0
  <2>1. table[t] = [of |-> p, rows |-> pos]
    BY <1>3 DEF BasicInv, ChunkInv
  <2>2. table' = [table EXCEPT ![t] = [of |-> @.of, rows |-> @.rows + n]]
    BY <1>3 DEF WriteChunk
  <2>3. table[t].of = p /\ table[t].rows + n = pos + n
    BY <2>1
  <2>4. table' = [table EXCEPT ![t] = [of |-> p, rows |-> pos + n]]
    BY <2>2, <2>3
  <2>5. QED
    BY <1>2, <2>4
<1>4. CASE created /\ n = 0
  <2>1. table[t] = [of |-> p, rows |-> pos] /\ table' = table
    BY <1>4 DEF BasicInv, ChunkInv, WriteChunk
  <2>2. pos + n = pos
    BY <1>1, <1>4
  <2>3. table' = [table EXCEPT ![t] = [of |-> p, rows |-> pos + n]]
    BY <1>1, <2>1, <2>2 DEF BasicInv, TypeOK
  <2>4. QED
    BY <1>2, <2>3
<1>5. CASE ~created
  <2>1. pos + n = n
    BY <1>1, <1>5 DEF BasicInv, ChunkInv
  <2>2. QED
    BY <1>2, <1>5, <2>1 DEF WriteChunk
<1>6. QED
  BY <1>3, <1>4, <1>5

LEMMA WriteChunkType ==
  ASSUME BasicInv, pc = "chunk", NEW n \in Nat, WriteChunk(n)
  PROVE  table' \in [Tables -> Table \union {None}]
BY WriteChunkResult, FirstFile DEF BasicInv, TypeOK, FileInv, FilePhases

LEMMA TypeStep == BasicInv /\ [Next]_vars => TypeOK'
<1> SUFFICES ASSUME BasicInv, [Next]_vars PROVE TypeOK'
  OBVIOUS
<1> USE DEF BasicInv
<1>1. CASE StartLoad
  BY <1>1, FirstFile DEF StartLoad, FileInv, FilePhases, TypeOK, Phases,
     env, disk,
     sidecar, loader
<1>2. CASE Resolve
  BY <1>2, ListedType, SelectedType DEF Resolve, Continue, TypeOK, Phases,
     env, disk,
     sidecar
<1>3. CASE SkipDownload
  BY <1>3, FirstFile DEF SkipDownload, FileInv, FilePhases, TypeOK, Phases,
     env, disk,
     sidecar, loader
<1>4. CASE RequestFails
  <2>1. todo # <<>> /\ ReportFile("download_failed", 0, 0)
    BY <1>4 DEF FileInv, FilePhases, RequestFails
  <2>2. 0 \in Nat /\ 0 \in Nat
    BY <1>4, <2>1, FirstFile, ConstantsAssumption DEF FileInv, ChunkInv,
       ChunksExact, TypeOK, Prepared, RequestFails
  <2>3. faults' \in 0..MaxFaults
    BY <1>4, ConstantsAssumption DEF RequestFails, TypeOK, Fault
  <2>4. "download_failed" \in Statuses
    BY DEF Statuses
  <2>5. QED
    BY <1>4, <2>1, <2>2, <2>3, <2>4, ReportFileKeepsType
       DEF RequestFails, env, disk, sidecar
<1>5. CASE BeginDownload
  BY <1>5, FirstFile DEF BeginDownload, FileInv, FilePhases, TypeOK, Phases,
     env, disk,
     sidecar, loader
<1>6. CASE ReceiveLine
  BY <1>6, FirstFile DEF ReceiveLine, FileInv, FilePhases, TypeOK, Phases,
     env, disk,
     sidecar, loader
<1>7. CASE ReceiveFails
  <2>1. todo # <<>> /\ ReportFile("download_failed", 0, 0)
    BY <1>7 DEF FileInv, FilePhases, ReceiveFails
  <2>2. 0 \in Nat /\ 0 \in Nat
    BY <1>7, <2>1, FirstFile, ConstantsAssumption DEF FileInv, ChunkInv,
       ChunksExact, TypeOK, Prepared, ReceiveFails
  <2>3. faults' \in 0..MaxFaults
    BY <1>7, ConstantsAssumption DEF ReceiveFails, TypeOK, Fault
  <2>4. "download_failed" \in Statuses
    BY DEF Statuses
  <2>5. QED
    BY <1>7, <2>1, <2>2, <2>3, <2>4, ReportFileKeepsType
       DEF ReceiveFails, env, disk, sidecar
<1>8. CASE FinishDownload
  BY <1>8, FirstFile DEF FinishDownload, FileInv, FilePhases, TypeOK,
     Phases, env, disk,
     sidecar, loader
<1>9. CASE NormalizeAsset
  <2>1. todo # <<>> /\ ReportFile("non_tabular_asset_downloaded",
  raw[Head(todo)], 0)
    BY <1>9 DEF FileInv, FilePhases, NormalizeAsset
  <2>2. raw[Head(todo)] \in Nat /\ 0 \in Nat
    BY <1>9, <2>1, FirstFile, ConstantsAssumption DEF FileInv, ChunkInv,
       ChunksExact, TypeOK, Prepared, NormalizeAsset
  <2>3. faults' \in 0..MaxFaults
    BY <1>9, ConstantsAssumption DEF NormalizeAsset, TypeOK, env
  <2>4. "non_tabular_asset_downloaded" \in Statuses
    BY DEF Statuses
  <2>5. QED
    BY <1>9, <2>1, <2>2, <2>3, <2>4, ReportFileKeepsType
       DEF NormalizeAsset, env, disk, sidecar
<1>10. CASE KeepPrepared
  BY <1>10, FirstFile DEF KeepPrepared, FileInv, FilePhases, TypeOK, Phases,
     env, disk,
     sidecar, loader
<1>11. CASE BeginPrepare
  <2>1. todo # <<>>
    BY <1>11 DEF FileInv, FilePhases, BeginPrepare
  <2>2. [of |-> Head(todo), lines |-> 0, end |-> "whole"] \in Prepared
    BY <2>1, FirstFile DEF Prepared, Ends
  <2>3. QED
    BY <1>11, <2>1, <2>2, FirstFile DEF BeginPrepare, TypeOK, Phases, env,
       sidecar,
       loader
<1>12. CASE WritePrepared
  <2>1. todo # <<>>
    BY <1>12 DEF FileInv, FilePhases, WritePrepared
  <2> DEFINE s == SlotOf[Head(todo)]
  <2> DEFINE p == [prepared[s] EXCEPT !.lines = @ + 1]
  <2>2. s \in Slots /\ prepared[s] \in Prepared /\ pc = "preparing"
    BY <1>12, <2>1, FirstFile DEF WritePrepared, FileInv
  <2>3. p \in Prepared
    BY <2>2 DEF Prepared
  <2>4. prepared' = [prepared EXCEPT ![s] = p]
    BY <1>12 DEF WritePrepared
  <2>5. QED
    BY <1>12, <2>2, <2>3, <2>4 DEF WritePrepared, TypeOK, env, sidecar, loader
<1>13. CASE FinishPrepare
  BY <1>13, FirstFile DEF FinishPrepare, FileInv, FilePhases, TypeOK,
     Phases, env, disk,
     sidecar, loader
<1>14. CASE InferNothing
  <2>1. todo # <<>> /\ ReportFile("empty_tabular_file", raw[Head(todo)], 0)
    BY <1>14 DEF FileInv, FilePhases, InferNothing
  <2>2. raw[Head(todo)] \in Nat /\ 0 \in Nat
    BY <1>14, <2>1, FirstFile, ConstantsAssumption DEF FileInv, ChunkInv,
       ChunksExact, TypeOK, Prepared, InferNothing
  <2>3. faults' \in 0..MaxFaults
    BY <1>14, ConstantsAssumption DEF InferNothing, TypeOK, env
  <2>4. "empty_tabular_file" \in Statuses
    BY DEF Statuses
  <2>5. QED
    BY <1>14, <2>1, <2>2, <2>3, <2>4, ReportFileKeepsType
       DEF InferNothing, env, disk, sidecar
<1>15. CASE InferColumns
  BY <1>15, FirstFile DEF InferColumns, FileInv, FilePhases, TypeOK, Phases,
     env, disk,
     sidecar, loader
<1>16. CASE DropTable
  BY <1>16, FirstFile DEF DropTable, FileInv, FilePhases, TypeOK, Phases,
     env, disk,
     sidecar, loader
<1>17. CASE FullChunk
  <2> DEFINE t == TableOf[Head(todo)]
  <2> DEFINE p == prepared[SlotOf[Head(todo)]]
  <2>1. todo # <<>> /\ pc = "chunk"
    BY <1>17 DEF FileInv, FilePhases, FullChunk
  <2>2. t \in Tables /\ p \in Prepared /\ ChunkRows \in Nat
    BY <1>17, <2>1, FirstFile, ConstantsAssumption DEF FullChunk, FileInv,
       ChunkInv,
       Prepared, RowsLeft, TypeOK
  <2>3. table' \in [Tables -> Table \union {None}]
    BY <1>17, <2>1, <2>2, WriteChunkType DEF FullChunk
  <2>4. created' \in BOOLEAN /\ pos' \in Nat /\ pc' \in Phases
    BY <1>17, <2>2 DEF FullChunk, WriteChunk, TypeOK, Phases
  <2>5. QED
    BY <1>17, <2>3, <2>4 DEF FullChunk, TypeOK, env, disk, sidecar
<1>18. CASE LastChunk
  <2> DEFINE t == TableOf[Head(todo)]
  <2> DEFINE p == prepared[SlotOf[Head(todo)]]
  <2>1. todo # <<>> /\ pc = "chunk"
    BY <1>18 DEF FileInv, FilePhases, LastChunk
  <2>2. t \in Tables /\ p \in Prepared /\ RowsLeft \in Nat
    <3>1. t \in Tables /\ p \in Prepared /\ pos \in Nat
      BY <2>1, FirstFile DEF FileInv, TypeOK
    <3>2. p.lines \in Nat /\ pos =< p.lines - 1
      BY <2>1, <3>1 DEF ChunkInv, Prepared
    <3>3. QED
      BY <3>1, <3>2 DEF RowsLeft
  <2>3. table' \in [Tables -> Table \union {None}]
    BY <1>18, <2>1, <2>2, WriteChunkType DEF LastChunk
  <2>4. created' \in BOOLEAN /\ pos' \in Nat /\ pc' \in Phases
    BY <1>18, <2>2 DEF LastChunk, WriteChunk, TypeOK, Phases
  <2>5. QED
    BY <1>18, <2>3, <2>4 DEF LastChunk, TypeOK, env, disk, sidecar
<1>19. CASE CountRows
  <2>1. todo # <<>> /\ ReportFile("typed_table_loaded", raw[Head(todo)],
  table[TableOf[Head(todo)]].rows)
    BY <1>19 DEF FileInv, FilePhases, CountRows
  <2>2. raw[Head(todo)] \in Nat /\ table[TableOf[Head(todo)]].rows \in Nat
    <3> DEFINE p == prepared[SlotOf[Head(todo)]]
    <3>1. pc = "count" /\ raw[Head(todo)] = Lines[Head(todo)]
      BY <1>19 DEF FileInv, FilePhases, CountRows
    <3>2. p \in Prepared /\ p.lines > 0
      BY <2>1, <3>1, FirstFile DEF FileInv, TypeOK
    <3>3. table[TableOf[Head(todo)]].rows = p.lines - 1
      BY <3>1 DEF ChunkInv, ChunksExact
    <3>4. p.lines \in Nat /\ raw[Head(todo)] \in Nat
      BY <2>1, <3>1, <3>2, FirstFile, ConstantsAssumption DEF Prepared
    <3>5. QED
      BY <3>2, <3>3, <3>4
  <2>3. faults' \in 0..MaxFaults
    BY <1>19, ConstantsAssumption DEF CountRows, TypeOK, env
  <2>4. "typed_table_loaded" \in Statuses
    BY DEF Statuses
  <2>5. QED
    BY <1>19, <2>1, <2>2, <2>3, <2>4, ReportFileKeepsType
       DEF CountRows, env, disk, sidecar
<1>20. CASE WriteCroissant
  BY <1>20 DEF WriteCroissant, ReportsOf, TypeOK, Phases, env, disk, loader
<1>21. CASE WriteCdif
  <2>1. ds' \in Datasets /\ pc' \in Phases
    <3>1. pc' \in Phases
      BY <1>21 DEF WriteCdif, Phases
    <3>2. ds \in 1..NumDatasets /\ NumDatasets \in Nat
      BY ConstantsAssumption DEF TypeOK, Datasets
    <3>3. ds' = ds \/ (ds < NumDatasets /\ ds' = ds + 1)
      BY <1>21 DEF WriteCdif
    <3> QED BY <3>1, <3>2, <3>3 DEF Datasets
  <2>2. ReportsOf(ds) \in SUBSET Entry
    BY DEF ReportsOf, TypeOK
  <2>3. QED
    BY <1>21, <2>1, <2>2 DEF WriteCdif, TypeOK, env, disk
<1>22. CASE DropCatalogTable
  BY <1>22, FirstFile DEF DropCatalogTable, FileInv, FilePhases, TypeOK,
     Phases, env, disk,
     sidecar, loader
<1>23. CASE CreateCatalogTable
  BY <1>23 DEF CreateCatalogTable, CatalogTables, TypeOK, Phases, env, disk,
     sidecar
<1>24. CASE BeginPublish
  BY <1>24, FirstFile DEF BeginPublish, FileInv, FilePhases, TypeOK, Phases,
     env, disk,
     sidecar, loader
<1>25. CASE FinishPublish
  <2>1. 1 \in Datasets /\ "idle" \in Phases
    BY ConstantsAssumption DEF Datasets, Phases
  <2>2. /\ ds' \in Datasets /\ pc' \in Phases /\ todo' \in Seq(Files)
        /\ reports' \in SUBSET Entry /\ pos' \in Nat /\ ci' \in 1..3
    BY <1>25, <2>1 DEF FinishPublish, Exit
  <2>3. created' \in BOOLEAN /\ fresh' \in BOOLEAN
    BY <1>25, Zenon DEF FinishPublish, Exit, TypeOK
  <2>4. QED
    BY <1>25, <2>2, <2>3 DEF FinishPublish, TypeOK, env, disk, sidecar
<1>26. CASE Abort
  <2>1. faults' \in 0..MaxFaults
    BY <1>26, ConstantsAssumption DEF Abort, Fault, TypeOK
  <2>2. /\ prepared' \in [Slots -> Prepared \union {None}]
        /\ croissant' \in [Datasets -> {None, Torn} \union SUBSET Entry]
        /\ cdif' \in [Datasets -> {None, Torn} \union SUBSET Entry]
    BY <1>26, TornFileType DEF Abort
  <2>3. QED
    BY <1>26, <2>1, <2>2, ExitType DEF Abort, TypeOK
<1>27. CASE \E d \in Datasets : Republish(d)
  <2>1. faults' \in 0..MaxFaults
    BY <1>27, ConstantsAssumption DEF Republish, Fault, TypeOK
  <2>2. listing' \in [Datasets -> UNION {Listings[d] : d \in Datasets}]
    BY <1>27 DEF Republish, TypeOK
  <2>3. QED
    BY <1>27, <2>1, <2>2 DEF Republish, TypeOK, disk, sidecar, loader
<1>28. CASE UNCHANGED vars
  BY <1>28 DEF vars, TypeOK
<1>29. CASE GivesUp
  BY <1>29, GivingUp, ExitType DEF Ending, TypeOK, env, sidecar
<1>30. QED
  BY <1>1, <1>2, <1>3, <1>4, <1>5, <1>6, <1>7, <1>8, <1>9, <1>10, <1>11,
     <1>12, <1>13, <1>14, <1>15, <1>16, <1>17, <1>18, <1>19, <1>20, <1>21,
     <1>22, <1>23, <1>24, <1>25, <1>26, <1>27, <1>28, <1>29 DEF Next,
     Progress, DownloadFails, GivesUp

LEMMA FileStep == BasicInv /\ [Next]_vars => (FileInv /\ RawNeverPartial)'
<1> SUFFICES ASSUME BasicInv, [Next]_vars PROVE (FileInv /\ RawNeverPartial)'
  OBVIOUS
<1> USE DEF BasicInv
<1>1. CASE StartLoad
  BY <1>1, FirstFile, ConstantsAssumption DEF StartLoad, FileInv, FilePhases,
     RawNeverPartial, TypeOK, env, disk, loader
<1>2. CASE Resolve
  BY <1>2, ListedType, SelectedType DEF Resolve, Continue, FileInv,
     FilePhases,
     RawNeverPartial, env, disk
<1>3. CASE SkipDownload
  BY <1>3, FirstFile, ConstantsAssumption DEF SkipDownload, HasContents,
     FileInv, FilePhases,
     RawNeverPartial, TypeOK, env, disk, loader
<1>4. CASE RequestFails
  <2>1. todo # <<>> /\ ReportFile("download_failed", 0, 0)
    BY <1>4 DEF FileInv, FilePhases, RequestFails
  <2>2. 0 \in Nat /\ 0 \in Nat /\ "download_failed" \in Statuses
    BY <1>4, <2>1, FirstFile, ConstantsAssumption DEF FileInv, ChunkInv,
       ChunksExact, TypeOK, Prepared, Statuses, RequestFails
  <2>3. pc' \in {"file", "croissant"} /\ (pc' = "file" => todo' # <<>>)
    BY <2>1, <2>2, ReportFileType
  <2>4. QED
    BY <1>4, <2>3 DEF RequestFails, FileInv, FilePhases, RawNeverPartial,
       env, disk
<1>5. CASE BeginDownload
  BY <1>5, FirstFile, ConstantsAssumption DEF BeginDownload, FileInv,
     FilePhases,
     RawNeverPartial, TypeOK, env, disk, loader
<1>6. CASE ReceiveLine
  <2>1. pc = "downloading" /\ UNCHANGED <<pc, todo, raw>>
    BY <1>6 DEF ReceiveLine, loader
  <2>2. todo # <<>> /\ tmp[Head(todo)] \in Nat /\ Head(todo) \in Files
    BY <2>1, FirstFile DEF FileInv, FilePhases
  <2>3. tmp'[Head(todo)] \in Nat
    BY <1>6, <2>2 DEF ReceiveLine, TypeOK
  <2>4. QED
    BY <2>1, <2>2, <2>3 DEF FileInv, FilePhases, RawNeverPartial
<1>7. CASE ReceiveFails
  <2>1. todo # <<>> /\ ReportFile("download_failed", 0, 0)
    BY <1>7 DEF FileInv, FilePhases, ReceiveFails
  <2>2. 0 \in Nat /\ 0 \in Nat /\ "download_failed" \in Statuses
    BY <1>7, <2>1, FirstFile, ConstantsAssumption DEF FileInv, ChunkInv,
       ChunksExact, TypeOK, Prepared, Statuses, ReceiveFails
  <2>3. pc' \in {"file", "croissant"} /\ (pc' = "file" => todo' # <<>>)
    BY <2>1, <2>2, ReportFileType
  <2>4. QED
    BY <1>7, <2>3 DEF ReceiveFails, FileInv, FilePhases, RawNeverPartial,
       env, disk
<1>8. CASE FinishDownload
  BY <1>8, FirstFile, ConstantsAssumption DEF FinishDownload, FileInv,
     FilePhases,
     RawNeverPartial, TypeOK, env, disk, loader
<1>9. CASE NormalizeAsset
  <2>1. todo # <<>> /\ ReportFile("non_tabular_asset_downloaded",
  raw[Head(todo)], 0)
    BY <1>9 DEF FileInv, FilePhases, NormalizeAsset
  <2>2. raw[Head(todo)] \in Nat /\ 0 \in Nat
        /\ "non_tabular_asset_downloaded" \in Statuses
    BY <1>9, <2>1, FirstFile, ConstantsAssumption DEF FileInv, ChunkInv,
       ChunksExact, TypeOK, Prepared, Statuses, NormalizeAsset
  <2>3. pc' \in {"file", "croissant"} /\ (pc' = "file" => todo' # <<>>)
    BY <2>1, <2>2, ReportFileType
  <2>4. QED
    BY <1>9, <2>3 DEF NormalizeAsset, FileInv, FilePhases, RawNeverPartial,
       env, disk
<1>10. CASE KeepPrepared
  BY <1>10, FirstFile, ConstantsAssumption DEF KeepPrepared, PreparedIsKept,
     FileInv, FilePhases,
     RawNeverPartial, TypeOK, env, disk, loader
<1>11. CASE BeginPrepare
  <2>1. todo # <<>>
    BY <1>11 DEF FileInv, FilePhases, BeginPrepare
  <2>2. [of |-> Head(todo), lines |-> 0, end |-> "whole"] \in Prepared
    BY <2>1, FirstFile DEF Prepared, Ends
  <2>3. QED
    BY <1>11, <2>1, <2>2, FirstFile DEF BeginPrepare, FileInv, FilePhases,
       RawNeverPartial, TypeOK, env, loader
<1>12. CASE WritePrepared
  <2>1. todo # <<>>
    BY <1>12 DEF FileInv, FilePhases, WritePrepared
  <2> DEFINE s == SlotOf[Head(todo)]
  <2> DEFINE p == [prepared[s] EXCEPT !.lines = @ + 1]
  <2>2. s \in Slots /\ prepared[s] \in Prepared /\ pc = "preparing"
    BY <1>12, <2>1, FirstFile DEF WritePrepared, FileInv
  <2>3. p \in Prepared
    BY <2>2 DEF Prepared
  <2>4. prepared' = [prepared EXCEPT ![s] = p]
    BY <1>12 DEF WritePrepared
  <2>5. QED
    BY <1>12, <2>1, <2>2, <2>3, <2>4 DEF WritePrepared, FileInv, FilePhases,
       RawNeverPartial, TypeOK, env, loader
<1>13. CASE FinishPrepare
  BY <1>13, FirstFile, ConstantsAssumption DEF FinishPrepare, FileInv,
     FilePhases,
     RawNeverPartial, TypeOK, env, disk, loader
<1>14. CASE InferNothing
  <2>1. todo # <<>> /\ ReportFile("empty_tabular_file", raw[Head(todo)], 0)
    BY <1>14 DEF FileInv, FilePhases, InferNothing
  <2>2. raw[Head(todo)] \in Nat /\ 0 \in Nat
        /\ "empty_tabular_file" \in Statuses
    BY <1>14, <2>1, FirstFile, ConstantsAssumption DEF FileInv, ChunkInv,
       ChunksExact, TypeOK, Prepared, Statuses, InferNothing
  <2>3. pc' \in {"file", "croissant"} /\ (pc' = "file" => todo' # <<>>)
    BY <2>1, <2>2, ReportFileType
  <2>4. QED
    BY <1>14, <2>3 DEF InferNothing, FileInv, FilePhases, RawNeverPartial,
       env, disk
<1>15. CASE InferColumns
  BY <1>15, SampleKept, FirstFile, ConstantsAssumption DEF InferColumns, Prepared,
     FileInv, FilePhases,
     RawNeverPartial, TypeOK, env, disk, loader
<1>16. CASE DropTable
  BY <1>16, SampleKept, FirstFile, ConstantsAssumption DEF DropTable, FileInv,
     FilePhases,
     RawNeverPartial, TypeOK, env, disk, loader
<1>17. CASE FullChunk
  BY <1>17, SampleKept DEF FullChunk, WriteChunk, FileInv, FilePhases, RawNeverPartial,
     env,
     disk
<1>18. CASE LastChunk
  BY <1>18, SampleKept DEF LastChunk, WriteChunk, FileInv, FilePhases, RawNeverPartial,
     env,
     disk
<1>19. CASE CountRows
  <2>1. todo # <<>> /\ ReportFile("typed_table_loaded", raw[Head(todo)],
  table[TableOf[Head(todo)]].rows)
    BY <1>19 DEF FileInv, FilePhases, CountRows
  <2>2. raw[Head(todo)] \in Nat /\ table[TableOf[Head(todo)]].rows \in Nat
        /\ "typed_table_loaded" \in Statuses
    BY <1>19, <2>1, FirstFile, ConstantsAssumption DEF FileInv, ChunkInv,
       ChunksExact, TypeOK, Prepared, Statuses, CountRows
  <2>3. pc' \in {"file", "croissant"} /\ (pc' = "file" => todo' # <<>>)
    BY <2>1, <2>2, ReportFileType
  <2>4. QED
    BY <1>19, <2>3 DEF CountRows, FileInv, FilePhases, RawNeverPartial, env,
       disk
<1>20. CASE WriteCroissant
  BY <1>20, FirstFile, ConstantsAssumption DEF WriteCroissant, FileInv,
     FilePhases,
     RawNeverPartial, TypeOK, env, disk, loader
<1>21. CASE WriteCdif
  BY <1>21, FirstFile, ConstantsAssumption DEF WriteCdif, FileInv, FilePhases,
     RawNeverPartial, TypeOK, env, disk, loader
<1>22. CASE DropCatalogTable
  BY <1>22, FirstFile, ConstantsAssumption DEF DropCatalogTable, FileInv,
     FilePhases,
     RawNeverPartial, TypeOK, env, disk, loader
<1>23. CASE CreateCatalogTable
  BY <1>23, FirstFile, ConstantsAssumption DEF CreateCatalogTable, FileInv,
     FilePhases,
     RawNeverPartial, TypeOK, env, disk, loader
<1>24. CASE BeginPublish
  BY <1>24, FirstFile, ConstantsAssumption DEF BeginPublish, FileInv,
     FilePhases,
     RawNeverPartial, TypeOK, env, disk, loader
<1>25. CASE FinishPublish
  BY <1>25 DEF FinishPublish, Exit, FileInv, FilePhases, RawNeverPartial,
     env, disk
<1>26. CASE Abort
  BY <1>26 DEF Abort, Exit, FileInv, FilePhases, RawNeverPartial, env, disk
<1>27. CASE \E d \in Datasets : Republish(d)
  BY <1>27, SampleKept DEF Republish, FileInv, FilePhases, RawNeverPartial, disk, loader
<1>28. CASE UNCHANGED vars
  BY <1>28, SampleKept DEF vars, FileInv, FilePhases, RawNeverPartial
<1>29. CASE GivesUp
  BY <1>29, GivingUp DEF Ending, Exit, FileInv, FilePhases, RawNeverPartial
<1>30. QED
  BY <1>1, <1>2, <1>3, <1>4, <1>5, <1>6, <1>7, <1>8, <1>9, <1>10, <1>11,
     <1>12, <1>13, <1>14, <1>15, <1>16, <1>17, <1>18, <1>19, <1>20, <1>21,
     <1>22, <1>23, <1>24, <1>25, <1>26, <1>27, <1>28, <1>29 DEF Next,
     Progress, DownloadFails, GivesUp

LEMMA ChunkStep == BasicInv /\ [Next]_vars => ChunkInv'
<1> SUFFICES ASSUME BasicInv, [Next]_vars PROVE ChunkInv'
  OBVIOUS
<1> USE DEF BasicInv
<1>1. CASE StartLoad
  BY <1>1 DEF StartLoad, ChunkInv, ChunksExact, env, disk, sidecar, loader
<1>2. CASE Resolve
  BY <1>2 DEF Resolve, Continue, ChunkInv, ChunksExact
<1>3. CASE SkipDownload
  BY <1>3 DEF SkipDownload, ChunkInv, ChunksExact, env, disk, sidecar, loader
<1>4. CASE RequestFails
  <2>1. pos' = 0 /\ created' = FALSE /\ pc' \in {"file", "croissant"}
    BY <1>4 DEF RequestFails, ReportFile, Continue
  <2>2. QED
    BY <2>1 DEF ChunkInv, ChunksExact
<1>5. CASE BeginDownload
  BY <1>5 DEF BeginDownload, ChunkInv, ChunksExact, env, disk, sidecar, loader
<1>6. CASE ReceiveLine
  BY <1>6 DEF ReceiveLine, ChunkInv, ChunksExact, env, disk, sidecar, loader
<1>7. CASE ReceiveFails
  <2>1. pos' = 0 /\ created' = FALSE /\ pc' \in {"file", "croissant"}
    BY <1>7 DEF ReceiveFails, ReportFile, Continue
  <2>2. QED
    BY <2>1 DEF ChunkInv, ChunksExact
<1>8. CASE FinishDownload
  BY <1>8 DEF FinishDownload, ChunkInv, ChunksExact, env, disk, sidecar,
     loader
<1>9. CASE NormalizeAsset
  <2>1. pos' = 0 /\ created' = FALSE /\ pc' \in {"file", "croissant"}
    BY <1>9 DEF NormalizeAsset, ReportFile, Continue
  <2>2. QED
    BY <2>1 DEF ChunkInv, ChunksExact
<1>10. CASE KeepPrepared
  BY <1>10 DEF KeepPrepared, ChunkInv, ChunksExact, env, disk, sidecar, loader
<1>11. CASE BeginPrepare
  BY <1>11 DEF BeginPrepare, ChunkInv, ChunksExact, env, disk, sidecar, loader
<1>12. CASE WritePrepared
  BY <1>12 DEF WritePrepared, ChunkInv, ChunksExact, env, disk, sidecar,
     loader
<1>13. CASE FinishPrepare
  BY <1>13 DEF FinishPrepare, ChunkInv, ChunksExact, env, disk, sidecar,
     loader
<1>14. CASE InferNothing
  <2>1. pos' = 0 /\ created' = FALSE /\ pc' \in {"file", "croissant"}
    BY <1>14 DEF InferNothing, ReportFile, Continue
  <2>2. QED
    BY <2>1 DEF ChunkInv, ChunksExact
<1>15. CASE InferColumns
  BY <1>15 DEF InferColumns, ChunkInv, ChunksExact, env, disk, sidecar, loader
<1>16. CASE DropTable
  <2>1. prepared[SlotOf[Head(todo)]].lines \in Nat
        /\ prepared[SlotOf[Head(todo)]].lines > 0
    BY <1>16 DEF DropTable, FileInv, Prepared
  <2>2. pc' = "chunk" /\ pos' = 0 /\ created' = FALSE
    BY <1>16 DEF DropTable, ChunkInv, loader
  <2>3. UNCHANGED <<prepared, todo>>
    BY <1>16 DEF DropTable, disk, loader
  <2>4. QED
    BY <2>1, <2>2, <2>3 DEF ChunkInv, ChunksExact
<1>17. CASE FullChunk
  <2> DEFINE t == TableOf[Head(todo)]
  <2> DEFINE p == prepared[SlotOf[Head(todo)]]
  <2>1. t \in Tables /\ p \in Prepared /\ pos \in Nat /\ pc = "chunk"
    BY <1>17, FirstFile DEF FullChunk, FileInv, FilePhases, TypeOK
  <2>2. p.lines \in Nat /\ pos \leq p.lines - 1 /\ ChunkRows \in Nat
    BY <1>17, <2>1, ConstantsAssumption DEF FullChunk, ChunkInv, Prepared,
       RowsLeft
  <2>3. table' = [table EXCEPT ![t] = [of |-> p, rows |-> pos + ChunkRows]]
    BY <1>17, <2>1, <2>2, WriteChunkResult DEF FullChunk
  <2>4. table'[t] = [of |-> p, rows |-> pos + ChunkRows]
    BY <2>1, <2>3 DEF TypeOK
  <2>5. pc' = "chunk" /\ pos' = pos + ChunkRows /\ created' = TRUE
        /\ UNCHANGED <<prepared, todo>>
    BY <1>17 DEF FullChunk, WriteChunk, disk
  <2>6. pos + ChunkRows \leq p.lines - 1
    BY <1>17, <2>1, <2>2 DEF FullChunk, RowsLeft
  <2>7. QED
    BY <2>4, <2>5, <2>6 DEF ChunkInv, ChunksExact
<1>18. CASE LastChunk
  <2> DEFINE t == TableOf[Head(todo)]
  <2> DEFINE p == prepared[SlotOf[Head(todo)]]
  <2>1. t \in Tables /\ p \in Prepared /\ pos \in Nat /\ pc = "chunk"
    BY <1>18, FirstFile DEF LastChunk, FileInv, FilePhases, TypeOK
  <2>2. p.lines \in Nat /\ pos \leq p.lines - 1 /\ RowsLeft \in Nat
    BY <1>18, <2>1, ConstantsAssumption DEF LastChunk, ChunkInv, Prepared,
       RowsLeft
  <2>3. table' = [table EXCEPT ![t] = [of |-> p, rows |-> pos + RowsLeft]]
    BY <1>18, <2>1, <2>2, WriteChunkResult DEF LastChunk
  <2>4. table'[t] = [of |-> p, rows |-> p.lines - 1]
    <3>1. pos + RowsLeft = p.lines - 1
      BY <2>1, <2>2 DEF RowsLeft
    <3>2. table \in [Tables -> Table \union {None}]
      BY DEF TypeOK
    <3> HIDE DEF t, p
    <3> QED BY <2>1, <2>3, <3>1, <3>2
  <2>5. pc' = "count" /\ UNCHANGED <<prepared, todo>>
    BY <1>18 DEF LastChunk, disk
  <2>6. QED
    BY <2>4, <2>5 DEF ChunkInv, ChunksExact
<1>19. CASE CountRows
  <2>1. pos' = 0 /\ created' = FALSE /\ pc' \in {"file", "croissant"}
    BY <1>19 DEF CountRows, ReportFile, Continue
  <2>2. QED
    BY <2>1 DEF ChunkInv, ChunksExact
<1>20. CASE WriteCroissant
  BY <1>20 DEF WriteCroissant, ChunkInv, ChunksExact, env, disk, sidecar,
     loader
<1>21. CASE WriteCdif
  BY <1>21 DEF WriteCdif, ChunkInv, ChunksExact, env, disk, sidecar, loader
<1>22. CASE DropCatalogTable
  BY <1>22 DEF DropCatalogTable, ChunkInv, ChunksExact, env, disk, sidecar,
     loader
<1>23. CASE CreateCatalogTable
  BY <1>23 DEF CreateCatalogTable, ChunkInv, ChunksExact, env, disk,
     sidecar, loader
<1>24. CASE BeginPublish
  BY <1>24 DEF BeginPublish, ChunkInv, ChunksExact, env, disk, sidecar, loader
<1>25. CASE FinishPublish
  BY <1>25 DEF FinishPublish, Exit, ChunkInv, ChunksExact
<1>26. CASE Abort
  BY <1>26 DEF Abort, Exit, ChunkInv, ChunksExact
<1>27. CASE \E d \in Datasets : Republish(d)
  BY <1>27 DEF Republish, ChunkInv, ChunksExact, disk, loader
<1>28. CASE UNCHANGED vars
  BY <1>28 DEF vars, ChunkInv, ChunksExact
<1>29. CASE GivesUp
  BY <1>29, GivingUp DEF Ending, Exit, ChunkInv, ChunksExact
<1>30. QED
  BY <1>1, <1>2, <1>3, <1>4, <1>5, <1>6, <1>7, <1>8, <1>9, <1>10, <1>11,
     <1>12, <1>13, <1>14, <1>15, <1>16, <1>17, <1>18, <1>19, <1>20, <1>21,
     <1>22, <1>23, <1>24, <1>25, <1>26, <1>27, <1>28, <1>29 DEF Next,
     Progress, DownloadFails, GivesUp

LEMMA BasicInit == Init => BasicInv
<1> SUFFICES ASSUME Init PROVE BasicInv
  OBVIOUS
<1>1. TypeOK
  BY TypeInit
<1>2. FileInv /\ RawNeverPartial
  BY DEF Init, FileInv, FilePhases, RawNeverPartial
<1>3. ChunkInv
  BY DEF Init, ChunkInv, ChunksExact
<1>4. QED
  BY <1>1, <1>2, <1>3 DEF BasicInv

LEMMA BasicStep == BasicInv /\ [Next]_vars => BasicInv'
BY TypeStep, FileStep, ChunkStep DEF BasicInv

LEMMA BasicInvariant == Spec => []BasicInv
BY BasicInit, BasicStep, PTL DEF Spec

\* Every variable of the loader keeps its type.
THEOREM TypeCorrect == Spec => []TypeOK
<1>1. BasicInv => TypeOK
  BY DEF BasicInv
<1>2. QED
  BY <1>1, BasicInvariant, PTL

\* No stop of the process leaves a half-downloaded raw file behind.
THEOREM RawIsWhole == Spec => []RawNeverPartial
<1>1. BasicInv => RawNeverPartial
  BY DEF BasicInv
<1>2. QED
  BY <1>1, BasicInvariant, PTL

\* Chunking is exact for every length and every chunk size.
THEOREM ChunkingIsExact == Spec => []ChunksExact
<1>1. BasicInv => ChunksExact
  BY DEF BasicInv, ChunkInv
<1>2. QED
  BY <1>1, BasicInvariant, PTL

-----------------------------------------------------------------------------
(* What a published manifest says.  The steps fall into few classes as far *)
(* as file reports are concerned.                                          *)

CatalogPhases == {"drop_catalog", "create_catalog", "publish", "publishing"}

published == <<report, fresh, croissant, cdif, catalog>>

\* The loader works on the first file of todo.
Working ==
  /\ pc \in FilePhases /\ pc' \in FilePhases
  /\ UNCHANGED <<published, ds, todo, reports, ci>>
  /\ \A t \in Tables : t # TableOf[Head(todo)] => table'[t] = table[t]

\* The loader is done with the first file of todo.
Reporting ==
  /\ pc \in FilePhases
  /\ todo' = Tail(todo)
  /\ pc' = Continue(Tail(todo))
  /\ UNCHANGED <<published, ds, ci, table>>
  /\ \E e \in Entry : /\ reports' = reports \union {e}
                      /\ e.file = Head(todo)
                      /\ Loaded(e) => /\ pc = "count"
                                      /\ table[TableOf[e.file]] # None
                                      /\ table[TableOf[e.file]].rows = e.rows

Unrelated == UNCHANGED <<published, ds, todo, reports, ci, table, pc>>

LEMMA StepClasses ==
  ASSUME BasicInv, [Next]_vars
  PROVE  \/ Working \/ Reporting \/ Unrelated
         \/ StartLoad \/ Resolve \/ WriteCroissant \/ WriteCdif
         \/ DropCatalogTable \/ CreateCatalogTable
         \/ BeginPublish \/ FinishPublish \/ Ending
<1> USE DEF BasicInv
<1>1. ASSUME \/ SkipDownload \/ BeginDownload \/ ReceiveLine \/ FinishDownload
             \/ KeepPrepared \/ BeginPrepare \/ WritePrepared \/ FinishPrepare
             \/ InferColumns
      PROVE  Working
  BY <1>1 DEF Working, published, FilePhases, SkipDownload, BeginDownload,
     ReceiveLine, FinishDownload, KeepPrepared, BeginPrepare, WritePrepared,
     FinishPrepare, InferColumns, env, disk, sidecar, loader
<1>2. CASE DropTable
  <2>1. \A t \in Tables : t # TableOf[Head(todo)] => table'[t] = table[t]
    BY <1>2 DEF DropTable, TypeOK
  <2>2. QED
    BY <1>2, <2>1 DEF DropTable, Working, published, FilePhases, env, disk,
       sidecar, loader
<1>3. ASSUME NEW n \in Nat, WriteChunk(n), pc = "chunk"
      PROVE  \A t \in Tables : t # TableOf[Head(todo)] => table'[t] = table[t]
  BY <1>3, WriteChunkResult DEF TypeOK
<1>4. CASE FullChunk
  <2>1. ChunkRows \in Nat
    BY ConstantsAssumption
  <2>2. QED
    BY <1>3, <1>4, <2>1 DEF FullChunk, Working, published, FilePhases, sidecar
<1>5. CASE LastChunk
  <2>1. RowsLeft \in Nat
    BY <1>5 DEF LastChunk, RowsLeft, ChunkInv, FileInv, Prepared, TypeOK
  <2>2. QED
    BY <1>3, <1>5, <2>1 DEF LastChunk, Working, published, FilePhases, sidecar
<1>6. ASSUME NEW status \in Statuses, NEW size \in Nat, NEW rows \in Nat,
             ReportFile(status, size, rows), pc \in FilePhases,
             UNCHANGED <<published, table>>,
             status = "typed_table_loaded" =>
               /\ pc = "count"
               /\ table[TableOf[Head(todo)]] # None
               /\ table[TableOf[Head(todo)]].rows = rows
      PROVE  Reporting
  <2> DEFINE e == [file |-> Head(todo), status |-> status, size |-> size,
                   rows |-> rows]
  <2>1. e \in Entry /\ reports' = reports \union {e}
    BY <1>6, FirstFile DEF Entry, ReportFile, FileInv
  <2>2. QED
    BY <1>6, <2>1 DEF Reporting, ReportFile, Loaded
<1>7. CASE RequestFails \/ ReceiveFails
  BY <1>6, <1>7 DEF RequestFails, ReceiveFails, Statuses, FilePhases,
     published,
     disk, sidecar
<1>8. pc \in {"normalize", "infer", "count"} => raw[Head(todo)] \in Nat
  BY FirstFile DEF FileInv, FilePhases
<1>9. CASE NormalizeAsset \/ InferNothing
  BY <1>6, <1>8, <1>9 DEF NormalizeAsset, InferNothing, Statuses, FilePhases,
     published, env, disk, sidecar
<1>10. CASE CountRows
  <2> DEFINE t == TableOf[Head(todo)]
  <2>1. t \in Tables /\ prepared[SlotOf[Head(todo)]] \in Prepared
        /\ prepared[SlotOf[Head(todo)]].lines > 0
    BY <1>10, FirstFile DEF CountRows, FileInv, FilePhases
  <2>2. table[t] \in Table
    BY <1>10, <2>1 DEF CountRows, ChunkInv, ChunksExact, Prepared, Table
  <2>3. table[t] # None /\ table[t].rows \in Nat
    BY <2>2, NoneAssumption DEF Table
  <2>4. QED
    BY <1>6, <1>8, <1>10, <2>3 DEF CountRows, Statuses, FilePhases, published,
       env, disk, sidecar
<1>11. CASE \E d \in Datasets : Republish(d)
  BY <1>11 DEF Republish, Unrelated, published, disk, sidecar, loader
<1>12. CASE UNCHANGED vars
  BY <1>12 DEF vars, Unrelated, published
<1>13. CASE Abort
  BY <1>13 DEF Abort, Ending
<1>14. CASE GivesUp
  BY <1>14, GivingUp
<1>15. QED
  BY <1>1, <1>2, <1>4, <1>5, <1>7, <1>9, <1>10, <1>11, <1>12, <1>13, <1>14
     DEF Next, Progress, DownloadFails, GivesUp

-----------------------------------------------------------------------------
(* The invariants about the file reports *)

DatasetPhases == FilePhases \union {"croissant", "cdif"}

Injective(s) == \A i, j \in 1..Len(s) : s[i] = s[j] => i = j

\* todo and the reports made for the current dataset share out a selection.
Sharing(l) ==
  /\ FilesIn(reports, ds) \union Elements(todo) = Elements(Selected(l))
  /\ FilesIn(reports, ds) \intersect Elements(todo) = {}

CoverInv ==
  /\ \A d \in Datasets : listing[d] \in Listings[d]
  /\ pc = "idle" => ds = 1 /\ ci = 1 /\ reports = {}
  /\ fresh => pc = "idle" /\ report \in SUBSET Entry
  /\ \A e1, e2 \in reports : e1.file = e2.file => e1 = e2
  /\ \A d \in Datasets : d < ds =>
       \E l \in Listings[d] : FilesIn(reports, d) = Elements(Selected(l))
  /\ \A d \in Datasets : d > ds => FilesIn(reports, d) = {}
  /\ pc = "resolve" => FilesIn(reports, ds) = {}
  /\ Injective(todo)
  /\ pc \in DatasetPhases => \E l \in Listings[ds] : Sharing(l)
  /\ pc \in {"croissant", "cdif"} => todo = <<>>
  /\ pc \in CatalogPhases =>
       /\ ds = NumDatasets
       /\ \E l \in Listings[ds] : FilesIn(reports, ds) = Elements(Selected(l))
  /\ ReportCoversListing

\* What a finished file report says of its table stays true during the load.
StandInv ==
  /\ \A e \in reports :
       Loaded(e) => /\ table[TableOf[e.file]] # None
                    /\ table[TableOf[e.file]].rows = e.rows
  /\ PublishedRowsStand

\* The prepared copy of a file that is always rewritten is that file's own.
RewriteInv ==
  (/\ pc \in {"preparing", "infer", "drop", "chunk", "count"}
   /\ Kind[Head(todo)] = "rewritten")
    => /\ prepared[SlotOf[Head(todo)]].of = Head(todo)
       /\ prepared[SlotOf[Head(todo)]].end = "whole"
       /\ pc # "preparing" =>
            prepared[SlotOf[Head(todo)]].lines = SheetLines[Head(todo)]

\* The table made from such a copy stays whole during the load and after it.
ExactInv ==
  /\ \A e \in reports :
       Loaded(e) /\ Kind[e.file] = "rewritten" => HoldsItsFile(e)
  /\ RewrittenTablesExact

\* Sidecars and catalog tables that are already written describe the reports.
LayersInv ==
  /\ \A d \in Datasets :
       d < ds => croissant[d] = ReportsOf(d) /\ cdif[d] = ReportsOf(d)
  /\ pc \in {"cdif"} \union CatalogPhases => croissant[ds] = ReportsOf(ds)
  /\ pc \in CatalogPhases => cdif[ds] = ReportsOf(ds)
  /\ pc \in {"drop_catalog", "create_catalog"} =>
       \A c \in 1..3 : c < ci => catalog[c] = reports
  /\ pc \in {"publish", "publishing"} => \A c \in 1..3 : catalog[c] = reports
  /\ pc \notin CatalogPhases => ci = 1
  /\ PublishedLayersAgree

IInv == BasicInv /\ CoverInv /\ LayersInv

-----------------------------------------------------------------------------
(* Sequences of distinct files *)

LEMMA TailElements ==
  ASSUME NEW s \in Seq(Files), s # <<>>, Injective(s)
  PROVE  /\ Elements(Tail(s)) = Elements(s) \ {Head(s)}
         /\ Head(s) \in Elements(s)
         /\ Injective(Tail(s))
<1>1. Len(s) \in Nat /\ Len(s) > 0 /\ DOMAIN s = 1..Len(s) /\ Head(s) = s[1]
  OBVIOUS
<1>2. /\ Tail(s) \in Seq(Files) /\ Len(Tail(s)) = Len(s) - 1
      /\ DOMAIN Tail(s) = 1..(Len(s) - 1)
  OBVIOUS
<1>3. \A i \in 1..(Len(s) - 1) : Tail(s)[i] = s[i + 1]
  OBVIOUS
<1>4. ASSUME NEW f, f \in Elements(Tail(s))
      PROVE  f \in Elements(s) \ {Head(s)}
  <2>1. PICK i \in 1..(Len(s) - 1) : f = s[i + 1]
    BY <1>2, <1>3, <1>4 DEF Elements
  <2>2. i + 1 \in 1..Len(s) /\ 1 \in 1..Len(s) /\ i + 1 # 1
    BY <1>1
  <2>3. f # s[1]
    BY <2>1, <2>2 DEF Injective
  <2>4. QED
    BY <1>1, <2>1, <2>2, <2>3 DEF Elements
<1>5. ASSUME NEW f, f \in Elements(s), f # Head(s)
      PROVE  f \in Elements(Tail(s))
  <2>1. PICK i \in 1..Len(s) : f = s[i]
    BY <1>1, <1>5 DEF Elements
  <2>2. i # 1
    BY <1>1, <1>5, <2>1
  <2>3. i - 1 \in 1..(Len(s) - 1) /\ (i - 1) + 1 = i
    BY <1>1, <2>2
  <2>4. QED
    BY <1>2, <1>3, <2>1, <2>3 DEF Elements
<1>6. Injective(Tail(s))
  <2>1. SUFFICES ASSUME NEW i \in 1..Len(Tail(s)), NEW j \in 1..Len(Tail(s)),
                        Tail(s)[i] = Tail(s)[j]
                 PROVE  i = j
    BY DEF Injective
  <2>2. i + 1 \in 1..Len(s) /\ j + 1 \in 1..Len(s) /\ s[i + 1] = s[j + 1]
    BY <1>1, <1>2, <1>3, <2>1
  <2>3. i + 1 = j + 1
    BY <2>2 DEF Injective
  <2>4. QED
    BY <2>3
<1>7. Head(s) \in Elements(s)
  BY <1>1 DEF Elements
<1>8. QED
  BY <1>4, <1>5, <1>6, <1>7

LEMMA NoElements == Elements(<<>>) = {}
BY DEF Elements

\* A selection holds files of its own dataset, each once.
LEMMA SelectedElements ==
  ASSUME NEW d \in Datasets, NEW l \in Listings[d]
  PROVE  /\ Injective(Selected(l))
         /\ \A f \in Elements(Selected(l)) : DatasetOf[f] = d
         /\ Elements(Selected(l)) \subseteq Elements(l)
<1> DEFINE n == IF MaxFiles < Len(l) THEN MaxFiles ELSE Len(l)
<1>1. l \in Seq(Files)
  BY ListingsAssumption
<1>2. Len(l) \in Nat /\ n \in Nat /\ n =< Len(l) /\ DOMAIN l = 1..Len(l)
  BY <1>1, ConstantsAssumption
<1>3. /\ Selected(l) = SubSeq(l, 1, n)
      /\ Len(Selected(l)) = n /\ DOMAIN Selected(l) = 1..n
      /\ \A i \in 1..n : Selected(l)[i] = l[i]
  BY <1>1, <1>2 DEF Selected
<1>4. \A i \in 1..n : i \in 1..Len(l)
  BY <1>2
<1>0. /\ \A i \in 1..Len(l) : DatasetOf[l[i]] = d
      /\ \A i, j \in 1..Len(l) : l[i] = l[j] => i = j
  BY ListingsAssumption
<1>5. Injective(Selected(l))
  BY <1>0, <1>3, <1>4 DEF Injective
<1>6. ASSUME NEW f \in Elements(Selected(l))
      PROVE  DatasetOf[f] = d
  <2>1. PICK i \in 1..n : f = l[i]
    BY <1>3 DEF Elements
  <2>2. QED
    BY <1>0, <1>4, <2>1
<1>7. Elements(Selected(l)) \subseteq Elements(l)
  BY <1>2, <1>3, <1>4 DEF Elements
<1>8. QED
  BY <1>5, <1>6, <1>7

-----------------------------------------------------------------------------
(* Each selected file is reported once *)

LEMMA CoverInit == Init => CoverInv
<1> SUFFICES ASSUME Init PROVE CoverInv
  OBVIOUS
<1>1. NumDatasets \in Nat \ {0}
  BY ConstantsAssumption
<1>2. \A d \in Datasets : FilesIn(reports, d) = {} /\ ~(d < ds)
  BY <1>1 DEF Init, FilesIn, Datasets
<1>3. Injective(todo)
  BY DEF Init, Injective
<1>4. ReportCoversListing
  BY DEF Init, ReportCoversListing
<1>5. QED
  BY <1>1, <1>2, <1>3, <1>4 DEF Init, CoverInv, DatasetPhases, FilePhases,
     CatalogPhases

LEMMA ListingStep ==
  ASSUME \A d \in Datasets : listing[d] \in Listings[d], TypeOK, [Next]_vars
  PROVE  \A d \in Datasets : listing'[d] \in Listings[d]
<1>1. CASE \E d \in Datasets : Republish(d)
  BY <1>1 DEF Republish, TypeOK
<1>2. ASSUME ~\E d \in Datasets : Republish(d)
      PROVE  listing' = listing
  BY <1>2 DEF Next, Progress, DownloadFails, StartLoad, Resolve, SkipDownload,
     BeginDownload, ReceiveLine, FinishDownload, NormalizeAsset, KeepPrepared,
     BeginPrepare, WritePrepared, FinishPrepare, InferNothing, InferColumns,
     DropTable, FullChunk, LastChunk, CountRows, WriteCroissant, WriteCdif,
     DropCatalogTable, CreateCatalogTable, BeginPublish, FinishPublish,
     RequestFails, ReceiveFails, Abort, ConversionFails, InferFails,
     ChunkFails, env, vars
<1>3. QED
  BY <1>1, <1>2

LEMMA CoverReporting ==
  ASSUME TypeOK, FileInv, CoverInv, Reporting
  PROVE  /\ \A e1, e2 \in reports' : e1.file = e2.file => e1 = e2
         /\ \A d \in Datasets : d # ds => FilesIn(reports', d)
                                            = FilesIn(reports, d)
         /\ Injective(todo')
         /\ \E l \in Listings[ds] : Sharing(l)'
<1>1. PICK e \in Entry : reports' = reports \union {e} /\ e.file = Head(todo)
  BY DEF Reporting
<1>2. PICK l \in Listings[ds] : Sharing(l)
  BY DEF CoverInv, Reporting, DatasetPhases
<1>3. todo # <<>> /\ todo \in Seq(Files) /\ Injective(todo) /\ ds \in Datasets
      /\ reports \in SUBSET Entry
  BY DEF Reporting, FileInv, TypeOK, CoverInv
<1>4. /\ Elements(Tail(todo)) = Elements(todo) \ {Head(todo)}
      /\ Head(todo) \in Elements(todo)
      /\ Injective(Tail(todo))
  BY <1>3, TailElements
<1>5. DatasetOf[Head(todo)] = ds
  BY <1>2, <1>3, <1>4, SelectedElements DEF Sharing
<1>6. e.file \notin FilesIn(reports, ds)
  BY <1>1, <1>2, <1>4 DEF Sharing
<1>7. \A x \in reports : x.file # e.file
  BY <1>1, <1>5, <1>6 DEF FilesIn
<1>8. \A e1, e2 \in reports' : e1.file = e2.file => e1 = e2
  BY <1>1, <1>7 DEF CoverInv
<1>9. \A d \in Datasets : d # ds => FilesIn(reports', d) = FilesIn(reports, d)
  BY <1>1, <1>5 DEF FilesIn
<1>10. FilesIn(reports', ds) = FilesIn(reports, ds) \union {e.file}
  BY <1>1, <1>5 DEF FilesIn
<1>11. todo' = Tail(todo) /\ ds' = ds
  BY DEF Reporting
<1>12. /\ FilesIn(reports', ds') \union Elements(todo')
            = Elements(Selected(l))
       /\ FilesIn(reports', ds') \intersect Elements(todo') = {}
  BY <1>1, <1>2, <1>4, <1>10, <1>11 DEF Sharing
<1>13. QED
  BY <1>2, <1>4, <1>8, <1>9, <1>11, <1>12 DEF Sharing

LEMMA CoverStep == BasicInv /\ CoverInv /\ [Next]_vars => CoverInv'
<1> SUFFICES ASSUME BasicInv, CoverInv, [Next]_vars
             PROVE  CoverInv'
  OBVIOUS
<1>1. TypeOK /\ FileInv
  BY DEF BasicInv
<1>2. \A d \in Datasets : listing'[d] \in Listings[d]
  BY <1>1, ListingStep DEF CoverInv
<1>3. NumDatasets \in Nat \ {0} /\ ds \in 1..NumDatasets
  BY <1>1, ConstantsAssumption DEF TypeOK, Datasets
<1> USE DEF CoverInv, DatasetPhases, FilePhases, CatalogPhases
<1>4. ASSUME report' = report, UNCHANGED <<todo, reports, ds>>
      PROVE  /\ ReportCoversListing'
             /\ \A l \in Listings[ds] : Sharing(l)' <=> Sharing(l)
  BY <1>4 DEF ReportCoversListing, Sharing
<1>5. ASSUME report' = report
      PROVE  ReportCoversListing'
  BY <1>5 DEF ReportCoversListing
<1>6. CASE Working
  BY <1>2, <1>4, <1>6 DEF Working, published
<1>7. CASE Reporting
  <2>1. /\ \A e1, e2 \in reports' : e1.file = e2.file => e1 = e2
        /\ \A d \in Datasets : d # ds => FilesIn(reports', d)
                                           = FilesIn(reports, d)
        /\ Injective(todo')
        /\ \E l \in Listings[ds] : Sharing(l)'
    BY <1>1, <1>7, CoverReporting
  <2>2. pc' = Continue(todo') /\ pc' \in {"croissant", "file"}
        /\ (pc' = "croissant" => todo' = <<>>)
    BY <1>7 DEF Reporting, Continue
  <2>3. /\ ds' = ds /\ report' = report /\ fresh' = fresh
        /\ pc \in FilePhases
    BY <1>7 DEF Reporting, published
  <2>4. /\ \A d \in Datasets : d < ds =>
             \E l \in Listings[d] :
               FilesIn(reports', d) = Elements(Selected(l))
        /\ \A d \in Datasets : d > ds => FilesIn(reports', d) = {}
    BY <1>3, <2>1 DEF Datasets
  <2>5. QED
    BY <1>2, <1>5, <2>1, <2>2, <2>3, <2>4
<1>8. CASE Unrelated
  BY <1>2, <1>4, <1>8 DEF Unrelated, published
<1>9. CASE StartLoad
  <2>1. \A d \in Datasets : FilesIn(reports, d) = {}
    BY <1>9 DEF StartLoad, FilesIn
  <2>2. QED
    BY <1>2, <1>3, <1>5, <1>9, <2>1 DEF StartLoad, loader, Datasets
<1>10. CASE Resolve
  <2>0. PICK l \in Listings[ds] : l = listing[ds]
    BY <1>3 DEF Datasets
  <2>1. Injective(Selected(l))
    BY <1>3, SelectedElements DEF Datasets
  <2>2. FilesIn(reports, ds) = {}
    BY <1>10 DEF Resolve
  <2>3. Sharing(l)'
    <3>1. ds' = ds /\ reports' = reports /\ todo' = Selected(l)
      BY <1>10, <2>0 DEF Resolve
    <3>2. FilesIn(reports',
    ds') \union Elements(todo') = Elements(Selected(l))
      BY <2>2, <3>1
    <3>3. FilesIn(reports', ds') \intersect Elements(todo') = {}
      BY <2>2, <3>1
    <3>4. QED
      BY <2>1, <3>1, <3>2, <3>3 DEF Sharing
  <2>4. QED
    BY <1>2, <1>5, <1>10, <2>0, <2>1, <2>3 DEF Resolve, Continue
<1>11. CASE WriteCroissant
  BY <1>2, <1>4, <1>11 DEF WriteCroissant, loader
<1>12. CASE WriteCdif
  <2>1. \E l \in Listings[ds] : FilesIn(reports, ds) = Elements(Selected(l))
    BY <1>12, NoElements DEF WriteCdif, Sharing
  <2>2. CASE ds < NumDatasets
    <3>1. ds' = ds + 1 /\ pc' = "resolve"
      BY <1>12, <2>2 DEF WriteCdif
    <3>2. \A d \in Datasets : d < ds + 1 =>
            \E l \in Listings[d] : FilesIn(reports, d) = Elements(Selected(l))
      BY <1>3, <2>1 DEF Datasets
    <3>3. /\ \A d \in Datasets : d > ds + 1 => FilesIn(reports, d) = {}
          /\ FilesIn(reports, ds + 1) = {}
      BY <1>3, <2>2 DEF Datasets
    <3>4. QED
      BY <1>2, <1>5, <1>12, <3>1, <3>2, <3>3 DEF WriteCdif
  <2>3. CASE ~(ds < NumDatasets)
    BY <1>2, <1>3, <1>5, <1>12, <2>1, <2>3 DEF WriteCdif
  <2>4. QED
    BY <2>2, <2>3
<1>13. CASE DropCatalogTable
  BY <1>2, <1>4, <1>13 DEF DropCatalogTable, loader
<1>14. CASE CreateCatalogTable
  BY <1>2, <1>4, <1>14 DEF CreateCatalogTable
<1>15. CASE BeginPublish
  <2>1. ReportCoversListing'
    BY <1>15 DEF BeginPublish, ReportCoversListing
  <2>2. QED
    BY <1>2, <1>15, <2>1 DEF BeginPublish, loader
<1>16. ASSUME Exit, ReportCoversListing', fresh' => report' \in SUBSET Entry
       PROVE  CoverInv'
  <2>1. \A d \in Datasets : FilesIn(reports', d) = {}
    BY <1>16 DEF Exit, FilesIn
  <2>2. Injective(todo')
    BY <1>16 DEF Exit, Injective
  <2>3. QED
    BY <1>2, <1>3, <1>16, <2>1, <2>2 DEF Exit, Datasets
<1>17. CASE FinishPublish
  <2>1. \A d \in Datasets :
          \E l \in Listings[d] : FilesIn(reports, d) = Elements(Selected(l))
    BY <1>3, <1>17 DEF FinishPublish, Datasets
  <2>2. ReportCoversListing'
    BY <1>17, <2>1 DEF FinishPublish, ReportCoversListing
  <2>3. report' \in SUBSET Entry
    BY <1>1, <1>17 DEF FinishPublish, TypeOK
  <2>4. QED
    BY <1>16, <1>17, <2>2, <2>3 DEF FinishPublish
<1>18. CASE Ending
  BY <1>5, <1>16, <1>18 DEF Ending
<1>19. QED
  BY <1>6, <1>7, <1>8, <1>9, <1>10, <1>11, <1>12, <1>13, <1>14, <1>15, <1>17,
     <1>18, StepClasses

\* Whatever fails and whenever the process stops, a published manifest reports
\* every selected file of one listing of each dataset exactly once.
THEOREM ManifestCoversListing == Spec => []ReportCoversListing
<1>1. Init => BasicInv /\ CoverInv
  BY BasicInit, CoverInit
<1>2. BasicInv /\ CoverInv /\ [Next]_vars => (BasicInv /\ CoverInv)'
  BY BasicStep, CoverStep
<1>3. BasicInv /\ CoverInv => ReportCoversListing
  BY DEF CoverInv
<1>4. QED
  BY <1>1, <1>2, <1>3, PTL DEF Spec

-----------------------------------------------------------------------------
(* The tables a manifest names *)

\* With distinct table names, the table being loaded is no reported one.
LEMMA OtherTables ==
  ASSUME DistinctTables, TypeOK, FileInv, CoverInv, pc \in FilePhases,
         NEW e \in reports
  PROVE  TableOf[e.file] # TableOf[Head(todo)] /\ TableOf[e.file] \in Tables
<1>1. PICK l \in Listings[ds] : Sharing(l)
  BY DEF CoverInv, DatasetPhases
<1>2. /\ todo # <<>> /\ todo \in Seq(Files) /\ Injective(todo)
      /\ ds \in Datasets
  BY DEF FileInv, TypeOK, CoverInv
<1>3. e.file \in Files /\ DatasetOf[e.file] \in Datasets
      /\ TableOf[e.file] \in Tables
  BY ConstantsAssumption DEF TypeOK, Entry
<1>4. Head(todo) \in Elements(todo) /\ Head(todo) \in Files
  BY <1>2, TailElements
<1>5. DatasetOf[Head(todo)] = ds /\ Head(todo) \in Elements(l)
  BY <1>1, <1>2, <1>4, SelectedElements DEF Sharing
<1>6. CASE DatasetOf[e.file] = ds
  <2>1. e.file \in FilesIn(reports, ds)
    BY <1>6 DEF FilesIn
  <2>2. e.file # Head(todo) /\ e.file \in Elements(Selected(l))
    BY <1>1, <1>4, <2>1 DEF Sharing
  <2>3. e.file \in Elements(l)
    BY <1>1, <1>2, <2>2, SelectedElements
  <2>4. QED
    BY <1>1, <1>2, <1>3, <1>5, <2>2, <2>3 DEF DistinctTables
<1>7. CASE DatasetOf[e.file] # ds
  BY <1>3, <1>4, <1>5, <1>7 DEF DistinctTables
<1>8. QED
  BY <1>6, <1>7

LEMMA StandStep ==
  ASSUME DistinctTables
  PROVE  BasicInv /\ CoverInv /\ StandInv /\ [Next]_vars => StandInv'
<1> SUFFICES ASSUME BasicInv, CoverInv, StandInv, [Next]_vars
             PROVE  StandInv'
  OBVIOUS
<1> USE DEF StandInv, PublishedRowsStand
<1>1. TypeOK /\ FileInv
  BY DEF BasicInv
<1>2. pc # "idle" => ~fresh
  BY DEF CoverInv
<1>3. CASE Working
  <2>1. \A e \in reports : table'[TableOf[e.file]] = table[TableOf[e.file]]
    BY <1>1, <1>3, OtherTables DEF Working
  <2>2. reports' = reports /\ ~fresh'
    BY <1>2, <1>3 DEF Working, FilePhases, published
  <2>3. QED
    BY <2>1, <2>2
<1>4. CASE Reporting
  BY <1>2, <1>4 DEF Reporting, FilePhases, published
<1>5. CASE Unrelated
  BY <1>5 DEF Unrelated, published
<1>6. CASE StartLoad \/ Resolve \/ WriteCroissant \/ WriteCdif
           \/ DropCatalogTable \/ CreateCatalogTable \/ BeginPublish
  BY <1>2, <1>6 DEF StartLoad, Resolve, WriteCroissant, WriteCdif, loader,
     DropCatalogTable, CreateCatalogTable, BeginPublish
<1>7. CASE FinishPublish
  BY <1>7 DEF FinishPublish, Exit
<1>8. CASE Ending
  BY <1>2, <1>8 DEF Ending, Exit
<1>9. QED
  BY <1>3, <1>4, <1>5, <1>6, <1>7, <1>8, StepClasses

\* When no two files share a table name,
\* every table a finished load's manifest
\* names exists with the row count given, until the next load is started.
THEOREM PublishedTablesStand ==
  ASSUME DistinctTables
  PROVE  Spec => []PublishedRowsStand
<1>1. Init => BasicInv /\ CoverInv /\ StandInv
  <2>1. Init => StandInv
    BY DEF Init, StandInv, PublishedRowsStand
  <2>2. QED
    BY <2>1, BasicInit, CoverInit
<1>2. BasicInv /\ CoverInv /\ StandInv /\ [Next]_vars
        => (BasicInv /\ CoverInv /\ StandInv)'
  BY BasicStep, CoverStep, StandStep
<1>3. BasicInv /\ CoverInv /\ StandInv => PublishedRowsStand
  BY DEF StandInv
<1>4. QED
  BY <1>1, <1>2, <1>3, PTL DEF Spec

-----------------------------------------------------------------------------
(* Tables made from prepared copies that every load rewrites *)

LEMMA RewriteStep == BasicInv /\ RewriteInv /\ [Next]_vars => RewriteInv'
<1> SUFFICES ASSUME BasicInv, RewriteInv, [Next]_vars
             PROVE  RewriteInv'
  OBVIOUS
<1> DEFINE Later == {"infer", "drop", "chunk", "count"}
<1>1. TypeOK /\ FileInv
  BY DEF BasicInv
<1>2. ASSUME pc' \notin Later \union {"preparing"}
      PROVE  RewriteInv'
  BY <1>2 DEF RewriteInv
<1>3. ASSUME UNCHANGED <<prepared, todo>>, pc \in Later, pc' \in Later
      PROVE  RewriteInv'
  BY <1>3 DEF RewriteInv
<1>4. CASE UNCHANGED <<prepared, todo, pc>>
  BY <1>4 DEF RewriteInv
<1>5. CASE KeepPrepared
  BY <1>5 DEF KeepPrepared, PreparedIsKept, RewriteInv, disk, loader
<1>6. CASE BeginPrepare
  <2>1. todo # <<>>
    BY <1>1, <1>6 DEF FileInv, FilePhases, BeginPrepare
  <2>2. prepared' = [prepared EXCEPT ![SlotOf[Head(todo)]] =
                       [of |-> Head(todo), lines |-> 0, end |-> "whole"]]
        /\ pc' = "preparing" /\ todo' = todo
    BY <1>6 DEF BeginPrepare, loader
  <2>3. SlotOf[Head(todo)] \in Slots
    BY <1>1, <2>1, FirstFile
  <2>4. prepared'[SlotOf[Head(todo)]] = [of |-> Head(todo), lines |-> 0, end |-> "whole"]
    BY <1>1, <2>2, <2>3 DEF TypeOK
  <2>5. QED
    BY <2>2, <2>4 DEF RewriteInv
<1>7. CASE WritePrepared
  <2> DEFINE s == SlotOf[Head(todo)]
  <2>1. s \in Slots
    BY <1>1, <1>7, FirstFile DEF FileInv, FilePhases, WritePrepared
  <2>2. prepared' = [prepared EXCEPT ![s].lines = @ + 1]
        /\ pc = "preparing" /\ pc' = pc /\ todo' = todo
    BY <1>7 DEF WritePrepared, loader
  <2>3. prepared[s] \in Prepared
    BY <1>1, <2>2 DEF FileInv
  <2>4. prepared'[s].of = prepared[s].of /\ prepared'[s].end = prepared[s].end
    BY <1>1, <2>1, <2>2, <2>3 DEF TypeOK, Prepared
  <2>5. QED
    BY <2>2, <2>4 DEF RewriteInv
<1>8. CASE FinishPrepare
  <2>1. /\ pc = "preparing" /\ pc' = "infer"
        /\ prepared[SlotOf[Head(todo)]].lines = LinesToWrite
        /\ todo' = todo /\ prepared' = prepared
    BY <1>8 DEF FinishPrepare, disk, loader
  <2>2. QED
    BY <2>1 DEF RewriteInv, LinesToWrite
<1>9. CASE InferColumns \/ DropTable \/ FullChunk \/ LastChunk
  BY <1>3, <1>9 DEF InferColumns, DropTable, FullChunk, LastChunk, disk,
     loader
<1>10. CASE \/ StartLoad \/ Resolve \/ SkipDownload \/ BeginDownload
            \/ FinishDownload \/ NormalizeAsset \/ InferNothing
            \/ CountRows \/ DownloadFails
  BY <1>2, <1>10 DEF StartLoad, Resolve, SkipDownload, BeginDownload,
     FinishDownload, NormalizeAsset, InferNothing, CountRows, DownloadFails,
     RequestFails, ReceiveFails, ReportFile, Continue
<1>11. CASE ReceiveLine \/ \E d \in Datasets : Republish(d)
  BY <1>4, <1>11 DEF ReceiveLine, Republish, disk, loader
<1>12. CASE \/ WriteCroissant \/ WriteCdif \/ DropCatalogTable
            \/ CreateCatalogTable \/ BeginPublish \/ FinishPublish \/ Abort
            \/ GivesUp
  BY <1>2, <1>12 DEF WriteCroissant, WriteCdif, DropCatalogTable,
     CreateCatalogTable, BeginPublish, FinishPublish, Abort, Exit,
     GivesUp, ConversionFails, InferFails, ChunkFails
<1>13. CASE UNCHANGED vars
  BY <1>4, <1>13 DEF vars
<1>14. QED
  BY <1>5, <1>6, <1>7, <1>8, <1>9, <1>10, <1>11, <1>12, <1>13
     DEF Next, Progress, GivesUp

LEMMA ExactStep ==
  ASSUME DistinctTables
  PROVE  BasicInv /\ CoverInv /\ RewriteInv /\ ExactInv /\ [Next]_vars
           => ExactInv'
<1> SUFFICES ASSUME BasicInv, CoverInv, RewriteInv, ExactInv, [Next]_vars
             PROVE  ExactInv'
  OBVIOUS
<1> USE DEF ExactInv, RewrittenTablesExact, HoldsItsFile
<1>1. TypeOK /\ FileInv
  BY DEF BasicInv
<1>2. pc # "idle" => ~fresh
  BY DEF CoverInv
<1>3. CASE Working
  <2>1. \A e \in reports : table'[TableOf[e.file]] = table[TableOf[e.file]]
    BY <1>1, <1>3, OtherTables DEF Working
  <2>2. reports' = reports /\ ~fresh'
    BY <1>2, <1>3 DEF Working, FilePhases, published
  <2>3. QED
    BY <2>1, <2>2
<1>4. CASE Reporting
  <2>1. PICK e \in Entry : /\ reports' = reports \union {e}
                           /\ e.file = Head(todo)
                           /\ Loaded(e) => pc = "count"
    BY <1>4 DEF Reporting
  <2>2. table' = table /\ ~fresh'
    BY <1>2, <1>4 DEF Reporting, FilePhases, published
  <2>3. Loaded(e) /\ Kind[e.file] = "rewritten" => HoldsItsFile(e)
    <3> DEFINE p == prepared[SlotOf[Head(todo)]]
    <3>1. SUFFICES ASSUME pc = "count", Kind[Head(todo)] = "rewritten"
                   PROVE  HoldsItsFile(e)
      BY <2>1
    <3>2. table[TableOf[Head(todo)]] = [of |-> p, rows |-> p.lines - 1]
      BY <3>1 DEF BasicInv, ChunkInv, ChunksExact
    <3>3. /\ p.of = Head(todo) /\ p.end = "whole"
          /\ p.lines = SheetLines[Head(todo)]
      BY <3>1 DEF RewriteInv
    <3>4. p = [of |-> p.of, lines |-> p.lines, end |-> p.end]
      BY <1>1, <3>1 DEF FileInv, Prepared
    <3>5. p = WholeCopy(Head(todo))
      BY <3>1, <3>3, <3>4 DEF WholeCopy
    <3>6. QED
      BY <2>1, <3>2, <3>5
  <2>4. QED
    BY <2>1, <2>2, <2>3
<1>5. CASE Unrelated
  BY <1>5 DEF Unrelated, published
<1>6. CASE StartLoad \/ Resolve \/ WriteCroissant \/ WriteCdif
           \/ DropCatalogTable \/ CreateCatalogTable \/ BeginPublish
  BY <1>2, <1>6 DEF StartLoad, Resolve, WriteCroissant, WriteCdif, loader,
     DropCatalogTable, CreateCatalogTable, BeginPublish
<1>7. CASE FinishPublish
  BY <1>7 DEF FinishPublish, Exit
<1>8. CASE Ending
  BY <1>2, <1>8 DEF Ending, Exit
<1>9. QED
  BY <1>3, <1>4, <1>5, <1>6, <1>7, <1>8, StepClasses

\* When no two files share a table name, the table published for a file whose
\* prepared copy is rewritten by every load (normalize_tabular_file of CODATA
\* and XLSX) holds all of that file's rows and no others, until the next load
\* is started.
THEOREM RewrittenTablesStand ==
  ASSUME DistinctTables
  PROVE  Spec => []RewrittenTablesExact
<1>1. Init => BasicInv /\ CoverInv /\ RewriteInv /\ ExactInv
  <2>1. Init => RewriteInv /\ ExactInv
    BY DEF Init, RewriteInv, ExactInv, RewrittenTablesExact
  <2>2. QED
    BY <2>1, BasicInit, CoverInit
<1>2. BasicInv /\ CoverInv /\ RewriteInv /\ ExactInv /\ [Next]_vars
        => (BasicInv /\ CoverInv /\ RewriteInv /\ ExactInv)'
  BY BasicStep, CoverStep, RewriteStep, ExactStep
<1>3. BasicInv /\ CoverInv /\ RewriteInv /\ ExactInv => RewrittenTablesExact
  BY DEF ExactInv
<1>4. QED
  BY <1>1, <1>2, <1>3, PTL DEF Spec

-----------------------------------------------------------------------------
(* Sidecars, catalog tables and manifest *)

LEMMA LayersStep ==
  BasicInv /\ CoverInv /\ LayersInv /\ [Next]_vars => LayersInv'
<1> SUFFICES ASSUME BasicInv, CoverInv, LayersInv, [Next]_vars
             PROVE  LayersInv'
  OBVIOUS
<1>1. TypeOK /\ FileInv
  BY DEF BasicInv
<1>2. pc # "idle" => ~fresh
  BY DEF CoverInv
<1>3. NumDatasets \in Nat \ {0} /\ ds \in 1..NumDatasets
  BY <1>1, ConstantsAssumption DEF TypeOK, Datasets
<1>4. ci \in 1..3 /\ Len(CatalogTables) = 3
  BY <1>1 DEF TypeOK, CatalogTables
<1>5. fresh' => PublishedLayersAgree'
  <2>1. CASE FinishPublish
    <3>1. ds = NumDatasets /\ pc \in CatalogPhases
      BY <2>1 DEF FinishPublish, CoverInv, CatalogPhases
    <3>2. \A d \in Datasets :
            croissant[d] = ReportsOf(d) /\ cdif[d] = ReportsOf(d)
      BY <1>3, <3>1 DEF LayersInv, Datasets
    <3>3. \A c \in 1..3 : catalog[c] = reports
      BY <2>1 DEF FinishPublish, LayersInv
    <3>4. QED
      BY <2>1, <3>2, <3>3 DEF FinishPublish, PublishedLayersAgree, ReportsOf,
         sidecar
  <2>2. CASE Unrelated
    BY <2>2 DEF Unrelated, published, LayersInv, PublishedLayersAgree
  <2>3. CASE ~FinishPublish /\ ~Unrelated
    BY <1>2, <2>3, StepClasses DEF Working, Reporting, StartLoad, Resolve,
       WriteCroissant, WriteCdif, DropCatalogTable, CreateCatalogTable,
       BeginPublish, Ending, FilePhases, published
  <2>4. QED
    BY <2>1, <2>2, <2>3
<1>6. PublishedLayersAgree'
  BY <1>5 DEF PublishedLayersAgree
<1> USE DEF LayersInv, CatalogPhases
<1>7. ASSUME UNCHANGED <<ds, reports, ci, croissant, cdif>>,
             pc \notin CatalogPhases, pc' \notin CatalogPhases \union {"cdif"}
      PROVE  LayersInv'
  BY <1>6, <1>7 DEF ReportsOf
<1>8. CASE Working
  BY <1>7, <1>8 DEF Working, published, FilePhases
<1>9. CASE Reporting
  <2>1. PICK e \in Entry : reports' = reports \union {e} /\ e.file = Head(todo)
    BY <1>9 DEF Reporting
  <2>2. DatasetOf[e.file] = ds
    <3>1. PICK l \in Listings[ds] : Sharing(l)
      BY <1>9 DEF CoverInv, Reporting, DatasetPhases
    <3>2. todo # <<>> /\ todo \in Seq(Files) /\ Injective(todo)
          /\ ds \in Datasets
      BY <1>1, <1>9 DEF Reporting, FileInv, TypeOK, CoverInv
    <3>3. QED
      BY <2>1, <3>1, <3>2, TailElements, SelectedElements DEF Sharing
  <2>3. \A d \in Datasets : d < ds => ReportsOf(d)' = ReportsOf(d)
    BY <1>3, <2>1, <2>2 DEF ReportsOf, Datasets
  <2>4. QED
    BY <1>6, <1>9, <2>3 DEF Reporting, published, FilePhases, Continue
<1>10. CASE Unrelated
  BY <1>6, <1>10 DEF Unrelated, published, ReportsOf
<1>11. CASE StartLoad \/ Resolve
  BY <1>7, <1>11 DEF StartLoad, Resolve, sidecar, loader, Continue
<1>12. CASE WriteCroissant
  BY <1>1, <1>3, <1>6, <1>12 DEF WriteCroissant, loader, ReportsOf, TypeOK,
     Datasets
<1>13. CASE WriteCdif
  <2>1. cdif' = [cdif EXCEPT ![ds] = ReportsOf(ds)] /\ ds \in Datasets
        /\ cdif \in [Datasets -> {None, Torn} \union SUBSET Entry]
    BY <1>1, <1>13 DEF WriteCdif, TypeOK
  <2>2. cdif'[ds] = ReportsOf(ds)
    BY <2>1
  <2>3. \A d \in Datasets : d < ds => cdif'[d] = ReportsOf(d)
    BY <1>3, <2>1
  <2>4. \A d \in Datasets : d =< ds => croissant[d] = ReportsOf(d)
    BY <1>3, <1>13 DEF WriteCdif, Datasets
  <2>5. \A d \in Datasets : d =< ds => cdif'[d] = ReportsOf(d)
    BY <1>3, <2>2, <2>3 DEF Datasets
  <2>6. \A d \in Datasets : ReportsOf(d)' = ReportsOf(d)
    BY <1>13 DEF WriteCdif, ReportsOf
  <2>7. CASE ds < NumDatasets
    <3>1. /\ ds' = ds + 1 /\ pc' = "resolve" /\ ci' = ci
          /\ UNCHANGED <<croissant, catalog, reports>> /\ pc = "cdif"
      BY <1>13, <2>7 DEF WriteCdif
    <3>2. \A d \in Datasets : d < ds' => d =< ds
      BY <1>3, <3>1 DEF Datasets
    <3>3. QED
      BY <1>6, <2>4, <2>5, <2>6, <3>1, <3>2
  <2>8. CASE ~(ds < NumDatasets)
    <3>1. /\ ds' = ds /\ pc' = "drop_catalog" /\ ci' = ci /\ ci' = 1
          /\ UNCHANGED <<croissant, catalog, reports>> /\ pc = "cdif"
      BY <1>13, <2>8 DEF WriteCdif
    <3>2. QED
      BY <1>3, <1>6, <2>1, <2>2, <2>4, <2>5, <2>6, <3>1 DEF Datasets
  <2>9. QED
    BY <2>7, <2>8
<1>14. CASE DropCatalogTable
  BY <1>1, <1>4, <1>6, <1>14 DEF DropCatalogTable, loader, sidecar, ReportsOf,
     TypeOK
<1>15. CASE CreateCatalogTable
  <2>1. \A c \in 1..3 : c =< ci => catalog'[c] = reports
    BY <1>1, <1>4, <1>15 DEF CreateCatalogTable, TypeOK
  <2>2. QED
    BY <1>4, <1>6, <1>15, <2>1 DEF CreateCatalogTable, sidecar, ReportsOf
<1>16. CASE BeginPublish
  BY <1>6, <1>16 DEF BeginPublish, loader, sidecar, ReportsOf
<1>17. CASE FinishPublish \/ Ending
  BY <1>6, <1>17 DEF FinishPublish, Ending, Exit, Datasets
<1>18. QED
  BY <1>8, <1>9, <1>10, <1>11, <1>12, <1>13, <1>14, <1>15, <1>16, <1>17,
     StepClasses

\* A finished load leaves the manifest,
\* the catalog tables and both sidecars of
\* every dataset describing the same files, until the next load is started.
THEOREM PublishedLayersStand == Spec => []PublishedLayersAgree
<1>1. Init => IInv
  <2>1. Init => LayersInv
    BY ConstantsAssumption DEF Init, LayersInv, PublishedLayersAgree,
       Datasets,
       CatalogPhases
  <2>2. QED
    BY <2>1, BasicInit, CoverInit DEF IInv
<1>2. IInv /\ [Next]_vars => IInv'
  BY BasicStep, CoverStep, LayersStep DEF IInv
<1>3. IInv => PublishedLayersAgree
  BY DEF IInv, LayersInv
<1>4. QED
  BY <1>1, <1>2, <1>3, PTL DEF Spec

-----------------------------------------------------------------------------
(* Old tables are replaced, not lost *)

\* A table is only dropped for a file that was downloaded to the end and whose
\* prepared copy has a header and a readable sample.
THEOREM DropsAreReplacements == Spec => DroppedOnlyToReplace
<1>1. ASSUME BasicInv, [Next]_vars, NEW t \in Tables, table[t] # None,
             table'[t] = None
      PROVE  Replaceable(t)
  <2>0. TypeOK /\ FileInv /\ ChunkInv
    BY <1>1 DEF BasicInv
  <2>1. CASE DropTable
    <3>1. todo # <<>> /\ Head(todo) \in Files
      BY <2>0, <2>1, FirstFile DEF DropTable, FileInv, FilePhases
    <3>2. /\ raw[Head(todo)] = Lines[Head(todo)]
          /\ prepared[SlotOf[Head(todo)]] \in Prepared
          /\ prepared[SlotOf[Head(todo)]].lines > 0
          /\ ~SampleIsBad
      BY <2>0, <2>1 DEF DropTable, FileInv
    <3>3. t = TableOf[Head(todo)]
      BY <1>1, <2>0, <2>1 DEF DropTable, TypeOK
    <3>4. QED
      BY <3>1, <3>2, <3>3, NoneAssumption DEF Replaceable, SampleIsBad
  <2>2. ASSUME NEW n \in Nat, WriteChunk(n), pc = "chunk"
        PROVE  FALSE
    <3>1. prepared[SlotOf[Head(todo)]] \in Prepared
      BY <2>0, <2>2 DEF FileInv
    <3>2. table'[t] = table[t] \/ table'[t] \in Table
      BY <1>1, <2>0, <2>2, WriteChunkResult DEF TypeOK
    <3>3. QED
      BY <1>1, <3>2, NoneAssumption
  <2>3. CASE FullChunk
    BY <2>2, <2>3, ConstantsAssumption DEF FullChunk
  <2>4. CASE LastChunk
    <3>1. RowsLeft \in Nat
      BY <2>0, <2>4 DEF LastChunk, RowsLeft, ChunkInv, FileInv, Prepared,
         TypeOK
    <3>2. QED
      BY <2>2, <2>4, <3>1 DEF LastChunk
  <2>5. CASE ~DropTable /\ ~FullChunk /\ ~LastChunk
    <3>1. table' = table
      BY <1>1, <2>5 DEF Next, Progress, DownloadFails, StartLoad, Resolve,
         SkipDownload, BeginDownload, ReceiveLine, FinishDownload,
         NormalizeAsset, KeepPrepared, BeginPrepare, WritePrepared,
         FinishPrepare, InferNothing, InferColumns, CountRows, WriteCroissant,
         WriteCdif, DropCatalogTable, CreateCatalogTable, BeginPublish,
         FinishPublish, RequestFails, ReceiveFails, Abort, ConversionFails,
         InferFails, ChunkFails, Republish, vars
    <3>2. QED
      BY <1>1, <3>1
  <2>6. QED
    BY <2>1, <2>3, <2>4, <2>5
<1>2. BasicInv /\ [Next]_vars =>
        [\A t \in Tables :
           table[t] # None /\ table'[t] = None => Replaceable(t)]_vars
  BY <1>1
<1>3. QED
  BY <1>2, BasicInvariant, PTL DEF Spec, DroppedOnlyToReplace
=============================================================================
