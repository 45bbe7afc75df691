# A verification development for QueryGraph (`qg-rust`)

These modules model the parts of QueryGraph whose correctness depends on the
order of things: what an interrupted bulk load leaves behind, what concurrent
runs do to the Spark session and the files they share, what the HTTP service
does when requests overlap and clients leave, what a tool server answers to lines
that are pipelined through pipes that fill. TLC checks each module on small
instances. With TLAPS, every safety property those runs check is also proved, for
every value of the constants: of the loader and the two commands that read what
it leaves, the column inference, staging, the lineage sinks, the HTTP service,
the MCP session and the governed story. Paths below are relative to the repository (`src/src/...`
is its Rust source).

## 1. The system

| Component | State it keeps | Operations | Interacts through |
|---|---|---|---|
| Lakehouse loader (`lakehouse/`) | `raw/`, `prepared/`, `semantic/`, `manifest/load-report.json` on disk; typed and catalog tables in Sail | `lakehouse-load` | Dataverse downloads; one Spark session; the manifest |
| Lakehouse verifier (`lakehouse/mod.rs`) | none | `lakehouse-verify` | the manifest; counts in the loader's Spark session |
| Bundle validation (`validation.rs`) | none | `lakehouse-validate` | the manifest; the Croissant and CDIF documents it names |
| Column inference (`lakehouse/infer.rs`) | flags per column | sample, choose a type, write with `TRY_CAST` | the prepared file; the table; the column catalog |
| Dataverse client (`dataverse.rs`) | none | search, fetch | HTTP |
| Semantic staging (`sail/`) | JSONL files under `sail_dir`; temporary views of a shared session; a graph in Sail | stage files, stage and count views, put and read back the graph | files, Sail |
| Governed agent run (`agent/`, `rbac.rs`, `odrl.rs`) | none | decide, answer, sign | data of the run |
| Lineage sinks (`lineage/`) | JSONL file, DID ledger file, two Sail audit tables | emit, append | files, HTTP, temporary views of a shared session |
| HTTP service (`server.rs`) | model registry (read-write lock); configuration | import, list, get, search, answer, remember, recall, forget | tasks of the runtime, blocking jobs, registry, memory |
| Persistent memory (`memory.rs`) | records in a Grust database, a policy | remember, recall, forget | blocking jobs |
| TypeDID envelopes (`agent/interop.rs`) | none | sign, verify | header of a request |
| MCP server (`mcp.rs`) | model registry of the session | one JSON-RPC message per line; six tools | standard input and output |
| Semantic models (`osi.rs`, `server.rs`) | none | make one of a Croissant document, search, answer | registries of the two servers |
| Policies (`rbac.rs`, `odrl.rs`) | none | decide, allows | the agent run, the story |
| QGLake story (`qglake/`) | none | tell one story | policies, envelopes; the two servers and the command line |
| Converters (`croissant.rs`, `cdif.rs`, `codata.rs`, `navigator.rs`, `did.rs`, `cypher.rs`, `a2a.rs`) | none | JSON to JSON | values |
| LakeCat import (`lakecat/`) | none | check one document | values |

`dataverse-e2e` chains client, staging, agent run and sinks in one process.
`lakehouse-load`, `lakehouse-verify` and `lakehouse-validate` are separate
processes that meet in Sail, in the manifest and in the documents it names. The
HTTP service and the MCP server are independent of these and of each other, and
share `search_model`, `answer_over_models` and `run_qglake_story`.

### What is hard, and what makes each part correct

* **Loader.** Killed anywhere, rerun any number of times, with listings that
  change in between. Correct if a raw file is never partial, chunking neither
  loses nor repeats rows, a table is dropped only to be replaced, the manifest
  covers one listing of each dataset and agrees with tables, catalog and
  sidecars until the next load, loads end, and reruns converge unless a listed
  file cannot be read.
* **Verifier.** Races with the loader. Correct if it ends and is silent as long
  as nothing was loaded since the manifest was written.
* **Validator.** Opens one document after the other while a load rewrites them.
  Correct if it ends, whatever it finds, and notes nothing but datasets without
  files as long as nothing was loaded since the manifest was written.
* **Column inference.** A decision taken from a prefix and applied to the whole
  with another function. Correct if the incremental flags decide as the whole
  sample would and only cells the cast cannot represent become NULL.
* **Staging.** Skipped fetches, crashes inside `fs::write`, views and counts in
  a session that outlives the run, a graph only ever added to. Correct if what
  an answer is based on is what is staged, counted and in the graph.
* **Sinks.** No transaction, no undo, appends that a crash cuts short, a probe
  followed by a create. Correct if the ledger comes last, a torn line spoils a
  bounded number of lines, and audit rows are neither lost nor doubled.
* **HTTP service.** Overlapping handlers, jobs that outlive their handler,
  restarts that forget the registry but not the memory. Correct if registry
  calls are atomic, effects are authorized for exactly that body and route,
  memories are kept once, and requests end.
* **MCP server.** Lines written ahead of the answers, pipes that fill, lines that
  are no requests, a side that leaves, imports that replace a model. Correct if
  each request has one answer, in order, made of exactly the imports before it,
  if notifications have no effect, and if a client that reads is never kept
  waiting.
* **Semantic models.** Names that repeat across models and kinds, and that
  `safe_sql_name` makes equal. Correct if an answer plans for exactly the
  datasets its question is about, in the models that stand.
* **Story and policies.** Receipts made while roles are still being assigned,
  three flags that must agree on a denial, copies of it in three places. Correct
  if the receipts stand under the published policy, no agent may touch another
  one's compartment, and restricted data contributes a denial only.

`PROJECT.json` lists each hazard at its line with the property that covers it.

## 2. Modules

| Module | Models | Abstract data |
|---|---|---|
| `LakehouseLoad` | the whole of `lakehouse-load` | a file is its number of lines and where they are not UTF-8 or not ASCII; a prepared copy also how it ends; a table is which copy's rows it holds and how many |
| `LakehouseVerify` | `lakehouse-verify` beside the loader (extends it) | |
| `LakehouseValidate` | `lakehouse-validate` beside the loader (extends `LakehouseVerify`) | a document is the reports it is made of |
| `LakehouseLoadProofs` | theorems about `LakehouseLoad` | |
| `LakehouseValidateProofs` | theorems about the verifier and the validator (extends `LakehouseLoadProofs`) | |
| `ColumnInference` | typing and casting one column | a cell is its form: what the tests and the casts make of it |
| `ColumnInferenceProofs` | theorems about `ColumnInference` | |
| `DataverseStage` | `dataverse-e2e` up to the answer, several runs | a dataset is its id and its list of files |
| `DataverseStageProofs` | theorems about `DataverseStage` | |
| `LineageEmit` | `dataverse-e2e` from the event to the report, several runs | an event is the run it belongs to; a line is a sequence of writes |
| `LineageEmitProofs` | theorems about `LineageEmit` | |
| `ModelRegistry` | what both servers promise of their registries: an atomic map | |
| `HttpServer` | the service; implements `ModelRegistry` | a body is a document, a memory's contents or a list of these; an envelope is what was signed by whom for what |
| `HttpServerProofs` | theorems about `HttpServer` | |
| `SemanticModels` | documents, searches and answers as operators | a text is the set of words it contains; a list is a set |
| `Policies` | RBAC and ODRL decisions as operators | |
| `QgLakeStory` | the story as a function of its specialists, and what makes one governed | an agent's DID is its name; an envelope is sender, recipient, resource, payload |
| `QgLakeStoryProofs` | a theorem about `QgLakeStory` | |
| `McpSession` | `mcp-serve` with its client; implements `ModelRegistry` | a line is its message; its place stands for its id |
| `McpSessionProofs` | theorems about `McpSession` | |
| `MC*` | instances for TLC | |

State and actions carry the source's names where TLA+ allows it; `map` in
`PROJECT.json` gives the lines of each definition. An operator whose comment
begins with "Mutant:" is no part of any specification: it is a plausible bug in
the definition that follows it and shows that a property can be violated.

### Correspondence

**`LakehouseLoad`.** `pc` is the place in the loader's single thread.
`Resolve` is the selection of files in `load_one_dataset`; the download actions
are the branches of `download_if_missing` (early return, request, `read` loop,
rename); `KeepPrepared`, `BeginPrepare`, `WritePrepared` and `FinishPrepare`
are `normalize_tabular_file`, which copies CSV files once (`PreparedIsKept`)
and rewrites spreadsheets and CODATA tables, into a tabular copy of another
length (`SheetLines`); `InferNothing`, `InferColumns`, `DropTable`,
`FullChunk`, `LastChunk` and `CountRows` are the rest of `load_one_file`;
`ReportFile` is what every return of it does. `ConversionFails`, `InferFails`
and `ChunkFails` are its errors that come from the files themselves: a workbook
that cannot be opened, a line that is not UTF-8, met in the conversion, in the
header and the sample, or after the drop. The `?` carries them out of the whole
load, and no rerun gets past them. Sidecars, the three catalog
tables (dropped and created one by one) and the two halves of the `fs::write`
of the manifest follow. `Abort` ends the process at any step: locals are lost,
disk and Sail stay, and the file it was writing may end anywhere (`TornFile`):
the prepared copy with a line, inside a line, or, where the line is not ASCII,
inside a character. `Republish` is the repository's.

**`DataverseStage`.** `step[r]` and `at[r]` are the place of run `r` in the
loops over datasets and their two kinds of rows. `OpenFile` and `WriteFile` are
the halves of `fs::write`; `StageView`, `StageView`, `CountRows`, `CountRows`
is the body of `stage_dataverse_views`; `PutNodes`, `PutEdges` and `Verify` are
`put_graph` and `get_node`. `LineageEmit` continues where `Answer` ends.

**`LineageEmit`.** `SinkOrder` is the order of the `if`s in `main`;
`WritePiece` and `WriteNewline` are the writes behind `serde_json::to_writer`
and `write_all`; `StageView`, `ProbeTable`, `InsertRow` and `CreateTable` are
`append_rows`, once per table.

**`HttpServer`.** A handler is cut where it can be interrupted: at the body, at
the blocking job, at the answer, and where it takes the lock. `Authorized` is
the conjunction `envelope_auth` computes, `NeedsEnvelope` the two
`route_layer`s of `build_router`. `DropHandler` turns a job into an orphan,
which goes on and answers nobody. `MemoryDenied` is the guard's verdict,
`RouterRefuses`, `ForgetStops` and `StoreFails` are what the memory router may
still answer; a list of records may by then have been forgotten in part.
`Restart` forgets the registry.

**`LakehouseValidate`.** `OpenManifest` is what comes before the loop over the
datasets, `ReadDocument` is `validate_json_file` with whatever its read may
find, `NextDocument` the loop. `ShapeMessages` are the two validators, as far as
a document of the loader can fail them.

**`McpSession`.** `ReadLine`, `ReadEof`, `Handle`, `WriteResponse` and
`WriteFails` are the loop of `run_stdio`, cut where it waits for the client.
`Owed` is the early returns of `handle_line`, `Says` is `dispatch`, `CallTool`
is `call_tool` with its two ways to report an error, `Registered` the insertion
that only an accepted import makes. The four client actions are external.

**`SemanticModels`, `QgLakeStory`, `Policies`.** One operator per function of
the source; the five parts of `Search` are the loops of `search_model`,
`SpecialistRun` is the body of the loop in `run_qglake_story`.

## 3. Runs

Every property of a passing run has a mutant in `PROJECT.json` that violates it.

| Run | Question | Bounds |
|---|---|---|
| `LakehouseLoad` | Is what loads leave on disk, in Sail and in the manifest whole and consistent, with crashes, failed downloads and changing listings? | two datasets, eight files, chunks of two rows, a sample of one record, at most two files per dataset, where one listing has three, three faults (crashes, failed downloads and new listings together), any number of loads |
| `LakehouseValidate` | Do loads end and reruns converge, and does a verifier or a validator beside them end without false alarms? | two datasets, one that lists a CSV file and a spreadsheet of two chunks or, in another version, a workbook that cannot be opened, and one without files; two faults |
| `LakehouseTornCopy` (violation) | Does a published table hold its file? | one CSV file, two faults |
| `LakehouseCollision` (violation) | The same for two file names that map to one table | two files, no faults |
| `ColumnInference` | Do flags decide as the sample does, and which cells become NULL? | every column of up to four records of 14 forms, three of them sampled |
| `ColumnNulls` (violation) | Has a column recorded as not nullable no NULL? | every column of up to three records |
| `DataverseStage` | Is what a run answers from what it staged, counted and put in the graph? | two runs that may overlap, two datasets, one republication, one fault |
| `LineageEmit` | What do the sinks hold after runs, some of which fail or overlap? | three runs of which the first two may overlap, two writes per line, two faults |
| `LineageOverlap` (violation) | Do the audit tables hold what two overlapping runs report? | two runs, no faults |
| `HttpServer` | Are registry calls atomic, effects authorized, memories kept once? | three requests, two at a time, 19 kinds of request, two faults (failures, clients that leave, restarts) |
| `HttpServerLive` | Do requests end? | two requests, one fault |
| `McpSession` | What is a client answered, and is it kept waiting? | sessions of three lines of 16 kinds, two lines to a pipe, four documents, of which two have one name after `safe_sql_name` |

Why the bounds are enough:

* *Loader.* Two rows per chunk make the last chunk empty, partial, the only one,
  or empty and the only one. The eight files are one of each way through
  `load_one_file` and out of it: a spreadsheet and a newer version of it whose
  sheet is empty, a file without a byte, one with a header only, one of two
  chunks with lines that are not ASCII in the sample and past it, an asset, a
  conversion that breaks off and one that never begins. Three faults allow a
  failed load, a new listing and a failed rerun, so a load finds the debris of
  two.
  Nothing in the loader relates more than two datasets: the second one is
  enough for "the loop goes on after a failure".
* *Column inference.* The code treats records independently up to a
  conjunction, so any disagreement shows with two values and a missing one;
  the fourth record is beyond the sample.
* *Staging.* One republication makes the rows of two runs differ, which is what
  stale views and overlaid writes need; two runs are what an overlap needs, and
  a fault in the first leaves debris for the second.
* *Sinks.* Two writes and a newline are the shortest line that can be torn at
  more than one place; the third run meets what two overlapping ones left.
* *Service.* Two requests at a time give every pair of handler segments; the
  third meets the effect of both, or of a restart. One document and one memory
  are sent with misused envelopes only (no envelope, another signer, route, body,
  server or action, tampered with, a subject who may not), so that each check of
  `envelope_auth` and the policy keep them out; a list to forget names a memory
  that is there and one that is not.
* *Verifier and validator.* Both only read, so one of them at a time is enough;
  a dataset with two tables, whose next version cannot be loaded, and one without
  files are enough for the place of a reader relative to the loader and for what
  the validator notes; what relates two datasets with files is in
  `LakehouseLoad`. A line that is not ASCII lets a killed load leave a copy
  that blocks the loads after it, which `RerunsConverge` must tell from debris
  that does not.
* *MCP session.* An import, another one that replaces it, and a question about
  both is the longest story the registry has to tell; a line that is no request
  in any of the three places shifts the answers around it. Three lines against
  pipes of two make each side wait for the other. Longer sessions and larger
  pipes are covered by the proofs.

`CHECK_DEADLOCK FALSE` appears where the system ends: after the last run, when
the requests are spent, when the column is written. The loader can always be
started again and its runs check for deadlock.

### Disagreements the violation runs show

* **A truncated prepared copy is kept** (`normalize.rs:104`). `prepared_copy`
  copies to the final path and keeps a file that is not empty, so a load that
  is killed during the copy leaves a prefix which every later load turns into
  the table. A copy cut inside a character is worse: `infer_typed_columns` fails
  on it (`infer.rs:26`) and the `?` at `load.rs:348` ends every later load, until
  somebody removes it. `download_if_missing`, ten lines further down, avoids just
  this with a temporary file and a rename.
* **Two files, one table** (`load.rs:337`). `safe_sql_name` maps different file
  names to one table name and one prepared directory.
* **Grouped digits become NULL** (`infer.rs:109`). The tests drop commas, the
  cast does not.
* **Overlapping runs mix up audit rows** (`sail_sink.rs:131`). Each run stages
  its row in the same view of the same session.

## 4. Fairness

* `LakehouseValidate!WFairSpec` asks weak fairness of `Progress`, the
  disjunction of what the loader's one thread does next when nothing fails: it
  holds no lock and waits for nobody; its one unbounded wait, on Sail, is taken
  to be answered. It asks the same of the verifier's counting and of the
  validator's reading, which wait for nobody either, and nothing of anybody who
  may start one of them. Failures and crashes are not fair. `RerunsConverge`
  assumes in addition that the operator starts the loader again and again; the
  bound on faults is what makes failures stop. It makes one exception, which the
  code needs (`Blocked`): a selected file that cannot be converted, or whose kept
  copy has a line that is not UTF-8, because the file has or because a killed
  load cut the copy inside a character.
* `McpSession!FairSpec` asks weak fairness of `Serve`, the server's one thread,
  and of `ClientReads`: a client that does not read keeps the server waiting, so
  without it nothing could be promised, and a client that hangs up does not
  have to read. It asks neither that the client writes nor that it closes its
  input.
* `HttpServer!FairSpec` asks weak fairness of `Serve(t)` for each task: the
  runtime polls every task that is ready and its blocking pool runs every job.
  It asks nothing of the client: neither that a body arrives nor that the
  connection stays.

## 5. Proofs

TLAPS checks the following for all constants that satisfy the named
assumptions: any number of files, rows, datasets, records, and any number of
faults (the bounds of the runs are not assumed).

**`LakehouseLoadProofs`.**
The invariant is `IInv == BasicInv /\ CoverInv /\ LayersInv`, extended by
`StandInv`, `RewriteInv` and `ExactInv` where table names are distinct.

* `BasicInv` says of each place in `load_one_file` what is on disk and in Sail
  there. `ChunksExact` alone is not inductive, because it speaks of one place;
  `ChunkInv` follows the position in the prepared file through all chunks: once
  the table is created it has exactly the rows read so far. `FileInv` is needed
  for the position to mean anything: in these phases the raw file is whole, the
  prepared copy exists and has a header.
* `CoverInv` relates the reports made so far and the files still to do to one
  selected listing for each dataset already begun.
* `LayersInv` follows the sidecars of the datasets done and the catalog tables
  already replaced, and says that all agree when the manifest is written.
* `StandInv` says that the tables of the reports made so far, and of the
  manifest while it is fresh, have the reported row counts. It needs
  `DistinctTables`: without it the theorem is false, as `LakehouseCollision`
  shows, so `PublishedTablesStand` assumes it.
* `RewriteInv` says that, past `prepared_copy`, the prepared copy of a
  spreadsheet or CODATA file is that file's own and complete: it is written anew
  from a whole raw file, so what a killed load left in its place does not matter.
  (It does for CSV files, whose copy is kept; that is what `LakehouseTornCopy`
  shows.) `ExactInv` carries this from the chunks through the reports to the
  manifest. A table is replaced only for the file that has its name, hence
  `DistinctTables` again.

`TypeCorrect`, `RawIsWhole`, `ChunkingIsExact`, `ManifestCoversListing`,
`PublishedTablesStand`, `RewrittenTablesStand` and `PublishedLayersStand` follow
from the invariant, and `DropsAreReplacements` is an action property from `FileInv`
and `SampleKept`: between inference and drop nothing changes the copy whose sample
was read. It says nothing of records past the sample, which the code meets after
the drop.

**`LakehouseValidateProofs`.** A step of a reader leaves everything of the loader
alone (`LoaderStep`), so `IInv` holds beside readers too, and so do `StandInv`
and `LayersInv`. What is new is what a reader has in hand, which a load may have
made stale.

* `VerifierRaisesNoFalseAlarm`: `CalmVerifier` says that, as long as no load was
  started since the manifest was read, the entries still to count are entries of
  the manifest that stands, and nothing bad was found so far. `QuietStep` is
  what keeps it: no step of the loader other than a start changes a table, a
  sidecar or the manifest while the manifest is fresh. `StandInv` makes each
  count agree, hence `DistinctTables`.
* `ValidatorIsExact`: `CalmValidator` says that every document behind the
  validator was parsed, was noted if its dataset has no files, and that nothing
  else was noted. `LayersInv` gives what the next document holds
  (`PublishedDocument`).
* `ReadersTypeCorrect`: that no more documents are counted than there are
  datasets needs `CountInv`, which bounds each count by the validator's place.

Both safety theorems assume `MarkersAreNoReports`: the values that stand for a
missing and for a truncated file are not sets of reports. Without it a manifest
might be taken for a truncated one. It stands in the theorems and not in an
`ASSUME` because TLC cannot decide whether a model value is such a set.

**`ColumnInferenceProofs`.** `CInv` adds to the types that the flags are those
of the records read so far (`Flags`), that a chosen type is the one `finish`
makes of the flags of the whole sample, and that what is NULL follows from that
type. `BestTypeResult` says that the chain of `else if` in `finish` picks the
least passing type, `PassedOrLoose` that the tests and casts differ by the loose
forms only. `TypeCorrect`, `FlagsDecideExactly` and `SampledValuesKept` follow,
for every `SampleRows`, 5000 included.

**`DataverseStageProofs`.** `IInv` joins what holds of each run at its place with
what holds of files, views and graph.

* `Placed`, `Opened` and `Distinct` say what a run holds where it stands: how
  many counts, which file is open, which views exist, that no dataset comes
  twice. `StagingTypeCorrect` is part of it; `Distinct` is why a later row of a
  run never overwrites an earlier one of its own.
* `StagedFilesWhole` and `LatestAnswerStands` are about behaviours in which no
  runs overlapped. `OneAtATime` says that only the run started last moves, and
  `Truncated` that a file it has open is empty, so that what it writes is all
  that is there. `LatestStands` then follows the run through its loops: rows
  behind it are on disk, views behind it hold what it fetched, each count is the
  length of these. `AnswerStands` alone speaks of the end of the run only.
* `CountsAreExplained` holds however runs overlap. `Explained` says of every view
  of the session, not only of a run's own, that it holds what some run may have
  fetched of that dataset; `Opened` that there is such a view when it is counted.
* `GraphCovers`: `InGraph` says what a run that is past a put finds in the graph.
  Nothing removes nodes or edges, whichever run moves.

**`LineageEmitProofs`.** Every action of a run is one of three kinds
(`StepKinds`): the run begins, hands its event to the sink it is at, or stays
there. `BasicInv` adds to the types that a row is inserted into a table that
exists, from a view that some run staged, and that a run stands at a sink of its
own configuration (`Placed`); from the latter `AcceptedStep` gets that a sink
accepts an event exactly when it is handed over.

* `LedgerIsLast`: `LedgerInv` says that sinks have what they accepted and that
  whoever is in the ledger file is at that sink or past it. `Position` of the
  ledger is the last one, so every other sink of the run accepted before.
* `AuditRowsKept`: `CountInv` compares the runs a table told of success with its
  rows. Both grow by one together (`CountStep`); racing runs may add the wrong
  row, never none.
* `AuditRowsOnce`: `ExactInv` is about behaviours in which no runs overlapped.
  There at most one run is under way and the views are its own, so the row that
  is added is its own; and a row that is there is that of a run that is past the
  table or failed at it, so it is not added again.
* `TornLinesAreBounded`: `LinesInv` says that there are at most as many accepted
  lines that cannot be read as torn ones, and strictly fewer while the line that
  is being written starts behind a torn one: that line will be spoilt without a
  new tear. `Own`, that the last pieces of a file are those of the run at it,
  makes that line readable otherwise. Both need that runs do not overlap.

**`HttpServerProofs`.** `BasicInv` adds to the types what a task has behind it
(`TaskOK`): past the check of its envelope it is authorized, where its route
asks for that, and it has read models exactly where it answers from them.
`EffectsAreSigned` then is inductive by itself.

* `MemoriesKeptOnce`: `CountInv` says, of each contents, that what is remembered
  or forgotten, plus the tasks that may still remember it (`Pending`), is at most
  what was asked for, and that what was answered, plus the tasks about to answer
  (`Told`), is at most what is remembered or forgotten. `RememberedOnce` alone is
  not inductive: it does not see a job that outlives its handler. A list that was
  forgotten in part leaves each sum as it was (`ForgetResult`).
* `ServiceIsRegistry` is the refinement of `ModelRegistry`, which the MCP server
  implements too: each step of a task is one step of its call or none
  (`RegistryActions`), and a step of one task leaves the calls of the others
  alone (`ViewStep`). A restart is the abstract registry's.

**`QgLakeStoryProofs`.** `StoryIsGoverned` is about any list of specialists that
have names, roles, resources and compartments of their own (`OwnRoles`), while
TLC looks at the six of the code. The argument: what a specialist is assigned
does not change after its turn (`AssignedOwn`), so its receipt is the decision
of the published policy (`SameDecision`); everybody else is assigned one role
whose permissions do not match its resource (`OneRole`); and the one flag that
decides goes into response, synthesis and lineage event alike.

**`McpSessionProofs`.** `TypeInv` adds to the types that the server is behind by
the line it has in hand. `SessionInv` strengthens `AnswersFollowRequests` by

* `RegistryInv`: the registry is what the last import of each name, among the
  lines handled so far, makes of it. `LastStays` says that this is not disturbed
  when the client writes on, `LastExtends` that handling one more line extends
  it; a refused import, a notification and a question extend it by nothing.
* `ResponseInv`: the answer in hand is right for its line and later than all
  answers written; this makes the order of answers inductive.

`AnswersAreRight` follows. An answer therefore is `Says` of a known registry,
and `StoriesAreGoverned` follows from `StoryIsGoverned`, `PlansAreGrounded` from
`HitDatasetsExact` (what a search hits is what the question is about) and
`ModelsThatStand`. `SessionIsRegistry` is the refinement: each step is
`Invoke`, `Apply`, `Refuse` or `End` of `ModelRegistry`, or a stutter
(`RegistryStep`). All this holds for lines, documents and pipes of any number
and size.

**Only model-checked.** Liveness (`LoadEnds`, `RerunsConverge`, `VerifyEnds`,
`ValidationEnds`, `Answered`, `RequestsAnswered`), because the prover does not
treat fairness. Every invariant and action property of the passing runs is
proved.

## 6. Assumptions

* Sail executes one statement atomically: `CREATE TABLE AS` and `INSERT` add all
  rows of a view or none. Temporary views belong to a session, and all clients
  with one session id share it. A failed statement may have been executed
  (`AnswerLost`).
* `put_graph` writes nodes and then edges, adds and never removes, and may stop
  in the middle; `bootstrap` creates missing tables and changes no others.
* `rename` is atomic; a body shorter than announced makes `read` fail; a crash
  loses what is in memory and keeps what a completed write call wrote.
* Dataverse gives every file of a dataset an id of its own that stays with its
  contents.
* A missing file, a truncated one and one that was read are told apart
  (`MarkersAreNoReports`).
* `TRY_CAST` is the table `Castable`; it is not part of the repository.
* A memory is told apart by its contents. `forget` names a list of records, at
  most one of each contents; two with the same contents are interchangeable.
  When it fails it may have forgotten any of them. A memory store that fails a
  call to `remember` has changed nothing.
* The memory policy may depend on subject, tool and body. The body's space and
  purpose are told apart by its contents.
* A line of a file is text or not as a whole, and a copy that is cut off inside a
  line can be read up to there unless it ends inside a character. The prepared
  copies of a workbook and of a CODATA table are text.
* A pipe holds a number of lines, and a write of a line blocks until there is
  room for all of it; the parts of a line that a write may deliver before that
  are not told apart, since a client takes whole lines.
* A word is found in a text or not; which words are longer than two bytes, what
  `safe_sql_name` makes of a name and which words a name contains are constants.

## 7. Not modelled

* What is data: the text of the documents the converters write, the SQL of
  plans and expressions, rendered stories, JSON-LD. `codata.rs`, `cypher.rs`
  and `a2a.rs` are nothing else.
* The LakeCat import checks hashes and counts of one document and keeps
  nothing.
* `OsiDocument::for_dataverse`: `main` writes the result to a file that nothing
  reads back.
* The check of an OpenLineage file by `lakehouse-validate`: whether fields are
  there, line by line.
* Of the governed agent run only the place in the order of things is modelled,
  since `main` builds the role and the policy so that they admit the agent.
* Of the semantic graph, only what comes from datasets and files.
* Cryptography is taken as given: an envelope is who signed what.
* Routes of the HTTP service without shared state (health, bundle, story, agent
  card, verify-envelope); the MCP server's tools of the same functions are in
  `McpSession`.
* Two loaders at once.

## 8. Plan

Order: the behaviour that users depend on most first.

1. *Done,* each with proofs: the loader with verifier and validator; column
   inference; staging; lineage sinks; the HTTP service over its abstract
   registry; the MCP session over the same registry; semantic models, policies
   and the story.
2. *Extend.*
   a. `DataverseE2e`: `DataverseStage` and `LineageEmit` composed over one set
      of runs: no ledger line without an answer whose graph and views stand.
   b. The OpenLineage file of `lakehouse-validate`, as `LineageEmit` leaves it.
   c. A second loader in the same session: the staging view `<table>_raw` and
      the tables.
   d. `Memory`: records by name, so that a recall returns what the policy and
      the namespace allow.
3. *Prove.*
   a. *Done:* every invariant and action property of the runs, and that
      `HttpServer` and `McpSession` implement `ModelRegistry`.
   b. *With 2:* that what `DataverseE2e` records in the ledger was answered from
      rows that stand (`LatestAnswerStands` and `LedgerIsLast` joined); which of
      the loader's theorems survive a second loader (`RawIsWhole` does not
      mention the session, `PublishedTablesStand` does).
