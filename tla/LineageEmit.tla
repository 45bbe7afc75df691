---------------------------- MODULE LineageEmit ----------------------------
(***************************************************************************)
(* What runs of `dataverse-e2e` leave in the lineage sinks                 *)
(* (src/src/main.rs, src/src/lineage).  Each run makes one OpenLineage     *)
(* event and one signed attestation and hands them to the sinks it is      *)
(* configured with, in a fixed order: a JSONL file, an HTTP endpoint, two  *)
(* Sail audit tables, and last the DID ledger, another JSONL file.  The    *)
(* first sink that fails ends the run; nothing is undone.  Several runs    *)
(* may be under way at once: they append to the same files and have the    *)
(* same Spark session, hence the same temporary views.                     *)
(*                                                                         *)
(* append_json_line hands the value to the file token by token, so a line  *)
(* is a sequence of pieces 1, ..., Pieces followed by a newline, each of   *)
(* which is appended by a write of its own.                                *)
(***************************************************************************)
EXTENDS Integers, Sequences, FiniteSets

CONSTANTS
  Runs,       \* invocations of dataverse-e2e
  Configs,    \* the sets of sinks a run may be configured with
  Pieces,     \* writes that make up one JSON value
  MaxOverlap, \* bound: only the first so many runs to start may overlap
  MaxFaults,  \* bound on failures, lost answers and crashes in a behaviour
  None        \* no such view, no such table

Files      == {"log", "ledger"}
SailTables == {"events", "attestations"}
Sinks      == Files \union SailTables \union {"post"}

\* Mutant: the attestation is anchored first.
LedgerFirst == <<"ledger", "log", "post", "events", "attestations">>

\* The order in which a run hands its event to the sinks.
SinkOrder == <<"log", "post", "events", "attestations", "ledger">>
Newline   == 0
Piece     == [run : Runs, piece : 0..Pieces]

ASSUME LineageAssumption ==
  /\ Configs \subseteq SUBSET Sinks
  /\ \A c \in Configs : "events" \in c <=> "attestations" \in c
  /\ Pieces \in Nat \ {0}
  /\ MaxFaults \in Nat /\ MaxOverlap \in Nat
  /\ None \notin Runs /\ None \notin Seq(Runs)

VARIABLES
  file,     \* the JSONL files, as the pieces appended so far
  posted,   \* events the HTTP endpoint has received
  view,     \* the session's staging views: the run whose row each one holds
  rows,     \* Sail tables: the runs whose rows they hold
  status,   \* "new", "running", "done" (report printed) or "failed"
  config,   \* the sinks of a run
  at,       \* position in SinkOrder of the sink a run is at
  step,     \* what the run does next at that sink
  written,  \* pieces of the line at hand that the run has written
  overlap,  \* history: two runs have been under way at the same time
  faults    \* history: failures, lost answers and crashes so far

run  == <<status, config>>
vars == <<file, posted, view, rows, status, config, at, step, written,
          overlap, faults>>

LTypeOK ==
  /\ file \in [Files -> Seq(Piece)]
  /\ posted \subseteq Runs
  /\ view \in [SailTables -> {None} \union Runs]
  /\ \A t \in SailTables : rows[t] = None \/ rows[t] \in Seq(Runs)
  /\ status \in [Runs -> {"new", "running", "done", "failed"}]
  /\ config \in [Runs -> {{}} \union Configs]
  /\ at \in [Runs -> 1..(Len(SinkOrder) + 1)]
  /\ step \in [Runs -> {"write", "post", "stage", "probe", "insert", "create",
                        "report"}]
  /\ written \in [Runs -> 0..Pieces]
  /\ overlap \in BOOLEAN
  /\ faults \in 0..MaxFaults

Init ==
  /\ file = [f \in Files |-> <<>>]
  /\ posted = {}
  /\ view = [t \in SailTables |-> None]
  /\ rows = [t \in SailTables |-> None]
  /\ status = [r \in Runs |-> "new"]
  /\ config = [r \in Runs |-> {}]
  /\ at = [r \in Runs |-> 1]
  /\ step = [r \in Runs |-> "report"]
  /\ written = [r \in Runs |-> 0]
  /\ overlap = FALSE
  /\ faults = 0

-----------------------------------------------------------------------------
(* Helpers *)

Fault == faults < MaxFaults /\ faults' = faults + 1

\* The first position from i on whose sink is among c.
NextSink(c, i) ==
  CHOOSE j \in i..(Len(SinkOrder) + 1) :
    /\ j <= Len(SinkOrder) => SinkOrder[j] \in c
    /\ \A k \in i..(j - 1) : SinkOrder[k] \notin c

FirstStep(i) ==
  IF i > Len(SinkOrder) THEN "report"
  ELSE CASE SinkOrder[i] \in Files      -> "write"
         [] SinkOrder[i] \in SailTables -> "stage"
         [] OTHER                       -> "post"

At(r, s) == /\ status[r] = "running"
            /\ at[r] <= Len(SinkOrder)
            /\ SinkOrder[at[r]] = s

\* The run goes to its first sink from position i on.
GoTo(r, c, i) ==
  /\ at' = [at EXCEPT ![r] = NextSink(c, i)]
  /\ step' = [step EXCEPT ![r] = FirstStep(NextSink(c, i))]
  /\ written' = [written EXCEPT ![r] = 0]

\* The sink has accepted the event.
SinkDone(r) == GoTo(r, config[r], at[r] + 1) /\ UNCHANGED run

\* An error carried by `?` out of main, or a crash.
Fail(r) ==
  /\ status' = [status EXCEPT ![r] = "failed"]
  /\ UNCHANGED <<config, at, step, written>>

-----------------------------------------------------------------------------
(* A run of dataverse-e2e, up to its first sink *)

Running == {r \in Runs : status[r] = "running"}

Start(r, c) ==
  /\ status[r] = "new"
  /\ Running = {} \/ Cardinality({q \in Runs : status[q] # "new"}) < MaxOverlap
  /\ status' = [status EXCEPT ![r] = "running"]
  /\ config' = [config EXCEPT ![r] = c]
  /\ GoTo(r, c, 1)
  /\ overlap' = (overlap \/ Running # {})
  /\ UNCHANGED <<file, posted, view, rows, faults>>

(* append_json_line *)

WritePiece(r, f) ==
  /\ At(r, f)
  /\ written[r] < Pieces
  /\ file' = [file EXCEPT ![f] =
                Append(@, [run |-> r, piece |-> written[r] + 1])]
  /\ written' = [written EXCEPT ![r] = @ + 1]
  /\ UNCHANGED <<posted, view, rows, run, at, step, overlap, faults>>

\* Mutant: the newline is left to the next line.
WriteNoNewline(r, f) ==
  /\ At(r, f)
  /\ written[r] = Pieces
  /\ SinkDone(r)
  /\ UNCHANGED <<file, posted, view, rows, overlap, faults>>

WriteNewline(r, f) ==
  /\ At(r, f)
  /\ written[r] = Pieces
  /\ file' = [file EXCEPT ![f] = Append(@, [run |-> r, piece |-> Newline])]
  /\ SinkDone(r)
  /\ UNCHANGED <<posted, view, rows, overlap, faults>>

(* emit_openlineage_http *)

Post(r) ==
  /\ At(r, "post")
  /\ posted' = posted \union {r}
  /\ SinkDone(r)
  /\ UNCHANGED <<file, view, rows, overlap, faults>>

\* The endpoint did not get the event, or its answer was lost or an error.
PostFails(r) ==
  /\ Fault
  /\ At(r, "post")
  /\ posted' \in {posted, posted \union {r}}
  /\ Fail(r)
  /\ UNCHANGED <<file, view, rows, overlap>>

(* append_rows, for each of the two tables *)

SailStep(r, t, s) == At(r, t) /\ step[r] = s

Then(r, s) ==
  /\ step' = [step EXCEPT ![r] = s]
  /\ UNCHANGED <<run, at, written>>

\* Mutant: the second table's row is staged in the first one's view.
StageInOneView(r, t) ==
  /\ SailStep(r, t, "stage")
  /\ view' = [view EXCEPT !["events"] = r]
  /\ Then(r, "probe")
  /\ UNCHANGED <<file, posted, rows, overlap, faults>>

\* Mutant: a view that is there is not replaced.
StageIfAbsent(r, t) ==
  /\ SailStep(r, t, "stage")
  /\ view' = [view EXCEPT ![t] = IF @ = None THEN r ELSE @]
  /\ Then(r, "probe")
  /\ UNCHANGED <<file, posted, rows, overlap, faults>>

StageView(r, t) ==
  /\ SailStep(r, t, "stage")
  /\ view' = [view EXCEPT ![t] = r]
  /\ Then(r, "probe")
  /\ UNCHANGED <<file, posted, rows, overlap, faults>>

\* The table exists if its rows can be counted.
ProbeTable(r, t) ==
  /\ SailStep(r, t, "probe")
  /\ Then(r, IF rows[t] = None THEN "create" ELSE "insert")
  /\ UNCHANGED <<file, posted, view, rows, overlap, faults>>

\* Any error of the count is taken for a missing table.
ProbeFails(r, t) ==
  /\ Fault
  /\ SailStep(r, t, "probe")
  /\ Then(r, "create")
  /\ UNCHANGED <<file, posted, view, rows, overlap>>

InsertView(t) == rows' = [rows EXCEPT ![t] = Append(@, view[t])]

InsertRow(r, t) ==
  /\ SailStep(r, t, "insert")
  /\ InsertView(t)
  /\ SinkDone(r)
  /\ UNCHANGED <<file, posted, view, overlap, faults>>

\* Mutant: CREATE OR REPLACE TABLE.
CreateOrReplace(r, t) ==
  /\ SailStep(r, t, "create")
  /\ rows' = [rows EXCEPT ![t] = <<view[t]>>]
  /\ SinkDone(r)
  /\ UNCHANGED <<file, posted, view, overlap, faults>>

CreateTable(r, t) ==
  /\ SailStep(r, t, "create")
  /\ rows[t] = None
  /\ rows' = [rows EXCEPT ![t] = <<view[t]>>]
  /\ SinkDone(r)
  /\ UNCHANGED <<file, posted, view, overlap, faults>>

\* Sail refuses to create a table that exists: another run was faster, or the
\* count had failed for another reason.
CreateRefused(r, t) ==
  /\ SailStep(r, t, "create")
  /\ rows[t] # None
  /\ Fail(r)
  /\ UNCHANGED <<file, posted, view, rows, overlap, faults>>

\* The statement was executed but its answer did not arrive.
AnswerLost(r, t) ==
  /\ Fault
  /\ \/ SailStep(r, t, "insert") /\ InsertView(t)
     \/ /\ SailStep(r, t, "create")
        /\ rows[t] = None
        /\ rows' = [rows EXCEPT ![t] = <<view[t]>>]
  /\ Fail(r)
  /\ UNCHANGED <<file, posted, view, overlap>>

(* The report, and failures between two steps *)

PrintReport(r) ==
  /\ status[r] = "running"
  /\ at[r] > Len(SinkOrder)
  /\ status' = [status EXCEPT ![r] = "done"]
  /\ UNCHANGED <<file, posted, view, rows, config, at, step, written, overlap,
                 faults>>

Abort(r) ==
  /\ Fault
  /\ status[r] = "running"
  /\ Fail(r)
  /\ UNCHANGED <<file, posted, view, rows, overlap>>

RunStep(r) ==
  \/ \E c \in Configs : Start(r, c)
  \/ \E f \in Files : WritePiece(r, f) \/ WriteNewline(r, f)
  \/ Post(r) \/ PostFails(r)
  \/ \E t \in SailTables :
       \/ StageView(r, t) \/ ProbeTable(r, t) \/ ProbeFails(r, t)
       \/ InsertRow(r, t) \/ CreateTable(r, t)
       \/ CreateRefused(r, t) \/ AnswerLost(r, t)
  \/ PrintReport(r)
  \/ Abort(r)

Next == \E r \in Runs : RunStep(r)

Spec == Init /\ [][Next]_vars

-----------------------------------------------------------------------------
(* Properties *)

Position(s) == CHOOSE i \in DOMAIN SinkOrder : SinkOrder[i] = s

\* The sink s told run r that it has the event.
Accepted(r, s) == s \in config[r] /\ at[r] > Position(s)

\* The run stopped within a line.
Torn(r, f) == /\ status[r] = "failed"
              /\ f \in config[r] /\ at[r] = Position(f) /\ written[r] > 0

\* A line of f is run r's JSON value: lakehouse-validate and every other
\* reader of the file take what is between two newlines.
Readable(f, r) ==
  \E i \in DOMAIN file[f] :
    /\ i = 1 \/ file[f][i - 1].piece = Newline
    /\ i + Pieces <= Len(file[f])
    /\ file[f][i + Pieces].piece = Newline
    /\ \A k \in 1..Pieces : file[f][i + k - 1] = [run |-> r, piece |-> k]

\* The ledger never anchors an event that an earlier sink of the run was not
\* handed in full: a run that fails on the way has no attestation.
LedgerComesLast ==
  \A i \in DOMAIN file["ledger"] :
    LET r == file["ledger"][i].run
    IN  /\ "log" \in config[r] =>
             \E j \in DOMAIN file["log"] :
               file["log"][j] = [run |-> r, piece |-> Newline]
        /\ "post" \in config[r] => r \in posted
        /\ \A t \in SailTables \intersect config[r] : rows[t] # None

\* As long as runs do not overlap, an interrupted one spoils no line of a
\* JSONL file but its own and the next: of the lines that were appended with
\* success, no more are unreadable than runs were interrupted within a line.
TornLinesBounded ==
  ~overlap => \A f \in Files :
    Cardinality({r \in Runs : Accepted(r, f) /\ ~Readable(f, r)})
      <= Cardinality({r \in Runs : Torn(r, f)})

Occurrences(t, r) ==
  IF rows[t] = None THEN 0
  ELSE Cardinality({i \in DOMAIN rows[t] : rows[t][i] = r})

\* As long as runs do not overlap, each audit table holds the row of every run
\* that appended it, once, and no attestation is there without its event.
AuditRowsExact ==
  ~overlap => \A r \in Runs :
    /\ \A t \in SailTables : /\ Occurrences(t, r) <= 1
                             /\ Accepted(r, t) => Occurrences(t, r) = 1
    /\ Occurrences("attestations", r) <= Occurrences("events", r)

\* Runs that race to create a table, or take it for missing, lose no row that
\* was appended with success: the number of rows is right at least.
AuditRowsCounted ==
  \A t \in SailTables :
    Cardinality({r \in Runs : Accepted(r, t)})
      <= IF rows[t] = None THEN 0 ELSE Len(rows[t])

\* What the README says of every run: its event and its attestation are in the
\* audit tables when it reports that they are.  The view a row is staged in is
\* shared by all runs of the session, so overlapping runs do not ensure it.
AuditHoldsReported ==
  \A r \in Runs : status[r] = "done" =>
    \A t \in SailTables \intersect config[r] : Occurrences(t, r) > 0
=============================================================================
