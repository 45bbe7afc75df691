--------------------------- MODULE ColumnInference ---------------------------
(***************************************************************************)
(* How lakehouse-load types one column of a prepared file                  *)
(* (src/src/lakehouse/infer.rs): it reads the first SampleRows records,    *)
(* gives the column the first type that all values in them passed the test *)
(* of, and then writes every record with TRY_CAST of the cell to that      *)
(* type, which makes NULL of what Sail cannot cast.  The tests and the     *)
(* casts are not the same functions.                                       *)
(*                                                                         *)
(* A cell is abstracted to its form, that is, to what the tests and the    *)
(* casts make of it.                                                       *)
(***************************************************************************)
EXTENDS Integers, Sequences

CONSTANTS
  SampleRows,  \* records that are sampled (5000 in the code)
  MaxRows      \* bound on the records of a file

ASSUME InferenceAssumption == SampleRows \in Nat /\ MaxRows \in Nat

Forms ==
  { "missing",         \* empty, absent, ".", "NA", "N/A", "null" or "NULL"
    "word",            \* true, false, yes, no
    "bit",             \* 0, 1
    "digits",          \* an integer of 64 bits
    "grouped",         \* 1,234
    "huge",            \* an integer of more than 64 bits
    "decimal",         \* 2.5
    "grouped decimal", \* 1,234.5
    "date",            \* 2022-05-20
    "date-like",       \* 2022-20-05
    "timestamp",       \* 2022-05-20T10:00:00
    "timestamp-like",  \* long text with a T
    "text",
    "unreadable" }     \* not UTF-8: the csv reader returns an error

\* The types of a column, except String, which every value has.
Tests == {"Boolean", "Int64", "Float64", "Date", "Timestamp"}
Types == Tests \union {"String"}

\* Mutant: an integer is what can be rounded to one.
PassesRounded(test) ==
  CASE test = "Boolean"             -> {"word", "bit"}
    [] test \in {"Int64", "Float64"} -> {"bit", "digits", "decimal"}
    [] test = "Date"                -> {"date", "date-like"}
    [] test = "Timestamp"           -> {"timestamp", "timestamp-like"}

\* is_bool, parse_int, parse_float, looks_like_date and looks_like_timestamp.
Passes(test) ==
  CASE test = "Boolean"   -> {"word", "bit"}
    [] test = "Int64"     -> {"bit", "digits", "grouped"}
    [] test = "Float64"   -> {"bit", "digits", "grouped", "huge", "decimal",
                              "grouped decimal"}
    [] test = "Date"      -> {"date", "date-like"}
    [] test = "Timestamp" -> {"timestamp", "timestamp-like"}

\* What Sail casts a string of to a type without making it NULL.
Castable(type) ==
  CASE type = "Boolean"   -> {"word", "bit"}
    [] type = "Int64"     -> {"bit", "digits"}
    [] type = "Float64"   -> {"bit", "digits", "huge", "decimal"}
    [] type = "Date"      -> {"date", "timestamp"}
    [] type = "Timestamp" -> {"date", "timestamp"}
    [] type = "String"    -> Forms

VARIABLES
  cells,     \* the column in the file
  phase,     \* "infer", "write", "done" or "failed"
  read,      \* records read in this phase
  nullable,  \* a missing value was seen in the sample
  sawValue,  \* another one was seen
  ok,        \* the tests that no value seen failed
  type,      \* the type chosen, "" before that
  isNull     \* the records written: whether Sail has NULL for the cell

state == <<nullable, sawValue, ok>>
vars  == <<cells, phase, read, state, type, isNull>>

CTypeOK ==
  /\ cells \in Seq(Forms)
  /\ phase \in {"infer", "write", "done", "failed"}
  /\ read \in 0..Len(cells)
  /\ nullable \in BOOLEAN /\ sawValue \in BOOLEAN
  /\ ok \in [Tests -> BOOLEAN]
  /\ type \in Types \union {""}
  /\ isNull \in Seq(BOOLEAN)
  /\ phase = "infer" => read <= SampleRows /\ isNull = <<>>
  /\ phase = "write" => Len(isNull) = read

Init ==
  /\ cells \in UNION {[1..n -> Forms] : n \in 0..MaxRows}
  /\ phase = "infer"
  /\ read = 0
  /\ nullable = FALSE /\ sawValue = FALSE
  /\ ok = [t \in Tests |-> TRUE]
  /\ type = ""
  /\ isNull = <<>>

Sampled == IF Len(cells) < SampleRows THEN Len(cells) ELSE SampleRows

-----------------------------------------------------------------------------
(* infer_typed_columns *)

Sampling == phase = "infer" /\ read < Sampled

ObserveMissing ==
  /\ Sampling
  /\ cells[read + 1] = "missing"
  /\ nullable' = TRUE
  /\ read' = read + 1
  /\ UNCHANGED <<cells, phase, sawValue, ok, type, isNull>>

\* Mutant: the last value decides.
ObserveLast ==
  /\ Sampling
  /\ cells[read + 1] \notin {"missing", "unreadable"}
  /\ sawValue' = TRUE
  /\ ok' = [t \in Tests |-> cells[read + 1] \in Passes(t)]
  /\ read' = read + 1
  /\ UNCHANGED <<cells, phase, nullable, type, isNull>>

ObserveValue ==
  /\ Sampling
  /\ cells[read + 1] \notin {"missing", "unreadable"}
  /\ sawValue' = TRUE
  /\ ok' = [t \in Tests |-> ok[t] /\ cells[read + 1] \in Passes(t)]
  /\ read' = read + 1
  /\ UNCHANGED <<cells, phase, nullable, type, isNull>>

\* The types in the order in which a column prefers them.
Rank == [Boolean |-> 1, Int64 |-> 2, Float64 |-> 3, Date |-> 4,
         Timestamp |-> 5, String |-> 6]

\* ColumnInference::finish.  A column without a value passes every test.
BestType ==
  IF sawValue
  THEN LET good == {t \in Tests : ok[t]} \union {"String"}
       IN  CHOOSE t \in good : \A u \in good : Rank[t] <= Rank[u]
  ELSE "String"

\* Mutant: the reader that sampled the file goes on from there.
FinishWithoutRewind ==
  /\ phase = "infer" /\ read = Sampled
  /\ type' = BestType
  /\ phase' = "write"
  /\ UNCHANGED <<cells, read, state, isNull>>

FinishInference ==
  /\ phase = "infer" /\ read = Sampled
  /\ type' = BestType
  /\ phase' = "write"
  /\ read' = 0
  /\ UNCHANGED <<cells, state, isNull>>

(* materialize_typed_table_from_chunks, one cell after the other *)

WriteCell ==
  /\ phase = "write" /\ read < Len(cells)
  /\ cells[read + 1] # "unreadable"
  /\ isNull' = Append(isNull, cells[read + 1] \notin Castable(type))
  /\ read' = read + 1
  /\ UNCHANGED <<cells, phase, state, type>>

FinishWrite ==
  /\ phase = "write" /\ read = Len(cells)
  /\ phase' = "done"
  /\ UNCHANGED <<cells, read, state, type, isNull>>

\* Either phase returns an error, which ends the whole load.
RecordUnreadable ==
  /\ \/ Sampling
     \/ phase = "write" /\ read < Len(cells)
  /\ cells[read + 1] = "unreadable"
  /\ phase' = "failed"
  /\ UNCHANGED <<cells, read, state, type, isNull>>

Next ==
  \/ ObserveMissing \/ ObserveValue \/ FinishInference
  \/ WriteCell \/ FinishWrite
  \/ RecordUnreadable

Spec == Init /\ [][Next]_vars

-----------------------------------------------------------------------------
(* Properties *)

Sample == {cells[i] : i \in 1..Sampled}
Values == Sample \ {"missing"}

\* The flags that are kept record by record decide as a look at the whole
\* sample would: a column has the first type whose test all sampled values
\* pass, String if there is no such value or no such type, and it is nullable
\* if a value was missing.
InferenceExact ==
  type # "" =>
    /\ nullable <=> "missing" \in Sample
    /\ Values = {} => type = "String"
    /\ type \in Tests => Values \subseteq Passes(type)
    /\ Values # {} => \A t \in Tests :
                        Values \subseteq Passes(t) => Rank[type] <= Rank[t]

\* The values that a test lets through and the cast does not: grouped numbers
\* and what only looks like a date or a timestamp.
Loose == {"grouped", "grouped decimal", "date-like", "timestamp-like"}

\* A cell of the sample becomes NULL only if a value is missing there or is
\* one of the loose ones; of all other sampled values the table holds the
\* value.  Only records after the sample can lose more.
NullsExplained ==
  \A i \in 1..Len(isNull) :
    isNull[i] /\ i <= SampleRows => cells[i] \in Loose \union {"missing"}

\* What the catalog's column table says of a column that is not nullable: Sail
\* has a value for each of its records.  A sampled "1,234" makes the column an
\* integer and is then cast to NULL.
NullsRecorded ==
  phase = "done" /\ ~nullable => \A i \in 1..Len(isNull) : ~isNull[i]
=============================================================================
