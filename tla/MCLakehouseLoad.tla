-------------------------- MODULE MCLakehouseLoad --------------------------
(***************************************************************************)
(* Instances of LakehouseLoad.  A file's name says what it is: a, b and d  *)
(* are CSV files, x is a spreadsheet and x2 its newer version, whose first *)
(* sheet is empty, p is a PDF, e is a CSV file without a byte, h one with  *)
(* a header and no rows, k a constants table whose second line is not text *)
(* and w a workbook that cannot be opened.                                 *)
(***************************************************************************)
EXTENDS LakehouseLoad

MCDatasetOf ==
  [f \in Files |-> IF NumDatasets = 2 /\ f \in {"d", "p", "k", "w"} THEN 2 ELSE 1]

MCKind == [f \in Files |-> CASE f \in {"x", "x2", "k", "w"} -> "rewritten"
                             [] f = "p" -> "asset"
                             [] OTHER -> "copied"]

MCLines == [f \in Files |-> CASE f = "a" -> 3 [] f = "b" -> 4 [] f = "d" -> 4
                              [] f \in {"x", "x2", "k"} -> 2
                              [] f \in {"p", "h", "w"} -> 1 [] f = "e" -> 0]

\* With two rows to a chunk, the last chunk of a tabular copy is empty (a, x),
\* partial (b, d), or the only one and empty (h).
MCSheetLines == [f \in Files |-> CASE f \in {"x", "k"} -> 3 [] OTHER -> 0]

\* With one record in the sample, a bad line 2 is met there and a bad line 4
\* after the first chunk.
MCNonAscii   == [f \in Files |-> IF f = "d" THEN {2, 4} ELSE {}]
MCUnreadable == [f \in Files |-> CASE f = "k" -> 2 [] f = "w" -> 1
                                   [] OTHER -> 0]

\* A new version of a file keeps its name, hence its path and its table.
Stem == [f \in Files |-> IF f = "x2" THEN "x" ELSE f]

\* Names that safe_sql_name maps to one name, as "b 1.csv" and "b-1.csv".
CollidingStem == [f \in Files |-> "a"]

OneListing(l) == [d \in Datasets |-> {l}]

\* With a limit of two files the third one of a listing is never loaded.
VersionListings == [d \in Datasets |-> IF d = 1
                                       THEN {<<"x", "e", "h">>, <<"x2", "h">>}
                                       ELSE {<<"d">>, <<"p">>, <<"k">>, <<"w">>,
                                             <<>>}]
CopyListings    == OneListing(<<"a">>)
PairListings    == OneListing(<<"a", "b">>)
=============================================================================
