------------------------ MODULE MCLakehouseValidate ------------------------
(***************************************************************************)
(* A verifier or a validator beside a loader of two datasets.  The first   *)
(* lists a CSV file `a` and a spreadsheet x of two chunks or, in another   *)
(* version, a workbook w that cannot be opened; the second lists nothing.  *)
(* The second line of `a` is not plain ASCII, so that a copy of `a` cut    *)
(* off there may block the loads that follow.                              *)
(***************************************************************************)
EXTENDS LakehouseValidate

MCDatasetOf  == [f \in Files |-> 1]
MCListings   == [d \in Datasets |-> IF d = 1 THEN {<<"a", "x">>, <<"w">>}
                                             ELSE {<<>>}]
MCKind       == [f \in Files |-> IF f = "a" THEN "copied" ELSE "rewritten"]
MCLines      == [f \in Files |-> IF f = "a" THEN 2 ELSE 1]
MCSheetLines == [f \in Files |-> IF f = "x" THEN 3 ELSE 0]
MCNonAscii   == [f \in Files |-> IF f = "a" THEN {2} ELSE {}]
MCUnreadable == [f \in Files |-> IF f = "w" THEN 1 ELSE 0]
Same         == [f \in Files |-> f]
=============================================================================
