-------------------------- MODULE MCColumnInference --------------------------
(***************************************************************************)
(* Columns of up to four records, of which three are sampled: every mix of *)
(* three forms in a sample, and one record after it.                       *)
(***************************************************************************)
EXTENDS ColumnInference
=============================================================================
