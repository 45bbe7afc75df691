-------------------------- MODULE LakehouseVerify --------------------------
(***************************************************************************)
(* `lakehouse-verify` (verify_lakehouse_report) beside the loader: a       *)
(* process of its own that reads the manifest and then asks Sail, one      *)
(* table after the other, for its row count.  It may run at any time, also *)
(* while a load replaces the very tables it counts; it takes no lock and   *)
(* has the loader's Spark session id.                                      *)
(***************************************************************************)
EXTENDS LakehouseLoad

VARIABLES
  vpc,    \* what the verifier does next
  vleft,  \* file reports whose table is still to be counted
  vbad,   \* file reports whose table had another number of rows
  vcalm   \* history: when the manifest was read no load had been started
          \* since it was written, and none has been since

verifier == <<vpc, vleft, vbad>>
vvars    == <<vars, vpc, vleft, vbad, vcalm>>

VTypeOK ==
  /\ vpc \in {"idle", "counting", "done", "error", "failed"}
  /\ vleft \in SUBSET Entry
  /\ vbad \in SUBSET Entry
  /\ vcalm \in BOOLEAN

VInit ==
  /\ Init
  /\ vpc = "idle"
  /\ vleft = {}
  /\ vbad = {}
  /\ vcalm = FALSE

\* Mutant: every file of the manifest is expected to have a table.
ReadWholeManifest ==
  /\ vpc # "counting"
  /\ report \notin {None, Torn}
  /\ vpc' = "counting"
  /\ vleft' = report
  /\ vbad' = {}
  /\ vcalm' = fresh
  /\ UNCHANGED vars

ReadManifest ==
  /\ vpc # "counting"
  /\ report \notin {None, Torn}
  /\ vpc' = "counting"
  /\ vleft' = {e \in report : Loaded(e)}
  /\ vbad' = {}
  /\ vcalm' = fresh
  /\ UNCHANGED vars

\* There is no manifest, or it does not parse.
ReadManifestFails ==
  /\ vpc # "counting"
  /\ report \in {None, Torn}
  /\ vpc' = "error"
  /\ vleft' = {}
  /\ vbad' = {}
  /\ vcalm' = fresh
  /\ UNCHANGED vars

\* Mutant: a mismatch is noted with the difference instead of the manifest's
\* count.
CountTableDifference(e) ==
  /\ vpc = "counting"
  /\ e \in vleft
  /\ table[TableOf[e.file]] # None
  /\ vleft' = vleft \ {e}
  /\ LET more == table[TableOf[e.file]].rows - e.rows
     IN  vbad' = IF more = 0 THEN vbad
                 ELSE vbad \union {[e EXCEPT !.rows = more]}
  /\ UNCHANGED <<vars, vpc, vcalm>>

CountTable(e) ==
  /\ vpc = "counting"
  /\ e \in vleft
  /\ table[TableOf[e.file]] # None
  /\ vleft' = vleft \ {e}
  /\ vbad' = IF table[TableOf[e.file]].rows = e.rows
             THEN vbad
             ELSE vbad \union {e}
  /\ UNCHANGED <<vars, vpc, vcalm>>

\* Mutant: a table that cannot be counted is tried again.
CountTableRetries(e) ==
  /\ vpc = "counting"
  /\ e \in vleft
  /\ table[TableOf[e.file]] = None
  /\ UNCHANGED <<vars, vpc, vleft, vbad, vcalm>>

\* Neither the qualified nor the bare name can be counted.
CountTableFails(e) ==
  /\ vpc = "counting"
  /\ e \in vleft
  /\ table[TableOf[e.file]] = None
  /\ vpc' = "error"
  /\ UNCHANGED <<vars, vleft, vbad, vcalm>>

\* Sail cannot be reached or refuses a query: an error like the one above,
\* told apart here because it says nothing about the tables.
SailFails ==
  /\ vpc = "counting"
  /\ vpc' = "failed"
  /\ UNCHANGED <<vars, vleft, vbad, vcalm>>

FinishVerify ==
  /\ vpc = "counting"
  /\ vleft = {}
  /\ vpc' = "done"
  /\ UNCHANGED <<vars, vleft, vbad, vcalm>>

Verifier ==
  \/ ReadManifest
  \/ ReadManifestFails
  \/ \E e \in vleft : CountTable(e) \/ CountTableFails(e)
  \/ SailFails
  \/ FinishVerify

VerifierCounts ==
  \/ \E e \in vleft : CountTable(e) \/ CountTableFails(e)
  \/ FinishVerify

Loader ==
  /\ Next
  /\ vcalm' = (vcalm /\ fresh')
  /\ UNCHANGED verifier

VNext == Loader \/ Verifier

VSpec == VInit /\ [][VNext]_vvars

-----------------------------------------------------------------------------
(* Properties *)

\* The verifier raises no false alarm: it neither misses a table nor reports a
\* row count that differs when no load was started since the manifest was
\* written.
NoFalseAlarm == vcalm => vpc # "error" /\ vbad = {}

\* A verification ends, even while loads go on replacing the tables.
VerifyEnds == vpc = "counting" ~> vpc # "counting"
=============================================================================
