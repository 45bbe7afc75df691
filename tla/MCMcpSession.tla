---------------------------- MODULE MCMcpSession ----------------------------
(***************************************************************************)
(* Two Croissant documents whose names safe_sql_name maps to one, and two  *)
(* OSI documents: one for the model those two make, one that has a dataset *)
(* of the same name and no word in common with it.                         *)
(***************************************************************************)
EXTENDS McpSession, TLC

EachName == {"energy", "Energy!", "grid", "cost", "load", "rows"}
EachModel == {"energy_model", "grid_model"}
EachWord == {"energy", "cost", "load", "dataset", "rows", "a"}
Short    == {"a"}

ContainedIn ==
  [n \in EachName |->
     CASE n \in {"energy", "Energy!"} -> {"energy", "a"}
       [] n \in {"cost", "load", "rows"} -> {n}
       [] OTHER -> {}]

Safe     == [n \in EachName |-> IF n = "Energy!" THEN "energy" ELSE n]
Modelled == [n \in EachName |-> IF n = "energy" THEN "energy_model"
                                ELSE "grid_model"]
Everywhere == {"dataset"}
Rows       == [name |-> "rows", about |-> {}]

Field(name, about, sameAs) == [name |-> name, about |-> about, sameAs |-> sameAs]

Energy  == [name |-> "energy", about |-> {"cost"},
            fields |-> {Field("load", {}, Null), Field(Null, {"rows"}, Null)}]
Energy2 == [name |-> "Energy!", about |-> {},
            fields |-> {Field("cost", {}, "load")}]
\* A model with a dataset called as those above, in another source.
Grid == [name |-> "grid_model",
         datasets |-> {[name |-> "grid", source |-> "grid", about |-> {},
                        fields |-> {[name |-> "load", about |-> {}]}],
                       [name |-> "energy", source |-> "rows", about |-> {},
                        fields |-> {}]},
         metrics |-> {[name |-> "cost", about |-> {}]}, terms |-> {}]

Request(method) == [id |-> TRUE, method |-> method, tool |-> "",
                    arguments |-> [none |-> Null]]
Call(tool, arguments) == [id |-> TRUE, method |-> "tools/call", tool |-> tool,
                          arguments |-> arguments]
Import(arguments)     == Call("import_semantic_model", arguments)

\* The payload was changed after it had been signed.
Tampered == [sender |-> "alice", payload |-> "q", hash |-> "p",
             scheme |-> "ed25519", verification_method |-> "alice",
             signature |-> [by |-> "alice",
                            over |-> [sender |-> "alice", hash |-> "p"]]]
Dataset == [agent_name |-> "agent", creator |-> "creator",
            dataset_name |-> "energy", landing_page |-> "page"]

Messages ==
  { Import([croissant |-> Energy]), Import([croissant |-> Energy2]),
    Import([osi |-> Grid]),
    [Import([osi |-> Grid]) EXCEPT !.id = FALSE],
    Import([osi |-> Malformed, croissant |-> Energy]),
    Call("search_semantic_models", [term |-> "load"]),
    Call("answer_question", [question |-> {"load", "a"}]),
    Call("answer_question", [question |-> {"cost"}]) }

Others ==
  { Request("resources/list"),
    Call("build_navigator_bundle", [input |-> Dataset]),
    Call("verify_envelope", [envelope |-> Tampered]),
    Call("run_qglake_story", [none |-> Null]),
    Call("no_such_tool", [none |-> Null]) }

EachLine == {Blank, Garbage, NotUtf8} \union Messages \union Others
=============================================================================
