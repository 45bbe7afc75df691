--------------------------- MODULE SemanticModels ---------------------------
(***************************************************************************)
(* OSI semantic models as the servers use them: how a Croissant document   *)
(* becomes one (src/src/osi.rs), how a model is searched, and what is      *)
(* answered over a set of models (src/src/server.rs).                      *)
(*                                                                         *)
(* A model is [name, datasets, metrics, terms], a dataset [name, source,   *)
(* about, fields], a field or a metric [name, about], a term [id, label].  *)
(* `about` is the set of the words contained in the descriptions of a      *)
(* thing; Contained gives those contained in its name.  Lists are sets:    *)
(* what order or repetition changes is left out.                           *)
(***************************************************************************)
CONSTANTS
  Names,       \* names of datasets, fields, metrics and terms
  ModelNames,  \* names of models
  Words,       \* words of questions and searches
  ShortWords,  \* those of at most two bytes, which a question ignores
  Contained,   \* the words each name contains, in lower case
  SafeName,    \* safe_sql_name
  ModelName,   \* the name of the model made from the dataset with this name
  Boilerplate, \* words of the description every Croissant dataset is given
  RowCount,    \* the metric every model made from a Croissant document has
  Null         \* no document, no name, no description

ASSUME SemanticAssumption ==
  /\ SafeName \in [Names -> Names] /\ ModelName \in [Names -> ModelNames]
  /\ Contained \in [Names -> SUBSET Words]
  /\ ShortWords \subseteq Words /\ Boilerplate \subseteq Words
  /\ Null \notin Names \union ModelNames

\* OsiDocument::from_croissant_json: one dataset, whose fields are those of
\* all record sets, without the nameless ones; each sameAs makes a term.
FromCroissant(croissant) ==
  LET fields == {f \in croissant.fields : f.name # Null}
      safe   == SafeName[croissant.name]
      Meant(f) == IF f.sameAs = Null THEN {} ELSE Contained[f.sameAs]
  IN  [name     |-> ModelName[safe],
       datasets |-> {[name   |-> safe,
                      source |-> safe,
                      about  |-> croissant.about \union Boilerplate
                                   \union Contained[croissant.name],
                      fields |-> {[name  |-> f.name,
                                   about |-> f.about \union Meant(f)] :
                                    f \in fields}]},
       metrics  |-> {RowCount},
       terms    |-> {[id |-> f.sameAs, label |-> f.name] :
                       f \in {g \in fields : g.sameAs # Null}}]

-----------------------------------------------------------------------------
(* search_model *)

\* Everything contains the empty word.
Hit(thing, word) == word = "" \/ word \in thing.about \union Contained[thing.name]

HitTerm(term, word) ==
  word = "" \/ word \in Contained[term.id] \union Contained[term.label]

Match(model, kind, name, of) ==
  [model |-> model.name, kind |-> kind, name |-> name, of |-> of]

DatasetMatches(model, word) ==
  {Match(model, "dataset", d.name, Null) :
     d \in {x \in model.datasets : Hit(x, word)}}

FieldMatches(model, dataset, word) ==
  {Match(model, "field", f.name, dataset.name) :
     f \in {x \in dataset.fields : Hit(x, word)}}

MetricMatches(model, word) ==
  {Match(model, "metric", m.name, Null) :
     m \in {x \in model.metrics : Hit(x, word)}}

TermMatches(model, word) ==
  {Match(model, "ontologyTerm", t.label, t.id) :
     t \in {x \in model.terms : HitTerm(x, word)}}

Search(model, word) ==
  DatasetMatches(model, word)
    \union (UNION {FieldMatches(model, d, word) : d \in model.datasets})
    \union MetricMatches(model, word)
    \union TermMatches(model, word)

-----------------------------------------------------------------------------
(* answer_over_models *)

ModelMatches(model, question) ==
  UNION {Search(model, word) : word \in question \ ShortWords}

HitDatasets(model, question) ==
  LET hits == ModelMatches(model, question)
  IN  {h.name : h \in {x \in hits : x.kind = "dataset"}}
        \union {h.of : h \in {x \in hits : x.kind = "field"}}

\* Mutant: the datasets that were hit are not told apart by model.
PlansAcross(models, question) ==
  LET hit == UNION {HitDatasets(m, question) : m \in models}
      all == UNION {m.datasets : m \in models}
  IN  {[dataset |-> d.name, source |-> d.source,
        columns |-> {f.name : f \in d.fields}] :
         d \in {x \in all : x.name \in hit}}

\* One query for each dataset that was hit, itself or by one of its fields, in
\* its own model; a metric or a term alone leads to none.
Plans(models, question) ==
  UNION {{[dataset |-> d.name, source |-> d.source,
           columns |-> {f.name : f \in d.fields}] :
            d \in {x \in m.datasets : x.name \in HitDatasets(m, question)}} :
            m \in models}

Answer(models, question) ==
  LET plans == Plans(models, question)
  IN  [question |-> question,
       matches  |-> UNION {ModelMatches(m, question) : m \in models},
       plans    |-> plans,
       signed   |-> [question |-> question, plans |-> plans],
       inputs   |-> {p.source : p \in plans}]
=============================================================================
