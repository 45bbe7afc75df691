----------------------------- MODULE McpSession -----------------------------
(***************************************************************************)
(* The `mcp-serve` command (src/src/mcp.rs): one client writes JSON-RPC    *)
(* messages, a line each, to the server's standard input and reads its     *)
(* standard output.  The server takes one line after the other and answers *)
(* each request before it reads on; models that were imported stay for the *)
(* session.  Both pipes are bounded, so each side may have to wait for the *)
(* other, and either side may go away.                                     *)
(*                                                                         *)
(* A request is known by the place of its line in what the client wrote,   *)
(* which stands for its id.                                                *)
(***************************************************************************)
EXTENDS SemanticModels, QgLakeStory

CONSTANTS
  Lines,     \* what a client may write in one line
  Blank, Garbage, NotUtf8,  \* lines that are no message
  Malformed, \* an OSI document, input or envelope that is none
  MaxLines,  \* bound on the lines of a session
  PipeLines  \* lines a pipe holds

\* The tools that tools/list names.
Tools == {"build_navigator_bundle", "run_qglake_story", "verify_envelope",
          "import_semantic_model", "search_semantic_models", "answer_question"}

\* id is FALSE for a notification, a null id, and whatever is not an object (a
\* batch, for one).
IsMessage(line) == line \notin {Blank, Garbage, NotUtf8}
IsCall(line)    == /\ IsMessage(line)
                   /\ line.id /\ line.method = "tools/call"

\* The document that import_semantic_model registers; Null if it refuses.
DocumentOf(arguments) ==
  CASE "osi" \in DOMAIN arguments ->
         IF arguments.osi = Malformed THEN Null ELSE arguments.osi
    [] "osi" \notin DOMAIN arguments /\ "croissant" \in DOMAIN arguments ->
         IF arguments.croissant.name = Null THEN Null
         ELSE FromCroissant(arguments.croissant)
    [] OTHER -> Null

\* Lines that are answered.
Owed(line) == line = Garbage \/ (IsMessage(line) /\ line.id)

Imports(line) == /\ IsCall(line)
                 /\ line.tool = "import_semantic_model"
                 /\ DocumentOf(line.arguments) # Null

ASSUME McpAssumption ==
  /\ MaxLines \in Nat /\ PipeLines \in Nat \ {0}
  /\ Blank # Garbage /\ Blank # NotUtf8 /\ Garbage # NotUtf8
  /\ \A line \in Lines : Imports(line) =>
       DocumentOf(line.arguments).name \in ModelNames

VARIABLES
  sent,      \* lines the client has written
  closed,    \* the client has closed the server's input
  taken,     \* lines the server has read
  pc,        \* "read", "handle", "write"; "ended" or "failed" when it is over
  registry,  \* the document registered under each name
  response,  \* the answer to be written
  answers,   \* answers written: [to, says]
  received,  \* answers the client has read
  hungup     \* the client has closed the server's output

client == <<sent, closed, received, hungup>>
vars   == <<client, taken, pc, registry, response, answers>>

MTypeOK ==
  /\ sent \in Seq(Lines) /\ Len(sent) <= MaxLines
  /\ closed \in BOOLEAN /\ hungup \in BOOLEAN
  /\ taken \in 0..Len(sent) /\ Len(sent) - taken <= PipeLines
  /\ pc \in {"read", "handle", "write", "ended", "failed"}
  /\ DOMAIN registry = ModelNames
  /\ \A n \in ModelNames : registry[n] = Null \/ registry[n].name = n
  /\ IF pc = "write" THEN response.to = taken ELSE response = Null
  /\ Len(answers) <= taken
  /\ received \in 0..Len(answers) /\ Len(answers) - received <= PipeLines

Init ==
  /\ sent = <<>> /\ closed = FALSE
  /\ taken = 0 /\ pc = "read"
  /\ registry = [n \in ModelNames |-> Null]
  /\ response = Null /\ answers = <<>>
  /\ received = 0 /\ hungup = FALSE

-----------------------------------------------------------------------------
(* The tools *)

\* What a client signs: everything but the payload, which goes in by its hash.
Header(e) == [sender |-> e.sender, hash |-> e.hash]

\* PyTypeDidEnvelope::verify: the key is that of the verification method the
\* envelope names, whoever the sender is.
Verify(e) ==
  LET valid  == e.hash = e.payload
      signed == e.scheme = "ed25519"
  IN  [payload_hash_valid |-> valid,
       signed             |-> signed,
       signature_valid    |-> /\ valid /\ signed
                              /\ e.verification_method # Null
                              /\ e.signature = [by |-> e.verification_method,
                                                over |-> Header(e)]]

Public == <<"public">>

\* AiNavigator::build: the DID is made of agent, creator and dataset.
Bundle(input) ==
  LET did == <<input.agent_name, input.creator, input.dataset_name>>
  IN  [identity |-> did,
       target   |-> input.landing_page,
       policy   |-> [permissions  |-> {[action |-> "read", assignee |-> Public],
                                       [action |-> "index", assignee |-> did]},
                     prohibitions |-> {[action |-> "derive",
                                        assignee |-> Public]}]]

run_qglake_story == Story(Specs)

Models(m) == {m[n] : n \in {x \in ModelNames : m[x] # Null}}

Given(arguments, key, default) ==
  IF key \in DOMAIN arguments THEN arguments[key] ELSE default

\* call_tool, over the models in m.  Some errors are errors of the protocol,
\* others results that say so.
CallTool(m, tool, arguments) ==
  CASE tool = "build_navigator_bundle" ->
         LET input == Given(arguments, "input", Malformed)
         IN  IF input = Malformed THEN [error |-> -32602]
                                  ELSE [bundle |-> Bundle(input)]
    [] tool = "run_qglake_story" -> [story |-> run_qglake_story]
    [] tool = "verify_envelope" ->
         LET envelope == Given(arguments, "envelope", Malformed)
         IN  IF envelope = Malformed THEN [isError |-> TRUE]
                                     ELSE [verification |-> Verify(envelope)]
    [] tool = "import_semantic_model" ->
         IF DocumentOf(arguments) = Null THEN [error |-> -32602]
         ELSE [imported |-> DocumentOf(arguments).name]
    [] tool = "search_semantic_models" ->
         LET term == Given(arguments, "term", "")
         IN  [matches |-> UNION {Search(d, term) : d \in Models(m)}]
    [] tool = "answer_question" ->
         [answer |-> Answer(Models(m), Given(arguments, "question", {}))]
    [] OTHER -> [isError |-> TRUE]

\* handle_line and dispatch: what a line that is owed an answer is answered,
\* over the models in m.
Says(m, line) ==
  IF line = Garbage THEN [error |-> -32700]
  ELSE CASE line.method = "tools/call" ->
              CallTool(m, line.tool, line.arguments)
         [] line.method \in {"initialize", "ping", "tools/list"} ->
              [result |-> line.method]
         [] OTHER -> [error |-> -32601]

\* Mutant: a model that is there is kept.
RegisteredIfNew(m, line) ==
  LET doc == DocumentOf(line.arguments)
  IN  IF Imports(line) THEN [m EXCEPT ![doc.name] = IF @ = Null THEN doc ELSE @]
                       ELSE m

\* The models once the line has been handled: one of the same name is replaced.
Registered(m, line) ==
  LET doc == DocumentOf(line.arguments)
  IN  IF Imports(line) THEN [m EXCEPT ![doc.name] = doc] ELSE m

-----------------------------------------------------------------------------
(* The client *)

Alive == pc \notin {"ended", "failed"}

ClientWrites(line) ==
  /\ ~closed /\ Alive
  /\ Len(sent) < MaxLines
  /\ Len(sent) - taken < PipeLines
  /\ sent' = Append(sent, line)
  /\ UNCHANGED <<closed, received, hungup, taken, pc, registry, response,
                 answers>>

ClientCloses ==
  /\ ~closed
  /\ closed' = TRUE
  /\ UNCHANGED <<sent, received, hungup, taken, pc, registry, response,
                 answers>>

ClientReads ==
  /\ ~hungup
  /\ received < Len(answers)
  /\ received' = received + 1
  /\ UNCHANGED <<sent, closed, hungup, taken, pc, registry, response, answers>>

ClientHangsUp ==
  /\ ~hungup
  /\ hungup' = TRUE
  /\ UNCHANGED <<sent, closed, received, taken, pc, registry, response,
                 answers>>

-----------------------------------------------------------------------------
(* The server: run_stdio *)

\* Mutant: a blank line ends the session.
ReadLineOrStop ==
  /\ pc = "read"
  /\ taken < Len(sent)
  /\ taken' = taken + 1
  /\ pc' = CASE sent[taken + 1] = Blank   -> "ended"
             [] sent[taken + 1] = NotUtf8 -> "failed"
             [] OTHER                     -> "handle"
  /\ UNCHANGED <<client, registry, response, answers>>

\* A blank line is passed over; one that is not UTF-8 ends the session.
ReadLine ==
  /\ pc = "read"
  /\ taken < Len(sent)
  /\ taken' = taken + 1
  /\ pc' = CASE sent[taken + 1] = Blank   -> "read"
             [] sent[taken + 1] = NotUtf8 -> "failed"
             [] OTHER                     -> "handle"
  /\ UNCHANGED <<client, registry, response, answers>>

ReadEof ==
  /\ pc = "read"
  /\ taken = Len(sent) /\ closed
  /\ pc' = "ended"
  /\ UNCHANGED <<client, taken, registry, response, answers>>

\* Mutant: a notification is dispatched, too, and only its answer dropped.
HandleNotifications ==
  /\ pc = "handle"
  /\ LET line == sent[taken]
     IN  /\ registry' = IF IsMessage(line)
                        THEN Registered(registry, [line EXCEPT !.id = TRUE])
                        ELSE registry
         /\ response' = IF Owed(line)
                        THEN [to |-> taken, says |-> Says(registry, line)]
                        ELSE Null
         /\ pc' = IF Owed(line) THEN "write" ELSE "read"
  /\ UNCHANGED <<client, taken, answers>>

\* A notification is dropped before it is dispatched.
Handle ==
  /\ pc = "handle"
  /\ LET line == sent[taken]
     IN  IF Owed(line)
         THEN /\ response' = [to |-> taken, says |-> Says(registry, line)]
              /\ registry' = Registered(registry, line)
              /\ pc' = "write"
         ELSE /\ pc' = "read"
              /\ UNCHANGED <<registry, response>>
  /\ UNCHANGED <<client, taken, answers>>

\* Mutant: the answer is written whether or not the pipe has room.
WriteUnbounded ==
  /\ pc = "write"
  /\ ~hungup
  /\ answers' = Append(answers, response)
  /\ response' = Null
  /\ pc' = "read"
  /\ UNCHANGED <<client, taken, registry>>

WriteResponse ==
  /\ pc = "write"
  /\ ~hungup
  /\ Len(answers) - received < PipeLines
  /\ answers' = Append(answers, response)
  /\ response' = Null
  /\ pc' = "read"
  /\ UNCHANGED <<client, taken, registry>>

WriteFails ==
  /\ pc = "write"
  /\ hungup
  /\ response' = Null
  /\ pc' = "failed"
  /\ UNCHANGED <<client, taken, registry, answers>>

Serve == ReadLine \/ ReadEof \/ Handle \/ WriteResponse \/ WriteFails

Next ==
  \/ \E line \in Lines : ClientWrites(line)
  \/ ClientCloses \/ ClientReads \/ ClientHangsUp
  \/ Serve

Spec     == Init /\ [][Next]_vars
FairSpec == Spec /\ WF_vars(Serve) /\ WF_vars(ClientReads)

-----------------------------------------------------------------------------
(* Properties *)

ImportsModel(line, n) == Imports(line) /\ DocumentOf(line.arguments).name = n

\* last[n] is the last of the first i lines that imported a model named n, 0 if
\* none did.
LastImports(lines, last, i) ==
  \A n \in ModelNames :
    /\ last[n] # 0 => ImportsModel(lines[last[n]], n)
    /\ \A k \in (last[n] + 1)..i : ~ImportsModel(lines[k], n)

ModelsOf(lines, last) ==
  [n \in ModelNames |-> IF last[n] = 0 THEN Null
                        ELSE DocumentOf(lines[last[n]].arguments)]

\* The answer is the one that its line is owed: for each name it counts the
\* model of the last import before that line, of the requests alone.
Right(lines, answer) ==
  /\ Owed(lines[answer.to])
  /\ \E last \in [ModelNames -> 0..(answer.to - 1)] :
       /\ LastImports(lines, last, answer.to - 1)
       /\ answer.says = Says(ModelsOf(lines, last), lines[answer.to])

\* The lines the server is done with, or has an answer in hand for.
HandledLines == 1..(IF pc \in {"handle", "write"} THEN taken - 1 ELSE taken)

\* However the client pipelines its lines, and wherever the session is cut:
\* every request that was handled has one answer, in the order of the requests,
\* that accounts for exactly the imports before it; a notification, even one
\* that asks for an import, has neither answer nor effect.
AnswersFollowRequests ==
  /\ \A j \in 1..Len(answers) : /\ answers[j].to \in 1..taken
                                /\ Right(sent, answers[j])
  /\ \A j, k \in 1..Len(answers) : j < k => answers[j].to < answers[k].to
  /\ pc # "failed" => \A i \in HandledLines : Owed(sent[i]) =>
       \E j \in 1..Len(answers) : answers[j].to = i

\* The models that stand when line i is handled.
Standing(i) ==
  {DocumentOf(sent[k].arguments) : k \in
     {l \in 1..(i - 1) :
        /\ Imports(sent[l])
        /\ \A m \in (l + 1)..(i - 1) : Imports(sent[m]) =>
             DocumentOf(sent[m].arguments).name
               # DocumentOf(sent[l].arguments).name}}

\* A word of the question is found in the dataset or in one of its fields.
About(question, dataset) ==
  \E word \in question \ ShortWords :
    Hit(dataset, word) \/ \E f \in dataset.fields : Hit(f, word)

\* The datasets of a model that a question is about, and their namesakes there.
Relevant(model, question) ==
  {d \in model.datasets :
     \E e \in model.datasets : e.name = d.name /\ About(question, e)}

\* What answer_question plans to query, and says in the signed payload and in
\* the lineage inputs that it consults, are the datasets the question is about,
\* of models that have not been replaced: none is missing, and none is there
\* because one of the same name was found in another model, or because a metric
\* or a term was.
PlansGrounded ==
  \A j \in 1..Len(answers) :
    "answer" \in DOMAIN answers[j].says =>
      LET a == answers[j].says.answer
          relevant == UNION {Relevant(m, a.question) :
                               m \in Standing(answers[j].to)}
      IN  /\ {<<p.dataset, p.source>> : p \in a.plans}
               = {<<d.name, d.source>> : d \in relevant}
          /\ a.signed.plans = a.plans
          /\ a.inputs = {d.source : d \in relevant}

\* Every story told is governed: its receipts stand under the policy published
\* with it, no agent may touch another one's compartment, and restricted data
\* contributes a denial only.
StoriesGoverned ==
  \A j \in 1..Len(answers) :
    "story" \in DOMAIN answers[j].says => Governed(Specs, answers[j].says.story)

\* A call of the registry, as the client sees it.
OnRegistry(line) ==
  /\ IsCall(line)
  /\ line.tool \in {"import_semantic_model", "search_semantic_models",
                    "answer_question"}

CallOf(line) ==
  LET doc == DocumentOf(line.arguments)
  IN  CASE line.tool # "import_semantic_model" ->
             [kind |-> "all", name |-> Null, doc |-> Null]
        [] line.tool = "import_semantic_model" /\ doc = Null ->
             [kind |-> "malformed", name |-> Null, doc |-> Null]
        [] OTHER -> [kind |-> "import", name |-> doc.name, doc |-> doc]

Calling == pc \in {"handle", "write"} /\ OnRegistry(sent[taken])

StageNow == CASE ~Calling                                -> "idle"
              [] Calling /\ pc = "handle"                -> "called"
              [] Calling /\ pc = "write" /\
                 CallOf(sent[taken]).kind = "malformed"  -> "refused"
              [] OTHER                                   -> "applied"

SeenNow == IF StageNow # "applied" THEN Null
           ELSE IF CallOf(sent[taken]).kind = "import" THEN [n \in {} |-> Null]
           ELSE registry

Registry == INSTANCE ModelRegistry WITH
  Tasks  <- {"session"},
  Names  <- ModelNames,
  Calls  <- {CallOf(line) : line \in {l \in Lines : OnRegistry(l)}},
  None   <- Null,
  models <- registry,
  stage  <- [t \in {"session"} |-> StageNow],
  call   <- [t \in {"session"} |-> IF Calling THEN CallOf(sent[taken]) ELSE Null],
  seen   <- [t \in {"session"} |-> SeenNow]

\* The session keeps the promise of the HTTP service: a call takes effect at
\* one instant between its line and its answer, an import sets one model, and
\* nothing else in the session, a refused import included, sets any.
RegistrySpec == Registry!Spec

\* A client that goes on reading gets its answer to every request, unless a
\* line before it was not UTF-8, and a session whose input is closed ends: no
\* pipe that is full for a while, and no line that is no request, holds it up.
RequestsAnswered ==
  /\ \A i \in 1..MaxLines :
       (i <= Len(sent) /\ Owed(sent[i])) ~>
         \/ hungup \/ \E k \in 1..Len(sent) : k < i /\ sent[k] = NotUtf8
         \/ \E j \in 1..received : answers[j].to = i
  /\ closed ~> ~Alive
=============================================================================
