----------------------------- MODULE HttpServer -----------------------------
(***************************************************************************)
(* The `serve` command (src/src/server.rs, src/src/memory.rs): requests    *)
(* served concurrently by the threads of the runtime, each by a task of    *)
(* its own, over one registry of semantic models in memory, guarded by a   *)
(* read-write lock, and one persistent memory.                             *)
(*                                                                         *)
(* A handler is cut where it gives up its thread (the body, the blocking   *)
(* job, the answer) and where it takes the lock; between those points it   *)
(* touches nothing shared.  Blocking jobs run on threads of their own and  *)
(* are not stopped when the client leaves and the handler is dropped.      *)
(***************************************************************************)
EXTENDS Integers, FiniteSets

CONSTANTS
  Tasks,        \* requests that may be served at the same time
  Requests,     \* the requests clients send: [route, body, envelope]
  Names,        \* names of semantic models
  Docs,         \* OSI documents
  NameOf,       \* the name of the model a document holds
  Items,        \* contents of memories
  Subjects,     \* TypeDID subjects
  MayCall,      \* the memory policy: triples of a subject, a route and a body
  MaxRequests,  \* bound on the requests in a behaviour
  MaxFaults,    \* bound on failures, clients that leave and restarts
  Malformed,    \* a body that is not what the route expects
  None          \* no document, no envelope, no answer

ImportRoutes   == {"import_osi", "import_croissant"}
GovernedRoutes == ImportRoutes \union {"answer"}
MemoryRoutes   == {"remember", "recall", "forget"}
ReadRoutes     == {"list", "get", "search"}
Routes         == GovernedRoutes \union MemoryRoutes \union ReadRoutes

\* What a memory call is about.  A list of records to forget names at most one
\* record of each contents.  The space and the purpose that a body names, which
\* the policy looks at, are told apart by these contents alone.
Contents(route) == IF route = "forget" THEN SUBSET Items ELSE Items

\* An envelope says who signed what for which route; body stands for the
\* hash of the body, signer for the DID of the verification method.
Envelope == [signed : BOOLEAN, signer : Subjects, sender : Subjects,
             toServer : BOOLEAN, invoke : BOOLEAN, route : Routes,
             body : Docs \union Items \union SUBSET Items
                      \union {Malformed, None}]

ASSUME ServerAssumption ==
  /\ NameOf \in [Docs -> Names]
  /\ MayCall \subseteq Subjects \X MemoryRoutes \X (Items \union SUBSET Items)
  /\ MaxRequests \in Nat /\ MaxFaults \in Nat
  /\ \A names \in SUBSET Names : None \notin [names -> Docs \union {None}]
  /\ \A q \in Requests :
       /\ q.route \in Routes
       /\ q.envelope = None \/ q.envelope \in Envelope
       /\ q.body = Malformed \/ q.body \in CASE q.route \in ImportRoutes -> Docs
                                             [] q.route \in MemoryRoutes -> Contents(q.route)
                                             [] q.route = "get"          -> Names
                                             [] OTHER                    -> {None}

Codes == {"200", "400", "401", "403", "404", "422", "500", "503"}

VARIABLES
  requireAuth, memoryOn,  \* how the server was configured
  registry,   \* the document registered under each name
  memory,     \* how many memories there are with each contents
  pc,         \* where the task of a request stands
  req,        \* the request
  gone,       \* its client has left
  snap,       \* the models it answers from, once it has read them
  code,       \* the status it answers with
  sent,       \* history: requests sent so far
  asked,      \* history: authenticated calls to remember each contents
  acked,      \* history: such calls answered with 200
  forgotten,  \* history: memories of each contents forgotten
  faults      \* history: failures, clients that left and restarts

config  == <<requireAuth, memoryOn>>
task    == <<req, gone, snap, code>>
history == <<sent, asked, acked, forgotten>>
vars    == <<config, registry, memory, pc, task, history, faults>>

Stages == {"idle", "body", "auth", "parse", "run", "job", "orphan", "reply"}

STypeOK ==
  /\ requireAuth \in BOOLEAN /\ memoryOn \in BOOLEAN
  /\ registry \in [Names -> Docs \union {None}]
  /\ memory \in [Items -> Nat]
  /\ pc \in [Tasks -> Stages]
  /\ req \in [Tasks -> Requests \union {None}]
  /\ gone \in [Tasks -> BOOLEAN]
  /\ \A t \in Tasks : snap[t] = None \/ DOMAIN snap[t] \subseteq Names
  /\ code \in [Tasks -> Codes \union {None}]
  /\ sent \in 0..MaxRequests
  /\ faults \in 0..MaxFaults

Init ==
  /\ requireAuth \in BOOLEAN /\ memoryOn \in BOOLEAN
  /\ registry = [n \in Names |-> None]
  /\ memory = [i \in Items |-> 0]
  /\ pc = [t \in Tasks |-> "idle"]
  /\ req = [t \in Tasks |-> None]
  /\ gone = [t \in Tasks |-> FALSE]
  /\ snap = [t \in Tasks |-> None]
  /\ code = [t \in Tasks |-> None]
  /\ sent = 0
  /\ asked = [i \in Items |-> 0]
  /\ acked = [i \in Items |-> 0]
  /\ forgotten = [i \in Items |-> 0]
  /\ faults = 0

-----------------------------------------------------------------------------
(* Helpers *)

Fault == faults < MaxFaults /\ faults' = faults + 1

Goto(t, stage) == pc' = [pc EXCEPT ![t] = stage]

Answer(t, c) ==
  /\ code' = [code EXCEPT ![t] = c]
  /\ Goto(t, "reply")
  /\ UNCHANGED <<req, gone>>

\* The task ends.
Release(t) ==
  /\ Goto(t, "idle")
  /\ req' = [req EXCEPT ![t] = None]
  /\ gone' = [gone EXCEPT ![t] = FALSE]
  /\ snap' = [snap EXCEPT ![t] = None]
  /\ code' = [code EXCEPT ![t] = None]

\* The routes envelope_auth is layered on.
NeedsEnvelope(q) ==
  \/ q.route \in MemoryRoutes
  \/ requireAuth /\ q.route \in GovernedRoutes

\* Mutant: the envelope is not bound to the body.
AuthorizedForAnyBody(q) ==
  LET e == q.envelope
  IN  /\ e.signed
      /\ e.signer = e.sender
      /\ e.toServer
      /\ e.invoke
      /\ e.route = q.route

\* The checks of envelope_auth.
Authorized(q) ==
  LET e == q.envelope
  IN  /\ e.signed
      /\ e.signer = e.sender
      /\ e.toServer
      /\ e.invoke
      /\ e.route = q.route
      /\ e.body = q.body

-----------------------------------------------------------------------------
(* Arrival and authentication *)

Receive(t, q) ==
  /\ sent < MaxRequests
  /\ pc[t] = "idle"
  /\ req' = [req EXCEPT ![t] = q]
  /\ Goto(t, "body")
  /\ sent' = sent + 1
  /\ UNCHANGED <<config, registry, memory, gone, snap, code, asked, acked,
                 forgotten, faults>>

\* The header is missed before the body is read.
NoEnvelope(t) ==
  /\ pc[t] = "body"
  /\ NeedsEnvelope(req[t]) /\ req[t].envelope = None
  /\ Answer(t, "401")
  /\ UNCHANGED <<config, registry, memory, snap, history, faults>>

\* Nothing bounds the time a client takes to send the body.
ReadBody(t) ==
  /\ pc[t] = "body"
  /\ NeedsEnvelope(req[t]) => req[t].envelope # None
  /\ Goto(t, IF NeedsEnvelope(req[t]) THEN "auth" ELSE "parse")
  /\ UNCHANGED <<config, registry, memory, task, history, faults>>

\* The body is too long, or ends early.
BodyUnreadable(t) ==
  /\ Fault
  /\ pc[t] = "body"
  /\ NeedsEnvelope(req[t]) => req[t].envelope # None
  /\ Answer(t, IF NeedsEnvelope(req[t]) THEN "401" ELSE "400")
  /\ UNCHANGED <<config, registry, memory, snap, history>>

Authenticate(t) ==
  /\ pc[t] = "auth"
  /\ Authorized(req[t])
  /\ Goto(t, "parse")
  /\ asked' = IF req[t].route = "remember" /\ req[t].body \in Items
              THEN [asked EXCEPT ![req[t].body] = @ + 1]
              ELSE asked
  /\ UNCHANGED <<config, registry, memory, task, sent, acked, forgotten,
                 faults>>

RejectEnvelope(t) ==
  /\ pc[t] = "auth"
  /\ ~Authorized(req[t])
  /\ Answer(t, "401")
  /\ UNCHANGED <<config, registry, memory, snap, history, faults>>

\* The Json extractor, and OsiDocument::from_croissant_json.
Parse(t) ==
  /\ pc[t] = "parse"
  /\ req[t].body # Malformed
  /\ Goto(t, "run")
  /\ UNCHANGED <<config, registry, memory, task, history, faults>>

RejectBody(t) ==
  /\ pc[t] = "parse"
  /\ req[t].body = Malformed
  /\ Answer(t, "422")
  /\ UNCHANGED <<config, registry, memory, snap, history, faults>>

-----------------------------------------------------------------------------
(* The semantic models *)

At(t, routes) == pc[t] = "run" /\ req[t].route \in routes

See(t, names) == snap' = [snap EXCEPT ![t] = [n \in names |-> registry[n]]]

\* Mutant: the registry is replaced by a copy made before the lock was taken.
RegisterModelInCopy(t) ==
  /\ At(t, ImportRoutes)
  /\ LET d == req[t].body
     IN  registry' = [n \in Names |-> IF n = NameOf[d] THEN d ELSE None]
  /\ See(t, {})
  /\ Answer(t, "200")
  /\ UNCHANGED <<config, memory, history, faults>>

\* A model of the same name is replaced.
RegisterModel(t) ==
  /\ At(t, ImportRoutes)
  /\ registry' = [registry EXCEPT ![NameOf[req[t].body]] = req[t].body]
  /\ See(t, {})
  /\ Answer(t, "200")
  /\ UNCHANGED <<config, memory, history, faults>>

GetModel(t) ==
  /\ At(t, {"get"})
  /\ See(t, {req[t].body})
  /\ Answer(t, IF registry[req[t].body] = None THEN "404" ELSE "200")
  /\ UNCHANGED <<config, registry, memory, history, faults>>

ListModels(t) ==
  /\ At(t, {"list", "search"})
  /\ See(t, Names)
  /\ Answer(t, "200")
  /\ UNCHANGED <<config, registry, memory, history, faults>>

\* answer clones the models under the lock and hands them to a blocking job.
StartAnswer(t) ==
  /\ At(t, {"answer"})
  /\ See(t, Names)
  /\ Goto(t, "job")
  /\ UNCHANGED <<config, registry, memory, req, gone, code, history, faults>>

Job(t, routes) == pc[t] \in {"job", "orphan"} /\ req[t].route \in routes

\* Mutant: a job that is done waits until its handler takes the result.
JobDoneOnceTaken(t, c) ==
  IF pc[t] = "job" THEN Answer(t, c) /\ UNCHANGED snap
                   ELSE UNCHANGED <<pc, task>>

\* A job that is done answers, if its handler was not dropped.
JobDone(t, c) == IF pc[t] = "job" THEN Answer(t, c) /\ UNCHANGED snap
                 ELSE Release(t)

FinishAnswer(t) ==
  /\ Job(t, {"answer"})
  /\ JobDone(t, "200")
  /\ UNCHANGED <<config, registry, memory, history, faults>>

\* The job panics, or the result cannot be signed.
AnswerFails(t) ==
  /\ Fault
  /\ Job(t, {"answer"})
  /\ JobDone(t, "500")
  /\ UNCHANGED <<config, registry, memory, history>>

-----------------------------------------------------------------------------
(* Memory: memory_call and MemoryApi::execute *)

MemoryDisabled(t) ==
  /\ At(t, MemoryRoutes)
  /\ ~memoryOn
  /\ Answer(t, "503")
  /\ UNCHANGED <<config, registry, memory, snap, history, faults>>

\* Mutant: the call is answered before its job has run.
AnswerAhead(t) ==
  /\ At(t, MemoryRoutes)
  /\ memoryOn
  /\ Goto(t, "job")
  /\ acked' = IF req[t].route = "remember"
              THEN [acked EXCEPT ![req[t].body] = @ + 1]
              ELSE acked
  /\ UNCHANGED <<config, registry, memory, task, sent, asked, forgotten,
                 faults>>

StartMemoryJob(t) ==
  /\ At(t, MemoryRoutes)
  /\ memoryOn
  /\ Goto(t, "job")
  /\ UNCHANGED <<config, registry, memory, task, history, faults>>

Permitted(q) == <<q.envelope.sender, q.route, q.body>> \in MayCall

MemoryDenied(t) ==
  /\ Job(t, MemoryRoutes)
  /\ ~Permitted(req[t])
  /\ JobDone(t, "403")
  /\ UNCHANGED <<config, registry, memory, history, faults>>

Remember(t) ==
  /\ Job(t, {"remember"})
  /\ Permitted(req[t])
  /\ memory' = [memory EXCEPT ![req[t].body] = @ + 1]
  /\ JobDone(t, "200")
  /\ UNCHANGED <<config, registry, history, faults>>

Recall(t) ==
  /\ Job(t, {"recall"})
  /\ Permitted(req[t])
  /\ JobDone(t, "200")
  /\ UNCHANGED <<config, registry, memory, history, faults>>

\* The router may still refuse a call that the guard allowed.
RouterRefuses(t) ==
  /\ Job(t, MemoryRoutes)
  /\ Permitted(req[t])
  /\ JobDone(t, "403")
  /\ UNCHANGED <<config, registry, memory, history, faults>>

\* One record of each of the contents is forgotten.
Drop(contents) ==
  /\ memory' = [i \in Items |-> IF i \in contents THEN memory[i] - 1
                                                  ELSE memory[i]]
  /\ forgotten' = [i \in Items |-> IF i \in contents THEN forgotten[i] + 1
                                                     ELSE forgotten[i]]

\* Mutant: a record can be forgotten again.
ForgetAgain(t) ==
  /\ Job(t, {"forget"})
  /\ Permitted(req[t])
  /\ Drop(req[t].body)
  /\ JobDone(t, "200")
  /\ UNCHANGED <<config, registry, sent, asked, acked, faults>>

Forget(t) ==
  /\ Job(t, {"forget"})
  /\ Permitted(req[t])
  /\ \A i \in req[t].body : memory[i] > 0
  /\ Drop(req[t].body)
  /\ JobDone(t, "200")
  /\ UNCHANGED <<config, registry, sent, asked, acked, faults>>

\* One of the records is not there, or not any more, or may not be forgotten:
\* the call fails, with any of the others forgotten or none.
ForgetStops(t) ==
  /\ Job(t, {"forget"})
  /\ Permitted(req[t])
  /\ req[t].body # {}
  /\ \E some \in SUBSET {i \in req[t].body : memory[i] > 0} : Drop(some)
  /\ \E c \in {"403", "500"} : JobDone(t, c)
  /\ UNCHANGED <<config, registry, sent, asked, acked, faults>>

\* The store fails without having changed anything.
StoreFails(t) ==
  /\ Fault
  /\ Job(t, MemoryRoutes)
  /\ Permitted(req[t])
  /\ JobDone(t, "500")
  /\ UNCHANGED <<config, registry, memory, history>>

-----------------------------------------------------------------------------
(* Answers, clients that leave, restarts *)

SendAnswer(t) ==
  /\ pc[t] = "reply"
  /\ acked' = IF ~gone[t] /\ req[t].route = "remember" /\ code[t] = "200"
              THEN [acked EXCEPT ![req[t].body] = @ + 1]
              ELSE acked
  /\ Release(t)
  /\ UNCHANGED <<config, registry, memory, sent, asked, forgotten, faults>>

Leave(t) ==
  /\ Fault
  /\ pc[t] \notin {"idle", "orphan"}
  /\ ~gone[t]
  /\ gone' = [gone EXCEPT ![t] = TRUE]
  /\ UNCHANGED <<config, registry, memory, pc, req, snap, code, history>>

\* The handler of a client that left is dropped where it waits; a job that it
\* waits for goes on.
DropHandler(t) ==
  /\ gone[t]
  /\ \/ pc[t] = "body" /\ Release(t)
     \/ pc[t] = "job" /\ Goto(t, "orphan") /\ UNCHANGED task
  /\ UNCHANGED <<config, registry, memory, history, faults>>

Restart ==
  /\ Fault
  /\ registry' = [n \in Names |-> None]
  /\ pc' = [t \in Tasks |-> "idle"]
  /\ req' = [t \in Tasks |-> None]
  /\ gone' = [t \in Tasks |-> FALSE]
  /\ snap' = [t \in Tasks |-> None]
  /\ code' = [t \in Tasks |-> None]
  /\ UNCHANGED <<config, memory, history>>

-----------------------------------------------------------------------------

\* What the runtime does for a task once its body is there.
Serve(t) ==
  \/ Authenticate(t) \/ RejectEnvelope(t) \/ Parse(t) \/ RejectBody(t)
  \/ RegisterModel(t) \/ GetModel(t) \/ ListModels(t)
  \/ StartAnswer(t) \/ FinishAnswer(t)
  \/ MemoryDisabled(t) \/ StartMemoryJob(t) \/ MemoryDenied(t)
  \/ Remember(t) \/ Recall(t) \/ Forget(t) \/ ForgetStops(t)
  \/ RouterRefuses(t)
  \/ SendAnswer(t)

Next ==
  \/ \E t \in Tasks :
       \/ \E q \in Requests : Receive(t, q)
       \/ NoEnvelope(t) \/ ReadBody(t) \/ BodyUnreadable(t)
       \/ Serve(t)
       \/ AnswerFails(t) \/ StoreFails(t)
       \/ Leave(t) \/ DropHandler(t)
  \/ Restart

Spec     == Init /\ [][Next]_vars
FairSpec == Spec /\ \A t \in Tasks : WF_vars(Serve(t))

-----------------------------------------------------------------------------
(* Properties *)

\* A call of the registry, as its client sees it.
CallOf(q) ==
  [kind |-> IF q.body = Malformed THEN "malformed"
            ELSE CASE q.route \in ImportRoutes -> "import"
                   [] q.route = "get"          -> "get"
                   [] OTHER                    -> "all",
   name |-> CASE q.route \in ImportRoutes /\ q.body \in Docs -> NameOf[q.body]
              [] q.route = "get"                             -> q.body
              [] OTHER                                       -> None,
   doc  |-> IF q.route \in ImportRoutes THEN q.body ELSE None]

OnRegistry(t) == pc[t] # "idle" /\ req[t].route \notin MemoryRoutes

StageOf(t) ==
  IF ~OnRegistry(t) THEN "idle"
  ELSE CASE pc[t] \in {"body", "auth", "parse", "run"} -> "called"
         [] pc[t] = "reply" /\ snap[t] = None          -> "refused"
         [] OTHER                                      -> "applied"

Registry == INSTANCE ModelRegistry WITH
  Calls  <- {CallOf(q) : q \in {r \in Requests : r.route \notin MemoryRoutes}},
  models <- registry,
  stage  <- [t \in Tasks |-> StageOf(t)],
  call   <- [t \in Tasks |-> IF OnRegistry(t) THEN CallOf(req[t]) ELSE None],
  seen   <- snap

\* However requests interleave, and whichever clients leave: an import takes
\* effect at one instant and leaves every other model alone, and a list, a
\* search or an answer is computed from the models of one instant, also when
\* its job ends after later imports.
RegistrySpec == Registry!Spec

\* The client that signed the call is the one it acts for, and signed it to
\* invoke this route of this server with this content.
SignedFor(route, body) ==
  \E q \in Requests :
    /\ q.envelope # None
    /\ q.envelope.signed
    /\ q.envelope.signer = q.envelope.sender
    /\ q.envelope.toServer
    /\ q.envelope.invoke
    /\ q.envelope.route = route
    /\ q.envelope.body = body
    /\ route \in MemoryRoutes => Permitted(q)

\* Nothing is in memory unless a subject whom the policy lets remember signed
\* it, and, on a server that requires envelopes, no model is registered that
\* nobody signed for import: no restart, no left client and no envelope made
\* for another body or another route gets around that.
EffectsAreSigned ==
  /\ \A i \in Items : memory[i] > 0 => SignedFor("remember", i)
  /\ requireAuth =>
       \A n \in Names : registry[n] # None =>
         \E r \in ImportRoutes : SignedFor(r, registry[n])

\* A client that was told its memory is kept finds it there unless it was
\* forgotten, after any restart; and no request, dropped or not, is
\* remembered twice.
RememberedOnce ==
  \A i \in Items : /\ acked[i] <= memory[i] + forgotten[i]
                  /\ memory[i] + forgotten[i] <= asked[i]

\* A request whose body has been read is done with in the end, also when its
\* client leaves, its handler is dropped or its job fails.
Answered ==
  \A t \in Tasks : pc[t] \notin {"idle", "body"} ~> pc[t] \in {"idle", "body"}
=============================================================================
