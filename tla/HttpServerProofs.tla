-------------------------- MODULE HttpServerProofs --------------------------
(***************************************************************************)
(* Proofs about the HTTP service for any number of tasks, requests,        *)
(* models, memories, failures and restarts.                                *)
(***************************************************************************)
EXTENDS HttpServer, FiniteSetTheorems, TLAPS

-----------------------------------------------------------------------------
(* Types *)

\* The type as the provers need it: snapshots and counters are functions.
TypeInv ==
  /\ STypeOK
  /\ snap = [t \in Tasks |-> snap[t]]
  /\ asked \in [Items -> Nat]
  /\ acked \in [Items -> Nat]
  /\ forgotten \in [Items -> Nat]

\* A request is for the route it names, with a body of the kind it takes.
LEMMA RequestType ==
  ASSUME NEW q \in Requests
  PROVE  /\ q.route \in Routes
         /\ q.route \in ImportRoutes /\ q.body # Malformed =>
              q.body \in Docs /\ NameOf[q.body] \in Names
         /\ q.route \in MemoryRoutes /\ q.body # Malformed =>
              q.body \in Contents(q.route)
         /\ q.route = "get" /\ q.body # Malformed => q.body \in Names
<1>1. /\ q.route \in Routes /\ NameOf \in [Docs -> Names]
      /\ q.body = Malformed \/ q.body \in CASE q.route \in ImportRoutes -> Docs
                                            [] q.route \in MemoryRoutes -> Contents(q.route)
                                            [] q.route = "get"          -> Names
                                            [] OTHER                    -> {None}
  BY ServerAssumption
<1>2. q.route \in ImportRoutes => q.route \notin MemoryRoutes /\ q.route # "get"
  BY DEF ImportRoutes, MemoryRoutes
<1>3. q.route \in MemoryRoutes => q.route # "get"
  BY DEF MemoryRoutes
<1>4. CASE q.route \in ImportRoutes
  BY <1>1, <1>2, <1>4
<1>5. CASE q.route \in MemoryRoutes
  BY <1>1, <1>2, <1>3, <1>5
<1>6. CASE q.route = "get"
  BY <1>1, <1>2, <1>3, <1>6
<1> QED BY <1>1, <1>4, <1>5, <1>6


-----------------------------------------------------------------------------
(* Where a task stands, and what is known of its request there *)

Past == {"parse", "run", "job", "orphan"}  \* the envelope has been checked

\* A task past authentication has a request that needs no envelope or has an
\* authorized one; it has read the models exactly if it answers from them.
TaskOK(t) ==
  LET q == req[t]
  IN  /\ pc[t] # "idle" => q \in Requests
      /\ pc[t] = "auth" => NeedsEnvelope(q) /\ q.envelope # None
      /\ pc[t] \in Past /\ NeedsEnvelope(q) =>
           q.envelope # None /\ Authorized(q)
      /\ pc[t] \in {"run", "job", "orphan"} => q.body # Malformed
      /\ pc[t] \in {"job", "orphan"} => q.route \in MemoryRoutes \union {"answer"}
      /\ snap[t] # None => /\ pc[t] \in {"job", "orphan", "reply"}
                           /\ q.route \notin MemoryRoutes
      /\ pc[t] \in {"job", "orphan"} /\ q.route = "answer" => snap[t] # None

BasicInv == TypeInv /\ \A t \in Tasks : TaskOK(t)

LEMMA BasicInit == Init => BasicInv
<1> SUFFICES ASSUME Init PROVE BasicInv
  OBVIOUS
<1>1. TypeInv
  BY ServerAssumption DEF Init, TypeInv, STypeOK, Stages, Codes
<1>2. ASSUME NEW t \in Tasks PROVE TaskOK(t)
  BY DEF Init, TaskOK, Past
<1> QED BY <1>1, <1>2 DEF BasicInv

\* A snapshot is not None.
LEMMA SeenSomething ==
  ASSUME TypeInv, NEW names \in SUBSET Names
  PROVE  [n \in names |-> registry[n]] # None
BY ServerAssumption DEF TypeInv, STypeOK

\* A step of t leaves the other tasks alone, and every task well-typed.
OnlyTask(t) ==
  /\ UNCHANGED config
  /\ pc' \in [Tasks -> Stages]
  /\ req' \in [Tasks -> Requests \union {None}]
  /\ gone' \in [Tasks -> BOOLEAN]
  /\ snap' = [u \in Tasks |-> snap'[u]]
  /\ code' \in [Tasks -> Codes \union {None}]
  /\ \A u \in Tasks \ {t} : /\ pc'[u] = pc[u] /\ req'[u] = req[u]
                            /\ snap'[u] = snap[u] /\ code'[u] = code[u]

LEMMA GotoResult ==
  ASSUME TypeInv, NEW t \in Tasks, NEW stage \in Stages, Goto(t, stage),
         UNCHANGED <<config, req, gone, snap, code>>
  PROVE  OnlyTask(t) /\ pc'[t] = stage
BY DEF TypeInv, STypeOK, Goto, OnlyTask, config

LEMMA AnswerResult ==
  ASSUME TypeInv, NEW t \in Tasks, NEW c \in Codes, Answer(t, c),
         UNCHANGED <<config, snap>>
  PROVE  OnlyTask(t) /\ pc'[t] = "reply" /\ code'[t] = c /\ UNCHANGED req
BY DEF TypeInv, STypeOK, Goto, Answer, OnlyTask, config, Stages

LEMMA ReleaseResult ==
  ASSUME TypeInv, NEW t \in Tasks, Release(t), UNCHANGED config
  PROVE  OnlyTask(t) /\ pc'[t] = "idle" /\ snap'[t] = None
BY DEF TypeInv, STypeOK, Goto, Release, OnlyTask, config, Stages

LEMMA JobDoneResult ==
  ASSUME TypeInv, NEW t \in Tasks, NEW c \in Codes,
         pc[t] \in {"job", "orphan"}, JobDone(t, c), UNCHANGED config
  PROVE  /\ OnlyTask(t)
         /\ \/ /\ pc[t] = "job" /\ pc'[t] = "reply" /\ code'[t] = c
               /\ UNCHANGED <<req, snap>>
            \/ pc[t] = "orphan" /\ pc'[t] = "idle" /\ snap'[t] = None
<1>1. CASE pc[t] = "job"
  BY <1>1, AnswerResult DEF JobDone, Answer
<1>2. CASE pc[t] # "job"
  BY <1>2, ReleaseResult DEF JobDone
<1> QED BY <1>1, <1>2

LEMMA SeeResult ==
  ASSUME TypeInv, NEW t \in Tasks, NEW names \in SUBSET Names, See(t, names)
  PROVE  /\ snap' = [u \in Tasks |-> snap'[u]]
         /\ snap'[t] = [n \in names |-> registry[n]]
         /\ snap'[t] # None
         /\ \A u \in Tasks \ {t} : snap'[u] = snap[u]
BY SeenSomething DEF TypeInv, See

\* The steps of a task that touch neither the registry nor the memory nor a
\* history variable, nor read the models.
Moves(t) ==
  \/ NoEnvelope(t) \/ ReadBody(t) \/ BodyUnreadable(t)
  \/ RejectEnvelope(t) \/ Parse(t) \/ RejectBody(t)
  \/ FinishAnswer(t) \/ AnswerFails(t)
  \/ MemoryDisabled(t) \/ StartMemoryJob(t) \/ MemoryDenied(t)
  \/ Recall(t) \/ RouterRefuses(t) \/ StoreFails(t)
  \/ Leave(t) \/ DropHandler(t)

LEMMA StepOfTask ==
  Next <=> \/ Restart
           \/ \E t \in Tasks :
                \/ \E q \in Requests : Receive(t, q)
                \/ Moves(t) \/ Authenticate(t)
                \/ RegisterModel(t) \/ GetModel(t) \/ ListModels(t)
                \/ StartAnswer(t)
                \/ Remember(t) \/ Forget(t) \/ ForgetStops(t) \/ SendAnswer(t)
BY DEF Next, Serve, Moves

\* What such a step does to its task: it stays, ends, is refused, fails or is
\* answered, or goes on to the next stage.
Ends(t) == pc[t] \in {"orphan", "body"} /\ pc'[t] = "idle" /\ snap'[t] = None

Replies(t) ==
  /\ pc'[t] = "reply"
  /\ \/ pc[t] \in {"body", "auth", "parse"} /\ code'[t] # "200"
     \/ /\ pc[t] \in {"run", "job"}
        /\ pc[t] = "run" => req[t].route \in MemoryRoutes
        /\ code'[t] = "200" => req[t].route # "remember"

Proceeds(t) ==
  LET q == req[t]
  IN  \/ pc[t] = "body" /\ pc'[t] = "parse" /\ ~NeedsEnvelope(q)
      \/ /\ pc[t] = "body" /\ pc'[t] = "auth"
         /\ NeedsEnvelope(q) /\ q.envelope # None
      \/ pc[t] = "parse" /\ pc'[t] = "run" /\ q.body # Malformed
      \/ pc[t] = "run" /\ pc'[t] = "job" /\ q.route \in MemoryRoutes
      \/ pc[t] = "job" /\ pc'[t] = "orphan"

Arrow(t) ==
  \/ Ends(t)
  \/ /\ UNCHANGED <<req, snap>>
     /\ \/ pc'[t] = pc[t] /\ code'[t] = code[t]
        \/ Replies(t)
        \/ Proceeds(t)

MoveResult(t) ==
  /\ OnlyTask(t)
  /\ Arrow(t)
  /\ UNCHANGED <<registry, memory, sent, asked, acked, forgotten>>
  /\ faults' \in 0..MaxFaults

LEMMA MovesFault ==
  ASSUME TypeInv, Fault \/ faults' = faults
  PROVE  faults' \in 0..MaxFaults
BY ServerAssumption DEF TypeInv, STypeOK, Fault

LEMMA MovesKeep ==
  ASSUME TypeInv, NEW t \in Tasks, Moves(t)
  PROVE  MoveResult(t)
<1> USE MovesFault DEF MoveResult, history
<1>0. /\ {"401", "400", "422", "200", "500", "503", "403"} \subseteq Codes
      /\ {"auth", "parse", "run", "job", "orphan"} \subseteq Stages
  BY DEF Codes, Stages
<1>1. CASE NoEnvelope(t)
  BY <1>0, <1>1, AnswerResult DEF NoEnvelope, Arrow, Replies
<1>2. CASE ReadBody(t)
  BY <1>0, <1>2, GotoResult DEF ReadBody, Arrow, Proceeds, task
<1>3. CASE BodyUnreadable(t)
  BY <1>0, <1>3, AnswerResult DEF BodyUnreadable, Arrow, Replies
<1>4. CASE RejectEnvelope(t)
  BY <1>0, <1>4, AnswerResult DEF RejectEnvelope, Arrow, Replies
<1>5. CASE Parse(t)
  BY <1>0, <1>5, GotoResult DEF Parse, Arrow, Proceeds, task
<1>6. CASE RejectBody(t)
  BY <1>0, <1>6, AnswerResult DEF RejectBody, Arrow, Replies
<1> USE DEF Job, MemoryRoutes
<1>7. CASE FinishAnswer(t)
  BY <1>0, <1>7, JobDoneResult DEF FinishAnswer, Arrow, Replies, Ends
<1>8. CASE AnswerFails(t)
  BY <1>0, <1>8, JobDoneResult DEF AnswerFails, Arrow, Replies, Ends
<1>9. CASE MemoryDisabled(t)
  BY <1>0, <1>9, AnswerResult DEF MemoryDisabled, At, Arrow, Replies
<1>10. CASE StartMemoryJob(t)
  BY <1>0, <1>10, GotoResult DEF StartMemoryJob, At, Arrow, Proceeds, task
<1>11. CASE MemoryDenied(t)
  BY <1>0, <1>11, JobDoneResult DEF MemoryDenied, Arrow, Replies, Ends
<1>12. CASE Recall(t)
  BY <1>0, <1>12, JobDoneResult DEF Recall, Arrow, Replies, Ends
<1>13. CASE RouterRefuses(t)
  BY <1>0, <1>13, JobDoneResult DEF RouterRefuses, Arrow, Replies, Ends
<1>14. CASE StoreFails(t)
  BY <1>0, <1>14, JobDoneResult DEF StoreFails, Arrow, Replies, Ends
<1>15. CASE Leave(t)
  <2>1. OnlyTask(t)
    BY <1>15 DEF Leave, OnlyTask, TypeInv, STypeOK, config
  <2> QED BY <1>15, <2>1 DEF Leave, Arrow
<1>16. CASE DropHandler(t)
  <2>1. CASE pc[t] = "body" /\ Release(t)
    BY <1>16, <2>1, ReleaseResult DEF DropHandler, Arrow, Ends
  <2>2. CASE pc[t] = "job" /\ Goto(t, "orphan") /\ UNCHANGED task
    BY <1>0, <1>16, <2>2, GotoResult DEF DropHandler, Arrow, Proceeds, task
  <2> QED BY <1>16, <2>1, <2>2 DEF DropHandler
<1> QED BY <1>1, <1>2, <1>3, <1>4, <1>5, <1>6, <1>7, <1>8, <1>9, <1>10, <1>11,
           <1>12, <1>13, <1>14, <1>15, <1>16 DEF Moves

LEMMA TypeAfter ==
  ASSUME TypeInv, NEW t \in Tasks, OnlyTask(t),
         snap'[t] = None \/ DOMAIN snap'[t] \subseteq Names,
         registry' \in [Names -> Docs \union {None}], memory' \in [Items -> Nat],
         asked' \in [Items -> Nat], acked' \in [Items -> Nat],
         forgotten' \in [Items -> Nat],
         sent' \in 0..MaxRequests, faults' \in 0..MaxFaults
  PROVE  TypeInv'
BY DEF TypeInv, STypeOK, OnlyTask, config

LEMMA TasksAfter ==
  ASSUME BasicInv, NEW t \in Tasks, OnlyTask(t), TaskOK(t)'
  PROVE  \A u \in Tasks : TaskOK(u)'
<1>1. ASSUME NEW u \in Tasks \ {t} PROVE TaskOK(u)'
  <2>1. pc'[u] = pc[u] /\ req'[u] = req[u] /\ snap'[u] = snap[u]
    BY DEF OnlyTask
  <2>2. requireAuth' = requireAuth
    BY DEF OnlyTask, config
  <2>3. TaskOK(u)
    BY DEF BasicInv
  <2> QED BY <2>1, <2>2, <2>3 DEF TaskOK, NeedsEnvelope, Authorized
<1> QED BY <1>1

\* What the other steps do to their task.
LEMMA OtherResults ==
  ASSUME BasicInv, NEW t \in Tasks
  PROVE  /\ \A q \in Requests : Receive(t, q) =>
              /\ OnlyTask(t)
              /\ req'[t] = q /\ pc'[t] = "body" /\ snap'[t] = snap[t]
         /\ Authenticate(t) =>
              OnlyTask(t) /\ pc'[t] = "parse" /\ UNCHANGED <<req, snap>>
         /\ RegisterModel(t) =>
              /\ OnlyTask(t) /\ UNCHANGED req /\ pc'[t] = "reply"
              /\ snap'[t] = [n \in {} |-> registry[n]] /\ snap'[t] # None
         /\ GetModel(t) =>
              /\ OnlyTask(t) /\ UNCHANGED req /\ pc'[t] = "reply"
              /\ req[t].body \in Names
              /\ snap'[t] = [n \in {req[t].body} |-> registry[n]]
              /\ snap'[t] # None
         /\ ListModels(t) =>
              /\ OnlyTask(t) /\ UNCHANGED req /\ pc'[t] = "reply"
              /\ snap'[t] = [n \in Names |-> registry[n]] /\ snap'[t] # None
         /\ StartAnswer(t) =>
              /\ OnlyTask(t) /\ UNCHANGED req /\ pc'[t] = "job"
              /\ snap'[t] = [n \in Names |-> registry[n]] /\ snap'[t] # None
         /\ Remember(t) =>
              /\ OnlyTask(t)
              /\ \/ /\ pc[t] = "job" /\ pc'[t] = "reply" /\ code'[t] = "200"
                    /\ UNCHANGED <<req, snap>>
                 \/ pc[t] = "orphan" /\ pc'[t] = "idle" /\ snap'[t] = None
         /\ SendAnswer(t) =>
              OnlyTask(t) /\ pc'[t] = "idle" /\ snap'[t] = None
<1> USE DEF BasicInv
<1>0. {"200", "404"} \subseteq Codes /\ {"parse", "job"} \subseteq Stages
  BY DEF Codes, Stages
<1>1. ASSUME NEW q \in Requests, Receive(t, q)
      PROVE  /\ OnlyTask(t)
             /\ req'[t] = q /\ pc'[t] = "body" /\ snap'[t] = snap[t]
  BY <1>1 DEF Receive, Goto, OnlyTask, TypeInv, STypeOK, Stages, config
<1>2. ASSUME Authenticate(t)
      PROVE  OnlyTask(t) /\ pc'[t] = "parse" /\ UNCHANGED <<req, snap>>
  BY <1>0, <1>2, GotoResult DEF Authenticate, task
<1>3. ASSUME NEW c \in Codes, NEW names \in SUBSET Names,
             Answer(t, c), See(t, names), UNCHANGED config
      PROVE  /\ OnlyTask(t) /\ UNCHANGED req /\ pc'[t] = "reply"
             /\ snap'[t] = [n \in names |-> registry[n]] /\ snap'[t] # None
  <2>1. /\ snap' = [u \in Tasks |-> snap'[u]]
        /\ snap'[t] = [n \in names |-> registry[n]] /\ snap'[t] # None
        /\ \A u \in Tasks \ {t} : snap'[u] = snap[u]
    BY <1>3, SeeResult
  <2> QED BY <1>3, <2>1
       DEF TypeInv, STypeOK, Goto, Answer, OnlyTask, config, Stages
<1>4. ASSUME RegisterModel(t)
      PROVE  /\ OnlyTask(t) /\ UNCHANGED req /\ pc'[t] = "reply"
             /\ snap'[t] = [n \in {} |-> registry[n]] /\ snap'[t] # None
  BY <1>0, <1>3, <1>4 DEF RegisterModel
<1>5. ASSUME GetModel(t)
      PROVE  /\ OnlyTask(t) /\ UNCHANGED req /\ pc'[t] = "reply"
             /\ req[t].body \in Names
             /\ snap'[t] = [n \in {req[t].body} |-> registry[n]]
             /\ snap'[t] # None
  <2>1. req[t] \in Requests /\ req[t].body # Malformed /\ req[t].route = "get"
    BY <1>5 DEF GetModel, At, TaskOK
  <2>2. req[t].body \in Names
    BY <2>1, RequestType
  <2>3. PICK c \in Codes : Answer(t, c)
    BY <1>0, <1>5 DEF GetModel
  <2> QED BY <1>3, <1>5, <2>2, <2>3 DEF GetModel
<1>6. ASSUME ListModels(t)
      PROVE  /\ OnlyTask(t) /\ UNCHANGED req /\ pc'[t] = "reply"
             /\ snap'[t] = [n \in Names |-> registry[n]] /\ snap'[t] # None
  BY <1>0, <1>3, <1>6 DEF ListModels
<1>7. ASSUME StartAnswer(t)
      PROVE  /\ OnlyTask(t) /\ UNCHANGED req /\ pc'[t] = "job"
             /\ snap'[t] = [n \in Names |-> registry[n]] /\ snap'[t] # None
  <2>1. /\ snap' = [u \in Tasks |-> snap'[u]]
        /\ snap'[t] = [n \in Names |-> registry[n]] /\ snap'[t] # None
        /\ \A u \in Tasks \ {t} : snap'[u] = snap[u]
    BY <1>7, SeeResult DEF StartAnswer
  <2> QED BY <1>0, <1>7, <2>1
       DEF StartAnswer, TypeInv, STypeOK, Goto, OnlyTask, config
<1>8. ASSUME Remember(t)
      PROVE  /\ OnlyTask(t)
             /\ \/ /\ pc[t] = "job" /\ pc'[t] = "reply" /\ code'[t] = "200"
                   /\ UNCHANGED <<req, snap>>
                \/ pc[t] = "orphan" /\ pc'[t] = "idle" /\ snap'[t] = None
  BY <1>0, <1>8, JobDoneResult DEF Remember, Job
<1>9. ASSUME SendAnswer(t)
      PROVE  OnlyTask(t) /\ pc'[t] = "idle" /\ snap'[t] = None
  BY <1>9, ReleaseResult DEF SendAnswer
<1> QED BY <1>1, <1>2, <1>4, <1>5, <1>6, <1>7, <1>8, <1>9

\* Counting something that is not counted changes nothing.
LEMMA CountType ==
  ASSUME NEW f \in [Items -> Nat], NEW x
  PROVE  [f EXCEPT ![x] = @ + 1] \in [Items -> Nat]
<1>1. CASE x \in Items
  BY <1>1
<1>2. CASE x \notin Items
  <2>1. [f EXCEPT ![x] = @ + 1] = f
    BY <1>2
  <2> QED BY <1>2, <2>1
<1> QED BY <1>1, <1>2

\* A memory job is about the contents of memories.
LEMMA JobBody ==
  ASSUME BasicInv, NEW t \in Tasks, Job(t, MemoryRoutes)
  PROVE  req[t] \in Requests /\ req[t].body \in Contents(req[t].route)
<1>1. req[t] \in Requests /\ req[t].body # Malformed
  BY DEF BasicInv, TaskOK, Job
<1> QED BY <1>1, RequestType DEF Job

\* What is forgotten leaves the memory and nothing else does.
LEMMA DropResult ==
  ASSUME BasicInv, NEW some \in SUBSET Items,
         \A i \in some : memory[i] > 0, Drop(some)
  PROVE  /\ memory' \in [Items -> Nat] /\ forgotten' \in [Items -> Nat]
         /\ \A i \in Items : /\ memory'[i] <= memory[i]
                             /\ memory'[i] + forgotten'[i]
                                  = memory[i] + forgotten[i]
<1>1. memory \in [Items -> Nat] /\ forgotten \in [Items -> Nat]
  BY DEF BasicInv, TypeInv, STypeOK
<1>2. ASSUME NEW i \in Items
      PROVE  /\ memory'[i] \in Nat /\ forgotten'[i] \in Nat
             /\ memory'[i] <= memory[i]
             /\ memory'[i] + forgotten'[i] = memory[i] + forgotten[i]
  <2>1. memory[i] \in Nat /\ forgotten[i] \in Nat
    BY <1>1
  <2>2. CASE i \in some
    <3>1. /\ memory'[i] = memory[i] - 1 /\ forgotten'[i] = forgotten[i] + 1
          /\ memory[i] > 0
      BY <2>2 DEF Drop
    <3> QED BY <2>1, <3>1
  <2>3. CASE i \notin some
    <3>1. memory'[i] = memory[i] /\ forgotten'[i] = forgotten[i]
      BY <2>3 DEF Drop
    <3> QED BY <2>1, <3>1
  <2> QED BY <2>2, <2>3
<1>3. /\ memory' = [i \in Items |-> memory'[i]]
      /\ forgotten' = [i \in Items |-> forgotten'[i]]
  BY DEF Drop
<1> QED BY <1>2, <1>3

\* A call to forget, whether it gets through its list or stops before.
Forgets(t) == Forget(t) \/ ForgetStops(t)

LEMMA ForgetResult ==
  ASSUME BasicInv, NEW t \in Tasks, Forgets(t)
  PROVE  /\ OnlyTask(t) /\ pc[t] \in {"job", "orphan"} /\ req[t].route = "forget"
         /\ \/ pc'[t] = "reply" /\ pc[t] = "job" /\ UNCHANGED <<req, snap>>
            \/ pc'[t] = "idle" /\ snap'[t] = None
         /\ UNCHANGED <<requireAuth, registry, sent, asked, acked, faults>>
         /\ memory' \in [Items -> Nat] /\ forgotten' \in [Items -> Nat]
         /\ \A i \in Items : /\ memory'[i] <= memory[i]
                             /\ memory'[i] + forgotten'[i]
                                  = memory[i] + forgotten[i]
<1>1. /\ pc[t] \in {"job", "orphan"} /\ req[t].route = "forget"
      /\ UNCHANGED <<config, registry, sent, asked, acked, faults>>
  BY DEF Forgets, Forget, ForgetStops, Job
<1>2. PICK c \in Codes : JobDone(t, c)
  BY DEF Forgets, Forget, ForgetStops, Codes
<1>3. /\ OnlyTask(t)
      /\ \/ pc'[t] = "reply" /\ pc[t] = "job" /\ UNCHANGED <<req, snap>>
         \/ pc'[t] = "idle" /\ snap'[t] = None
  BY <1>1, <1>2, JobDoneResult DEF BasicInv
<1>4. req[t].body \in SUBSET Items
  BY <1>1, JobBody DEF Job, MemoryRoutes, Contents
<1>5. PICK some \in SUBSET Items : Drop(some) /\ \A i \in some : memory[i] > 0
  <2>1. CASE Forget(t)
    BY <1>4, <2>1 DEF Forget
  <2>2. CASE ForgetStops(t)
    <3>1. PICK some \in SUBSET {i \in req[t].body : memory[i] > 0} : Drop(some)
      BY <2>2 DEF ForgetStops
    <3> QED BY <1>4, <3>1
  <2> QED BY <2>1, <2>2 DEF Forgets
<1> QED BY <1>1, <1>3, <1>5, DropResult DEF config

LEMMA TypeStep == BasicInv /\ [Next]_vars => TypeInv'
<1> SUFFICES ASSUME BasicInv, [Next]_vars PROVE TypeInv'
  OBVIOUS
<1>0. /\ TypeInv /\ \A u \in Tasks : snap[u] = None \/ DOMAIN snap[u] \subseteq Names
      /\ registry \in [Names -> Docs \union {None}] /\ memory \in [Items -> Nat]
      /\ asked \in [Items -> Nat] /\ acked \in [Items -> Nat]
      /\ forgotten \in [Items -> Nat]
      /\ sent \in 0..MaxRequests /\ faults \in 0..MaxFaults
      /\ MaxRequests \in Nat
  BY ServerAssumption DEF BasicInv, TypeInv, STypeOK
<1>1. CASE Restart
  BY <1>0, <1>1, MovesFault
     DEF Restart, TypeInv, STypeOK, Stages, config, history
<1>2. ASSUME NEW t \in Tasks, NEW q \in Requests, Receive(t, q) PROVE TypeInv'
  <2>1. sent' \in 0..MaxRequests
    BY <1>0, <1>2 DEF Receive
  <2> QED BY <1>0, <1>2, <2>1, OtherResults, TypeAfter DEF Receive
<1>3. ASSUME NEW t \in Tasks, Moves(t) PROVE TypeInv'
  <2>1. MoveResult(t)
    BY <1>0, <1>3, MovesKeep
  <2> QED BY <1>0, <2>1, TypeAfter DEF MoveResult, Arrow, Ends
<1>4. ASSUME NEW t \in Tasks, Authenticate(t) PROVE TypeInv'
  <2>1. asked' \in [Items -> Nat]
    BY <1>0, <1>4 DEF Authenticate
  <2> QED BY <1>0, <1>4, <2>1, OtherResults, TypeAfter DEF Authenticate
<1>5. ASSUME NEW t \in Tasks, RegisterModel(t) PROVE TypeInv'
  <2>1. req[t] \in Requests /\ req[t].body # Malformed
    BY <1>5 DEF RegisterModel, At, BasicInv, TaskOK
  <2>2. req[t].body \in Docs
    BY <1>5, <2>1, RequestType DEF RegisterModel, At
  <2>3. registry' \in [Names -> Docs \union {None}]
    BY <1>0, <1>5, <2>2 DEF RegisterModel
  <2>4. DOMAIN snap'[t] \subseteq Names
    BY <1>5, OtherResults
  <2> QED BY <1>0, <1>5, <2>3, <2>4, OtherResults, TypeAfter
       DEF RegisterModel, history
<1>6. ASSUME NEW t \in Tasks, GetModel(t) PROVE TypeInv'
  <2>1. DOMAIN snap'[t] \subseteq Names
    BY <1>6, OtherResults
  <2> QED BY <1>0, <1>6, <2>1, OtherResults, TypeAfter DEF GetModel, history
<1>7. ASSUME NEW t \in Tasks, ListModels(t) PROVE TypeInv'
  <2>1. DOMAIN snap'[t] \subseteq Names
    BY <1>7, OtherResults
  <2> QED BY <1>0, <1>7, <2>1, OtherResults, TypeAfter DEF ListModels, history
<1>8. ASSUME NEW t \in Tasks, StartAnswer(t) PROVE TypeInv'
  <2>1. DOMAIN snap'[t] \subseteq Names
    BY <1>8, OtherResults
  <2> QED BY <1>0, <1>8, <2>1, OtherResults, TypeAfter DEF StartAnswer, history
<1>9. ASSUME NEW t \in Tasks, Remember(t) PROVE TypeInv'
  <2>1. memory' \in [Items -> Nat]
    BY <1>0, <1>9, CountType DEF Remember
  <2> QED BY <1>0, <1>9, <2>1, OtherResults, TypeAfter DEF Remember, history
<1>10. ASSUME NEW t \in Tasks, Forgets(t) PROVE TypeInv'
  BY <1>0, <1>10, ForgetResult, TypeAfter
<1>11. ASSUME NEW t \in Tasks, SendAnswer(t) PROVE TypeInv'
  <2>1. acked' \in [Items -> Nat]
    BY <1>0, <1>11, CountType DEF SendAnswer
  <2> QED BY <1>0, <1>11, <2>1, OtherResults, TypeAfter DEF SendAnswer
<1>12. CASE UNCHANGED vars
  BY <1>0, <1>12 DEF vars, TypeInv, STypeOK, config, task, history
<1> QED BY <1>1, <1>2, <1>3, <1>4, <1>5, <1>6, <1>7, <1>8, <1>9, <1>10, <1>11,
           <1>12, StepOfTask DEF Forgets

LEMMA TaskStep == BasicInv /\ [Next]_vars => \A t \in Tasks : TaskOK(t)'
<1> SUFFICES ASSUME BasicInv, [Next]_vars PROVE \A t \in Tasks : TaskOK(t)'
  OBVIOUS
<1>0. \A t \in Tasks : OnlyTask(t) => requireAuth' = requireAuth
  BY DEF OnlyTask, config
<1>1. CASE Restart
  BY <1>1 DEF Restart, TaskOK, Past
<1>2. ASSUME NEW t \in Tasks, Moves(t) PROVE TaskOK(t)' /\ OnlyTask(t)
  <2>1. MoveResult(t)
    BY <1>2, MovesKeep DEF BasicInv
  <2>2. TaskOK(t) /\ requireAuth' = requireAuth /\ OnlyTask(t)
    BY <1>0, <2>1 DEF BasicInv, MoveResult
  <2>3. CASE Ends(t)
    BY <2>2, <2>3 DEF Ends, TaskOK, Past
  <2>4. CASE UNCHANGED <<req, snap>> /\ pc'[t] = pc[t]
    BY <2>2, <2>4 DEF TaskOK, NeedsEnvelope, Authorized
  <2>5. CASE UNCHANGED <<req, snap>> /\ Replies(t)
    BY <2>2, <2>5 DEF TaskOK, Replies, Past
  <2>6. CASE UNCHANGED <<req, snap>> /\ Proceeds(t)
    BY <2>2, <2>6
       DEF TaskOK, Proceeds, Past, NeedsEnvelope, Authorized, MemoryRoutes
  <2> QED BY <2>1, <2>3, <2>4, <2>5, <2>6 DEF MoveResult, Arrow
<1>3. ASSUME NEW t \in Tasks,
             \/ \E q \in Requests : Receive(t, q)
             \/ Authenticate(t)
             \/ RegisterModel(t) \/ GetModel(t) \/ ListModels(t)
             \/ StartAnswer(t)
             \/ Remember(t) \/ Forgets(t) \/ SendAnswer(t)
      PROVE  TaskOK(t)' /\ OnlyTask(t)
  <2>0. OnlyTask(t) /\ requireAuth' = requireAuth /\ TaskOK(t)
    BY <1>0, <1>3, OtherResults, ForgetResult DEF BasicInv
  <2>1. ASSUME NEW q \in Requests, Receive(t, q) PROVE TaskOK(t)'
    <3>1. req'[t] = q /\ pc'[t] = "body" /\ snap'[t] = snap[t] /\ snap[t] = None
      BY <2>0, <2>1, OtherResults DEF Receive, TaskOK
    <3> QED BY <3>1 DEF TaskOK, Past
  <2>2. CASE Authenticate(t)
    <3>1. /\ UNCHANGED <<req, snap>> /\ pc[t] = "auth" /\ pc'[t] = "parse"
          /\ Authorized(req[t])
      BY <2>2, OtherResults DEF Authenticate
    <3> QED BY <2>0, <3>1 DEF TaskOK, Past, NeedsEnvelope, Authorized
  <2>3. CASE RegisterModel(t) \/ GetModel(t) \/ ListModels(t)
    <3>1. /\ pc[t] = "run" /\ pc'[t] = "reply" /\ UNCHANGED req
          /\ req[t].route \in ImportRoutes \union ReadRoutes
      BY <2>3, OtherResults
         DEF RegisterModel, GetModel, ListModels, At, ReadRoutes
    <3>2. req[t].route \notin MemoryRoutes
      BY <3>1 DEF ImportRoutes, ReadRoutes, MemoryRoutes
    <3> QED BY <2>0, <3>1, <3>2 DEF TaskOK, Past
  <2>4. CASE StartAnswer(t)
    <3>1. /\ pc[t] = "run" /\ pc'[t] = "job" /\ UNCHANGED req
          /\ req[t].route = "answer" /\ snap'[t] # None
      BY <2>4, OtherResults DEF StartAnswer, At
    <3> QED BY <2>0, <3>1
         DEF TaskOK, Past, MemoryRoutes, NeedsEnvelope, Authorized
  <2>5. CASE Remember(t) \/ Forgets(t) \/ SendAnswer(t)
    <3>1. \/ pc[t] = "job" /\ pc'[t] = "reply" /\ UNCHANGED <<req, snap>>
          \/ pc'[t] = "idle" /\ snap'[t] = None
      BY <2>5, OtherResults, ForgetResult
    <3> QED BY <2>0, <3>1 DEF TaskOK, Past
  <2> QED BY <1>3, <2>0, <2>1, <2>2, <2>3, <2>4, <2>5
<1>4. CASE UNCHANGED vars
  BY <1>4 DEF vars, config, task, BasicInv, TaskOK, NeedsEnvelope, Authorized
<1> QED BY <1>1, <1>2, <1>3, <1>4, StepOfTask, TasksAfter DEF Forgets

LEMMA BasicInvariant == Spec => []BasicInv
<1>1. BasicInv /\ [Next]_vars => BasicInv'
  BY TypeStep, TaskStep DEF BasicInv
<1> QED BY <1>1, BasicInit, PTL DEF Spec

\* Whatever requests, failures and restarts: the registry holds documents under
\* names, the counts of memories are natural numbers and every task stands at a
\* stage of its handler.
THEOREM TypeCorrect == Spec => []STypeOK
BY BasicInvariant, PTL DEF BasicInv, TypeInv

-----------------------------------------------------------------------------
(* Effects are signed *)

LEMMA EffectsStep ==
  BasicInv /\ EffectsAreSigned /\ [Next]_vars => EffectsAreSigned'
<1> SUFFICES ASSUME BasicInv, EffectsAreSigned, [Next]_vars
             PROVE  EffectsAreSigned'
  OBVIOUS
<1>0. /\ memory \in [Items -> Nat] /\ registry \in [Names -> Docs \union {None}]
      /\ \A t \in Tasks : OnlyTask(t) => requireAuth' = requireAuth
  BY DEF BasicInv, TypeInv, STypeOK, OnlyTask, config
<1>1. ASSUME memory' = memory, registry' = registry, requireAuth' = requireAuth
      PROVE  EffectsAreSigned'
  BY <1>1 DEF EffectsAreSigned
<1>2. CASE Restart
  BY <1>2 DEF Restart, config, EffectsAreSigned
<1>3. ASSUME NEW t \in Tasks, Moves(t) PROVE EffectsAreSigned'
  <2>1. MoveResult(t)
    BY <1>3, MovesKeep DEF BasicInv
  <2> QED BY <1>0, <1>1, <2>1 DEF MoveResult
<1>4. ASSUME NEW t \in Tasks,
             \/ \E q \in Requests : Receive(t, q)
             \/ Authenticate(t) \/ GetModel(t) \/ ListModels(t)
             \/ StartAnswer(t) \/ SendAnswer(t)
      PROVE  EffectsAreSigned'
  BY <1>1, <1>4 DEF Receive, Authenticate, GetModel, ListModels, StartAnswer,
                    SendAnswer, config
\* A task that is past authentication acts for whoever signed its request.
<1>5. ASSUME NEW t \in Tasks, pc[t] \in Past, NeedsEnvelope(req[t]),
             req[t].route \in MemoryRoutes => Permitted(req[t])
      PROVE  SignedFor(req[t].route, req[t].body)
  <2>1. /\ req[t] \in Requests /\ req[t].envelope # None /\ Authorized(req[t])
    BY <1>5 DEF BasicInv, TaskOK, Past
  <2> QED BY <1>5, <2>1 DEF SignedFor, Authorized
<1>6. ASSUME NEW t \in Tasks, RegisterModel(t) PROVE EffectsAreSigned'
  <2>1. /\ pc[t] \in Past /\ req[t].route \in ImportRoutes
        /\ registry' = [registry EXCEPT ![NameOf[req[t].body]] = req[t].body]
        /\ UNCHANGED <<memory, requireAuth>>
    BY <1>6 DEF RegisterModel, At, Past, config
  <2>2. req[t].route \notin MemoryRoutes
    BY <2>1 DEF ImportRoutes, MemoryRoutes
  <2>3. requireAuth => SignedFor(req[t].route, req[t].body)
    BY <1>5, <2>1, <2>2 DEF NeedsEnvelope, GovernedRoutes
  <2> QED BY <1>0, <2>1, <2>3 DEF EffectsAreSigned
<1>7. ASSUME NEW t \in Tasks, Remember(t) PROVE EffectsAreSigned'
  <2>1. /\ pc[t] \in Past /\ req[t].route = "remember" /\ Permitted(req[t])
        /\ memory' = [memory EXCEPT ![req[t].body] = @ + 1]
        /\ UNCHANGED <<registry, requireAuth>>
    BY <1>7 DEF Remember, Job, Past, config
  <2>2. SignedFor("remember", req[t].body)
    BY <1>5, <2>1 DEF NeedsEnvelope, MemoryRoutes
  <2> QED BY <1>0, <2>1, <2>2 DEF EffectsAreSigned
<1>8. ASSUME NEW t \in Tasks, Forgets(t) PROVE EffectsAreSigned'
  <2>1. \A i \in Items : memory'[i] > 0 => memory[i] > 0
    BY <1>0, <1>8, ForgetResult
  <2> QED BY <1>8, <2>1, ForgetResult DEF EffectsAreSigned
<1>9. CASE UNCHANGED vars
  BY <1>1, <1>9 DEF vars, config
<1> QED BY <1>2, <1>3, <1>4, <1>6, <1>7, <1>8, <1>9, StepOfTask DEF Forgets

\* Whatever envelopes clients send, for whatever body and route, and however
\* requests, left clients and restarts interleave: nothing is in memory, and
\* on a server that requires envelopes nothing is registered, that was not
\* signed for just that by somebody who may.
THEOREM EffectsSigned == Spec => []EffectsAreSigned
<1>1. Init => EffectsAreSigned
  BY DEF Init, EffectsAreSigned
<1> QED BY <1>1, BasicInvariant, EffectsStep, PTL DEF Spec

-----------------------------------------------------------------------------
(* Memories are kept once *)

\* The tasks that may still remember i, and those about to tell that they did.
Pending(i) == {t \in Tasks : /\ pc[t] \in Past
                             /\ req[t].route = "remember" /\ req[t].body = i}
Told(i) == {t \in Tasks : /\ pc[t] = "reply" /\ code[t] = "200"
                          /\ req[t].route = "remember" /\ req[t].body = i}

\* Each call that was authenticated is pending, had its one effect or never
\* will; each answer that was or will be sent has its effect behind it.
Counted(i) ==
  /\ IsFiniteSet(Pending(i)) /\ IsFiniteSet(Told(i))
  /\ memory[i] + forgotten[i] + Cardinality(Pending(i)) <= asked[i]
  /\ acked[i] + Cardinality(Told(i)) <= memory[i] + forgotten[i]

CountInv == \A i \in Items : Counted(i)

LEMMA CountInit == Init => CountInv
<1> SUFFICES ASSUME Init, NEW i \in Items PROVE Counted(i)
  BY DEF CountInv
<1>1. Pending(i) = {} /\ Told(i) = {}
  BY DEF Init, Pending, Told, Past
<1> QED BY <1>1, FS_EmptySet DEF Init, Counted

LEMMA Fewer ==
  ASSUME NEW S, IsFiniteSet(S), NEW T \in SUBSET S
  PROVE  /\ IsFiniteSet(T) /\ Cardinality(T) <= Cardinality(S)
         /\ Cardinality(T) \in Nat /\ Cardinality(S) \in Nat
BY FS_Subset, FS_CardinalityType

LEMMA OneMore ==
  ASSUME NEW S, IsFiniteSet(S), NEW x, x \notin S
  PROVE  /\ IsFiniteSet(S \union {x}) /\ Cardinality(S) \in Nat
         /\ Cardinality(S \union {x}) = Cardinality(S) + 1
BY FS_AddElement, FS_CardinalityType

LEMMA OneLess ==
  ASSUME NEW S, IsFiniteSet(S), NEW x \in S
  PROVE  /\ IsFiniteSet(S \ {x}) /\ Cardinality(S) \in Nat
         /\ Cardinality(S \ {x}) = Cardinality(S) - 1
BY FS_RemoveElement, FS_CardinalityType

\* Tasks that stop before they had their effect leave the counts right.
LEMMA QuietCount ==
  ASSUME BasicInv, NEW i \in Items, Counted(i),
         Pending(i)' \subseteq Pending(i), Told(i)' \subseteq Told(i),
         UNCHANGED <<memory, forgotten, asked, acked>>
  PROVE  Counted(i)'
<1>1. /\ IsFiniteSet(Pending(i)') /\ IsFiniteSet(Told(i)')
      /\ Cardinality(Pending(i)') <= Cardinality(Pending(i))
      /\ Cardinality(Told(i)') <= Cardinality(Told(i))
      /\ Cardinality(Pending(i)') \in Nat /\ Cardinality(Pending(i)) \in Nat
      /\ Cardinality(Told(i)') \in Nat /\ Cardinality(Told(i)) \in Nat
  BY Fewer DEF Counted
<1>2. /\ memory[i] \in Nat /\ forgotten[i] \in Nat /\ asked[i] \in Nat
      /\ acked[i] \in Nat
  BY DEF BasicInv, TypeInv, STypeOK
<1> QED BY <1>1, <1>2 DEF Counted

\* A task is counted by where it stands and what it was asked.
LEMMA OneTaskCounts ==
  ASSUME NEW t \in Tasks, OnlyTask(t), NEW i
  PROVE  /\ \A u \in Tasks \ {t} : /\ u \in Pending(i)' <=> u \in Pending(i)
                                   /\ u \in Told(i)' <=> u \in Told(i)
         /\ (t \notin Pending(i)' \/ t \in Pending(i)) =>
              Pending(i)' \subseteq Pending(i)
         /\ (t \notin Told(i)' \/ t \in Told(i)) => Told(i)' \subseteq Told(i)
BY DEF OnlyTask, Pending, Told

LEMMA CountStep == BasicInv /\ CountInv /\ [Next]_vars => CountInv'
<1> SUFFICES ASSUME BasicInv, CountInv, [Next]_vars, NEW i \in Items
             PROVE  Counted(i)'
  BY DEF CountInv
<1>0. /\ Counted(i)
      /\ memory \in [Items -> Nat] /\ forgotten \in [Items -> Nat]
      /\ asked \in [Items -> Nat] /\ acked \in [Items -> Nat]
  BY DEF CountInv, BasicInv, TypeInv, STypeOK
<1>1. CASE Restart
  <2>1. Pending(i)' = {} /\ Told(i)' = {}
    BY <1>1 DEF Restart, Pending, Told, Past
  <2> QED BY <1>0, <1>1, <2>1, QuietCount DEF Restart, history
<1>2. ASSUME NEW t \in Tasks, Moves(t) PROVE Counted(i)'
  <2>1. MoveResult(t)
    BY <1>2, MovesKeep DEF BasicInv
  <2>2. t \notin Pending(i)' \/ t \in Pending(i)
    <3>1. pc'[t] \in Past => /\ UNCHANGED req
                             /\ pc[t] \in Past \/ ~NeedsEnvelope(req[t])
      BY <2>1
         DEF MoveResult, Arrow, Ends, Replies, Proceeds, Past
    <3>2. ~NeedsEnvelope(req[t]) => req[t].route # "remember"
      BY DEF NeedsEnvelope, MemoryRoutes
    <3> QED BY <3>1, <3>2 DEF Pending
  <2>3. t \notin Told(i)' \/ t \in Told(i)
    BY <2>1 DEF MoveResult, Arrow, Ends, Replies, Proceeds, Told
  <2> QED BY <1>0, <2>1, <2>2, <2>3, OneTaskCounts, QuietCount DEF MoveResult
<1>3. ASSUME NEW t \in Tasks, NEW q \in Requests, Receive(t, q)
      PROVE  Counted(i)'
  <2>1. OnlyTask(t) /\ pc'[t] = "body"
    BY <1>3, OtherResults
  <2>2. t \notin Pending(i)' /\ t \notin Told(i)'
    BY <2>1 DEF Pending, Told, Past
  <2> QED BY <1>0, <1>3, <2>1, <2>2, OneTaskCounts, QuietCount DEF Receive
<1>4. ASSUME NEW t \in Tasks, Authenticate(t) PROVE Counted(i)'
  <2>1. /\ OnlyTask(t) /\ pc[t] = "auth" /\ pc'[t] = "parse" /\ UNCHANGED req
        /\ UNCHANGED <<memory, forgotten, acked>>
    BY <1>4, OtherResults DEF Authenticate
  <2>2. t \notin Pending(i) /\ t \notin Told(i)'
    BY <2>1 DEF Pending, Told, Past
  <2>3. CASE req[t].route = "remember" /\ req[t].body = i
    <3>1. asked'[i] = asked[i] + 1
      BY <1>0, <1>4, <2>3 DEF Authenticate
    <3>2. Pending(i)' = Pending(i) \union {t}
      BY <2>1, <2>3, OneTaskCounts DEF Pending, Past
    <3>3. Told(i)' \subseteq Told(i)
      BY <2>1, <2>2, OneTaskCounts
    <3>4. /\ IsFiniteSet(Pending(i)') /\ Cardinality(Pending(i)) \in Nat
          /\ Cardinality(Pending(i)') = Cardinality(Pending(i)) + 1
      BY <1>0, <2>2, <3>2, OneMore DEF Counted
    <3>5. /\ IsFiniteSet(Told(i)')
          /\ Cardinality(Told(i)') <= Cardinality(Told(i))
          /\ Cardinality(Told(i)') \in Nat /\ Cardinality(Told(i)) \in Nat
      BY <1>0, <3>3, Fewer DEF Counted
    <3> QED BY <1>0, <2>1, <3>1, <3>4, <3>5 DEF Counted
  <2>4. CASE ~(req[t].route = "remember" /\ req[t].body = i)
    <3>1. asked'[i] = asked[i]
      BY <1>0, <1>4, <2>4 DEF Authenticate
    <3>2. t \notin Pending(i)'
      BY <2>1, <2>4 DEF Pending
    <3>3. Pending(i)' = Pending(i) /\ Told(i)' \subseteq Told(i)
      BY <2>1, <2>2, <3>2, OneTaskCounts DEF Pending
    <3>4. /\ IsFiniteSet(Told(i)')
          /\ Cardinality(Told(i)') <= Cardinality(Told(i))
          /\ Cardinality(Told(i)') \in Nat /\ Cardinality(Told(i)) \in Nat
      BY <1>0, <3>3, Fewer DEF Counted
    <3> QED BY <1>0, <2>1, <3>1, <3>3, <3>4 DEF Counted
  <2> QED BY <2>3, <2>4
<1>5. ASSUME NEW t \in Tasks,
             RegisterModel(t) \/ GetModel(t) \/ ListModels(t) \/ StartAnswer(t)
      PROVE  Counted(i)'
  <2>1. /\ OnlyTask(t) /\ UNCHANGED req
        /\ UNCHANGED <<memory, forgotten, asked, acked>>
    BY <1>5, OtherResults
       DEF RegisterModel, GetModel, ListModels, StartAnswer, history
  <2>2. req[t].route # "remember"
    BY <1>5 DEF RegisterModel, GetModel, ListModels, StartAnswer, At,
                ImportRoutes
  <2>3. t \notin Pending(i)' /\ t \notin Told(i)'
    BY <2>1, <2>2 DEF Pending, Told
  <2> QED BY <1>0, <2>1, <2>3, OneTaskCounts, QuietCount
<1>6. ASSUME NEW t \in Tasks, Remember(t) PROVE Counted(i)'
  <2>1. /\ OnlyTask(t) /\ pc[t] \in Past /\ req[t].route = "remember"
        /\ pc'[t] \notin Past
        /\ pc'[t] = "reply" => UNCHANGED req
        /\ memory' = [memory EXCEPT ![req[t].body] = @ + 1]
        /\ UNCHANGED <<forgotten, asked, acked>>
    BY <1>6, OtherResults DEF Remember, Job, Past, history
  <2>2. t \notin Pending(i)' /\ t \notin Told(i)
    BY <2>1 DEF Pending, Told, Past
  <2>3. CASE req[t].body = i
    <3>1. memory'[i] = memory[i] + 1
      BY <1>0, <2>1, <2>3
    <3>2. t \in Pending(i) /\ Pending(i)' = Pending(i) \ {t}
      BY <2>1, <2>2, <2>3, OneTaskCounts DEF Pending
    <3>3. /\ IsFiniteSet(Pending(i)') /\ Cardinality(Pending(i)) \in Nat
          /\ Cardinality(Pending(i)') = Cardinality(Pending(i)) - 1
      BY <1>0, <3>2, OneLess DEF Counted
    <3>4. /\ IsFiniteSet(Told(i) \union {t}) /\ Cardinality(Told(i)) \in Nat
          /\ Cardinality(Told(i) \union {t}) = Cardinality(Told(i)) + 1
      BY <1>0, <2>2, OneMore DEF Counted
    <3>5. Told(i)' \subseteq Told(i) \union {t}
      BY <2>1, OneTaskCounts DEF Told
    <3>6. /\ IsFiniteSet(Told(i)') /\ Cardinality(Told(i)') \in Nat
          /\ Cardinality(Told(i)') <= Cardinality(Told(i)) + 1
      BY <3>4, <3>5, Fewer
    <3> QED BY <1>0, <2>1, <3>1, <3>3, <3>4, <3>6 DEF Counted
  <2>4. CASE req[t].body # i
    <3>1. memory'[i] = memory[i]
      BY <1>0, <2>1, <2>4
    <3>2. t \notin Pending(i) /\ t \notin Told(i)'
      BY <2>1, <2>4 DEF Pending, Told
    <3>3. Pending(i)' = Pending(i) /\ Told(i)' = Told(i)
      BY <2>1, <2>2, <3>2, OneTaskCounts DEF Pending, Told
    <3> QED BY <1>0, <2>1, <3>1, <3>3 DEF Counted
  <2> QED BY <2>3, <2>4
<1>7. ASSUME NEW t \in Tasks, Forgets(t) PROVE Counted(i)'
  <2>1. /\ OnlyTask(t) /\ pc[t] \in {"job", "orphan"}
        /\ req[t].route = "forget"
        /\ pc'[t] \notin Past
        /\ pc'[t] = "reply" => UNCHANGED req
        /\ memory'[i] + forgotten'[i] = memory[i] + forgotten[i]
        /\ memory' \in [Items -> Nat] /\ forgotten' \in [Items -> Nat]
        /\ UNCHANGED <<asked, acked>>
    BY <1>7, ForgetResult DEF Past
  <2>2. /\ t \notin Pending(i) /\ t \notin Told(i)
        /\ t \notin Pending(i)' /\ t \notin Told(i)'
    BY <2>1 DEF Pending, Told
  <2>3. Pending(i)' = Pending(i) /\ Told(i)' = Told(i)
    BY <2>1, <2>2, OneTaskCounts DEF Pending, Told
  <2> QED BY <1>0, <2>1, <2>3 DEF Counted
<1>8. ASSUME NEW t \in Tasks, SendAnswer(t) PROVE Counted(i)'
  <2>1. /\ OnlyTask(t) /\ pc[t] = "reply" /\ pc'[t] = "idle"
        /\ UNCHANGED <<memory, forgotten, asked>>
    BY <1>8, OtherResults DEF SendAnswer
  <2>2. t \notin Pending(i) /\ t \notin Pending(i)' /\ t \notin Told(i)'
    BY <2>1 DEF Pending, Told, Past
  <2>3. Pending(i)' = Pending(i) /\ Told(i)' = Told(i) \ {t}
    <3>1. Pending(i)' = Pending(i)
      BY <2>1, <2>2, OneTaskCounts DEF Pending
    <3>2. \A u : u \in Told(i)' <=> u \in Told(i) /\ u # t
      <4>1. Told(i) \subseteq Tasks /\ Told(i)' \subseteq Tasks
        BY DEF Told
      <4> QED BY <2>1, <2>2, <4>1, OneTaskCounts
    <3> QED BY <3>1, <3>2
  <2>4. \/ acked'[i] = acked[i]
        \/ t \in Told(i) /\ acked'[i] = acked[i] + 1
    <3>1. \/ acked' = acked
          \/ /\ req[t].route = "remember" /\ code[t] = "200"
             /\ acked' = [acked EXCEPT ![req[t].body] = @ + 1]
      BY <1>8, Zenon DEF SendAnswer
    <3>2. CASE /\ req[t].route = "remember" /\ code[t] = "200"
               /\ acked' = [acked EXCEPT ![req[t].body] = @ + 1]
      <4>1. CASE req[t].body = i
        BY <1>0, <2>1, <3>2, <4>1 DEF Told
      <4>2. CASE req[t].body # i
        BY <1>0, <3>2, <4>2
      <4> QED BY <4>1, <4>2
    <3> QED BY <3>1, <3>2
  <2>5. CASE t \in Told(i)
    <3>1. /\ IsFiniteSet(Told(i)') /\ Cardinality(Told(i)) \in Nat
          /\ Cardinality(Told(i)') = Cardinality(Told(i)) - 1
      BY <1>0, <2>3, <2>5, OneLess DEF Counted
    <3> QED BY <1>0, <2>1, <2>3, <2>4, <3>1 DEF Counted
  <2>6. CASE t \notin Told(i)
    <3>1. Told(i)' = Told(i) /\ acked'[i] = acked[i]
      BY <2>3, <2>4, <2>6
    <3> QED BY <1>0, <2>1, <2>3, <3>1 DEF Counted
  <2> QED BY <2>5, <2>6
<1>9. CASE UNCHANGED vars
  <2>1. Pending(i)' = Pending(i) /\ Told(i)' = Told(i)
    BY <1>9 DEF vars, task, Pending, Told
  <2> QED BY <1>0, <1>9, <2>1, QuietCount DEF vars, history
<1> QED BY <1>1, <1>2, <1>3, <1>4, <1>5, <1>6, <1>7, <1>8, <1>9, StepOfTask
       DEF Forgets

\* However jobs outlive their handlers, clients leave and servers restart: what
\* a client was told is kept is there or was forgotten, and no call counts
\* twice.
THEOREM MemoriesKeptOnce == Spec => []RememberedOnce
<1>1. BasicInv /\ CountInv => RememberedOnce
  <2> SUFFICES ASSUME BasicInv, CountInv, NEW i \in Items
               PROVE  /\ acked[i] <= memory[i] + forgotten[i]
                      /\ memory[i] + forgotten[i] <= asked[i]
    BY DEF RememberedOnce
  <2>1. Cardinality(Pending(i)) \in Nat /\ Cardinality(Told(i)) \in Nat
    BY FS_CardinalityType DEF CountInv, Counted
  <2> QED BY <2>1 DEF CountInv, Counted, BasicInv, TypeInv, STypeOK
<1> QED BY <1>1, BasicInvariant, CountInit, CountStep, PTL DEF Spec

-----------------------------------------------------------------------------
(* The service is a registry *)

CallNow(t) == IF OnRegistry(t) THEN CallOf(req[t]) ELSE None

\* A step of t changes the abstract view of t only.
LEMMA ViewStep ==
  ASSUME TypeInv, NEW t \in Tasks, OnlyTask(t)
  PROVE  /\ \A u \in Tasks \ {t} : /\ StageOf(u)' = StageOf(u)
                                   /\ CallNow(u)' = CallNow(u)
         /\ [u \in Tasks |-> StageOf(u)]'
              = [[u \in Tasks |-> StageOf(u)] EXCEPT ![t] = StageOf(t)']
         /\ [u \in Tasks |-> CallNow(u)]'
              = [[u \in Tasks |-> CallNow(u)] EXCEPT ![t] = CallNow(t)']
         /\ snap' = [snap EXCEPT ![t] = snap'[t]]
<1>1. ASSUME NEW u \in Tasks \ {t}
      PROVE  StageOf(u)' = StageOf(u) /\ CallNow(u)' = CallNow(u)
  <2>1. pc'[u] = pc[u] /\ req'[u] = req[u] /\ snap'[u] = snap[u]
    BY DEF OnlyTask
  <2>2. OnRegistry(u)' <=> OnRegistry(u)
    BY <2>1 DEF OnRegistry
  <2> QED BY <2>1, <2>2 DEF StageOf, CallNow, CallOf
<1>2. snap' = [snap EXCEPT ![t] = snap'[t]]
  BY DEF TypeInv, OnlyTask
<1> QED BY <1>1, <1>2

LEMMA RegistryInit == Init => Registry!Init
BY DEF Init, Registry!Init, StageOf, OnRegistry

\* Steps of the abstract registry, by what becomes of one task.
LEMMA RegistryActions ==
  ASSUME TypeInv, NEW t \in Tasks, OnlyTask(t)
  PROVE  /\ /\ UNCHANGED registry /\ StageOf(t)' = StageOf(t)
            /\ CallNow(t)' = CallNow(t) /\ snap'[t] = snap[t]
            => UNCHANGED Registry!vars
         /\ /\ UNCHANGED registry /\ StageOf(t) = "idle" /\ StageOf(t)' = "called"
            /\ \E q \in Requests : /\ q.route \notin MemoryRoutes
                                   /\ CallNow(t)' = CallOf(q)
            /\ snap'[t] = snap[t]
            => Registry!Invoke(t)
         /\ /\ StageOf(t) = "called" /\ StageOf(t)' = "applied"
            /\ CallNow(t)' = CallNow(t) /\ CallNow(t).kind # "malformed"
            /\ snap'[t] = [n \in Registry!Visible(CallNow(t)) |-> registry[n]]
            /\ registry' = IF CallNow(t).kind = "import"
                           THEN [registry EXCEPT ![CallNow(t).name] = CallNow(t).doc]
                           ELSE registry
            => Registry!Apply(t)
         /\ /\ UNCHANGED registry /\ StageOf(t) = "called" /\ StageOf(t)' = "refused"
            /\ CallNow(t)' = CallNow(t) /\ snap'[t] = snap[t]
            => Registry!Refuse(t)
         /\ /\ UNCHANGED registry /\ StageOf(t) # "idle" /\ StageOf(t)' = "idle"
            /\ snap'[t] = None
            => Registry!End(t)
<1> DEFINE stages == [u \in Tasks |-> StageOf(u)]
           calls  == [u \in Tasks |-> CallNow(u)]
<1>1. calls = [u \in Tasks |-> IF OnRegistry(u) THEN CallOf(req[u]) ELSE None]
  BY DEF CallNow
<1>2. calls' = [u \in Tasks |-> IF OnRegistry(u) THEN CallOf(req[u]) ELSE None]'
  BY DEF CallNow
<1>3. /\ stages' = [stages EXCEPT ![t] = StageOf(t)']
      /\ calls' = [calls EXCEPT ![t] = CallNow(t)']
      /\ snap' = [snap EXCEPT ![t] = snap'[t]]
  BY ViewStep
<1>4. /\ stages[t] = StageOf(t) /\ calls[t] = CallNow(t)
      /\ snap = [u \in Tasks |-> snap[u]]
      /\ stages = [u \in Tasks |-> stages[u]]
      /\ calls = [u \in Tasks |-> calls[u]]
  BY DEF TypeInv
<1>5. StageOf(t)' = "idle" => CallNow(t)' = None
  BY DEF StageOf, CallNow
<1> HIDE DEF stages, calls
<1>6. ASSUME UNCHANGED registry, StageOf(t)' = StageOf(t),
             CallNow(t)' = CallNow(t), snap'[t] = snap[t]
      PROVE  UNCHANGED Registry!vars
  <2>1. stages' = stages /\ calls' = calls /\ snap' = snap
    BY <1>3, <1>4, <1>6
  <2> QED BY <1>1, <1>2, <1>6, <2>1 DEF Registry!vars, stages
<1>7. ASSUME UNCHANGED registry, StageOf(t) = "idle", StageOf(t)' = "called",
             NEW q \in Requests, q.route \notin MemoryRoutes,
             CallNow(t)' = CallOf(q), snap'[t] = snap[t]
      PROVE  Registry!Invoke(t)
  <2>1. /\ stages[t] = "idle" /\ stages' = [stages EXCEPT ![t] = "called"]
        /\ calls' = [calls EXCEPT ![t] = CallOf(q)] /\ snap' = snap
    BY <1>3, <1>4, <1>7
  <2>2. CallOf(q) \in {CallOf(r) : r \in {x \in Requests :
                                            x.route \notin MemoryRoutes}}
    BY <1>7
  <2> QED BY <1>1, <1>2, <1>7, <2>1, <2>2 DEF Registry!Invoke, stages
<1>8. ASSUME StageOf(t) = "called", StageOf(t)' = "applied",
             CallNow(t)' = CallNow(t), CallNow(t).kind # "malformed",
             snap'[t] = [n \in Registry!Visible(CallNow(t)) |-> registry[n]],
             registry' = IF CallNow(t).kind = "import"
                         THEN [registry EXCEPT ![CallNow(t).name] = CallNow(t).doc]
                         ELSE registry
      PROVE  Registry!Apply(t)
  <2>1. /\ stages[t] = "called" /\ stages' = [stages EXCEPT ![t] = "applied"]
        /\ calls' = calls /\ calls[t] = CallNow(t)
        /\ snap' = [snap EXCEPT ![t] =
             [n \in Registry!Visible(calls[t]) |-> registry[n]]]
    BY <1>3, <1>4, <1>8
  <2>2. /\ calls[t].kind # "malformed"
        /\ registry' = IF calls[t].kind = "import"
                       THEN [registry EXCEPT ![calls[t].name] = calls[t].doc]
                       ELSE registry
    BY <1>4, <1>8
  <2> QED BY <1>1, <1>2, <2>1, <2>2, Zenon DEF Registry!Apply, stages
<1>9. ASSUME UNCHANGED registry, StageOf(t) = "called", StageOf(t)' = "refused",
             CallNow(t)' = CallNow(t), snap'[t] = snap[t]
      PROVE  Registry!Refuse(t)
  <2>1. /\ stages[t] = "called" /\ stages' = [stages EXCEPT ![t] = "refused"]
        /\ calls' = calls /\ snap' = snap
    BY <1>3, <1>4, <1>9
  <2> QED BY <1>1, <1>2, <1>9, <2>1 DEF Registry!Refuse, stages
<1>10. ASSUME UNCHANGED registry, StageOf(t) # "idle", StageOf(t)' = "idle",
              snap'[t] = None
       PROVE  Registry!End(t)
  <2>1. /\ stages[t] # "idle" /\ stages' = [stages EXCEPT ![t] = "idle"]
        /\ calls' = [calls EXCEPT ![t] = None]
        /\ snap' = [snap EXCEPT ![t] = None]
    BY <1>3, <1>4, <1>5, <1>10
  <2> QED BY <1>1, <1>2, <1>10, <2>1 DEF Registry!End, stages
<1> QED BY <1>6, <1>7, <1>8, <1>9, <1>10

LEMMA RegistryStep ==
  BasicInv /\ [Next]_vars => Registry!Next \/ UNCHANGED Registry!vars
<1> SUFFICES ASSUME BasicInv, [Next]_vars
             PROVE  Registry!Next \/ UNCHANGED Registry!vars
  OBVIOUS
<1>0. TypeInv /\ \A t \in Tasks : TaskOK(t)
  BY DEF BasicInv
<1>1. ASSUME NEW t \in Tasks,
             Registry!Invoke(t) \/ Registry!Apply(t) \/ Registry!Refuse(t)
               \/ Registry!End(t)
      PROVE  Registry!Next
  BY <1>1 DEF Registry!Next
\* A call of the memory is none of the registry.
<1>2. ASSUME NEW t \in Tasks, OnlyTask(t), UNCHANGED registry,
             ~OnRegistry(t), ~OnRegistry(t)',
             snap'[t] = snap[t] \/ snap'[t] = None
      PROVE  UNCHANGED Registry!vars
  <2>1. snap[t] = None
    BY <1>0, <1>2 DEF TaskOK, OnRegistry
  <2>2. /\ StageOf(t) = "idle" /\ StageOf(t)' = "idle"
        /\ CallNow(t) = None /\ CallNow(t)' = None
    BY <1>2 DEF StageOf, CallNow
  <2> QED BY <1>0, <1>2, <2>1, <2>2, RegistryActions
<1>3. ASSUME NEW t \in Tasks, pc[t] \in {"body", "auth", "parse", "run"},
             OnRegistry(t)
      PROVE  StageOf(t) = "called" /\ CallNow(t) = CallOf(req[t])
  BY <1>3 DEF StageOf, CallNow
\* A call goes on to its next stage.
<1>4. ASSUME NEW t \in Tasks, OnlyTask(t), UNCHANGED <<req, snap, registry>>,
             \/ pc'[t] = pc[t]
             \/ /\ pc[t] \in {"body", "auth", "parse", "run"}
                /\ pc'[t] \in {"body", "auth", "parse", "run"}
             \/ pc[t] = "job" /\ pc'[t] = "orphan"
             \/ /\ pc[t] = "job" /\ pc'[t] = "reply"
                /\ req[t].route \in MemoryRoutes \/ snap[t] # None
      PROVE  UNCHANGED Registry!vars
  <2>1. OnRegistry(t)' = OnRegistry(t)
    BY <1>4 DEF OnRegistry
  <2>2. CallNow(t)' = CallNow(t)
    BY <1>4, <2>1 DEF CallNow, CallOf
  <2>3. StageOf(t)' = StageOf(t)
    <3>1. CASE pc'[t] = pc[t]
      BY <1>4, <3>1 DEF StageOf, OnRegistry
    <3>2. CASE /\ pc[t] \in {"body", "auth", "parse", "run"}
               /\ pc'[t] \in {"body", "auth", "parse", "run"}
      BY <1>4, <3>2 DEF StageOf, OnRegistry
    <3>3. CASE pc[t] = "job" /\ pc'[t] = "orphan"
      BY <1>4, <3>3 DEF StageOf, OnRegistry
    <3>4. CASE /\ pc[t] = "job" /\ pc'[t] = "reply"
               /\ req[t].route \in MemoryRoutes \/ snap[t] # None
      BY <1>4, <3>4 DEF StageOf, OnRegistry
    <3> QED BY <1>4, <3>1, <3>2, <3>3, <3>4
  <2> QED BY <1>0, <1>4, <2>2, <2>3, RegistryActions
\* A call ends.
<1>5. ASSUME NEW t \in Tasks, OnlyTask(t), UNCHANGED registry,
             pc[t] # "idle", pc'[t] = "idle", snap'[t] = None
      PROVE  Registry!Next \/ UNCHANGED Registry!vars
  <2>1. ~OnRegistry(t)' /\ StageOf(t)' = "idle"
    BY <1>5 DEF OnRegistry, StageOf
  <2>2. CASE OnRegistry(t)
    <3>1. StageOf(t) # "idle"
      BY <2>2 DEF StageOf
    <3> QED BY <1>0, <1>1, <1>5, <2>1, <3>1, RegistryActions
  <2> QED BY <1>2, <1>5, <2>1, <2>2
<1>6. CASE Restart
  <2>1. registry' = [n \in Names |-> None]
        /\ [t \in Tasks |-> StageOf(t)]' = [t \in Tasks |-> "idle"]
        /\ [t \in Tasks |-> IF OnRegistry(t) THEN CallOf(req[t]) ELSE None]'
             = [t \in Tasks |-> None]
        /\ snap' = [t \in Tasks |-> None]
    BY <1>6 DEF Restart, StageOf, OnRegistry
  <2> QED BY <2>1 DEF Registry!Next, Registry!Restart
<1>7. ASSUME NEW t \in Tasks, NEW q \in Requests, Receive(t, q)
      PROVE  Registry!Next \/ UNCHANGED Registry!vars
  <2>1. /\ OnlyTask(t) /\ pc[t] = "idle" /\ pc'[t] = "body" /\ req'[t] = q
        /\ snap'[t] = snap[t] /\ UNCHANGED registry
    BY <1>7, OtherResults DEF Receive
  <2>2. ~OnRegistry(t) /\ StageOf(t) = "idle"
    BY <2>1 DEF OnRegistry, StageOf
  <2>3. CASE q.route \in MemoryRoutes
    <3>1. ~OnRegistry(t)'
      BY <2>1, <2>3 DEF OnRegistry
    <3> QED BY <1>2, <2>1, <2>2, <3>1
  <2>4. CASE q.route \notin MemoryRoutes
    <3>1. StageOf(t)' = "called" /\ CallNow(t)' = CallOf(q)
      BY <2>1, <2>4 DEF OnRegistry, StageOf, CallNow, CallOf
    <3> QED BY <1>0, <1>1, <2>1, <2>2, <2>4, <3>1, RegistryActions
  <2> QED BY <2>3, <2>4
<1>8. ASSUME NEW t \in Tasks, Moves(t)
      PROVE  Registry!Next \/ UNCHANGED Registry!vars
  <2>1. OnlyTask(t) /\ Arrow(t) /\ UNCHANGED registry
    BY <1>0, <1>8, MovesKeep DEF MoveResult
  <2>2. CASE Ends(t)
    BY <1>5, <2>1, <2>2 DEF Ends
  <2>3. CASE UNCHANGED <<req, snap>> /\ pc'[t] = pc[t]
    BY <1>4, <2>1, <2>3
  <2>4. CASE UNCHANGED <<req, snap>> /\ Replies(t)
    <3>1. /\ pc[t] \in {"body", "auth", "parse", "run", "job"}
          /\ pc'[t] = "reply"
          /\ pc[t] = "run" => req[t].route \in MemoryRoutes
      BY <2>4 DEF Replies
    <3>2. CASE ~OnRegistry(t)
      <4>1. ~OnRegistry(t)'
        BY <2>4, <3>1, <3>2 DEF OnRegistry
      <4> QED BY <1>2, <2>1, <2>4, <3>2, <4>1
    <3>3. CASE OnRegistry(t) /\ pc[t] = "job"
      <4>1. snap[t] # None
        BY <1>0, <3>3 DEF TaskOK, OnRegistry
      <4> QED BY <1>4, <2>1, <2>4, <3>1, <3>3, <4>1
    <3>4. CASE OnRegistry(t) /\ pc[t] \in {"body", "auth", "parse"}
      <4>1. snap[t] = None
        BY <1>0, <3>4 DEF TaskOK
      <4>2. StageOf(t)' = "refused" /\ CallNow(t)' = CallNow(t)
        BY <2>4, <3>1, <3>4, <4>1 DEF StageOf, OnRegistry, CallNow, CallOf
      <4>3. Registry!Refuse(t)
        BY <1>0, <1>3, <2>1, <2>4, <3>4, <4>2, RegistryActions
      <4> QED BY <1>1, <4>3
    <3> QED BY <3>1, <3>2, <3>3, <3>4 DEF OnRegistry
  <2>5. CASE UNCHANGED <<req, snap>> /\ Proceeds(t)
    <3>1. CASE pc[t] = "run"
      <4>1. ~OnRegistry(t) /\ ~OnRegistry(t)'
        BY <2>5, <3>1 DEF Proceeds, OnRegistry
      <4> QED BY <1>2, <2>1, <2>5, <4>1
    <3>2. CASE pc[t] # "run"
      <4>1. \/ /\ pc[t] \in {"body", "auth", "parse", "run"}
               /\ pc'[t] \in {"body", "auth", "parse", "run"}
            \/ pc[t] = "job" /\ pc'[t] = "orphan"
        BY <2>5, <3>2 DEF Proceeds
      <4> QED BY <1>4, <2>1, <2>5, <4>1
    <3> QED BY <3>1, <3>2
  <2> QED BY <2>1, <2>2, <2>3, <2>4, <2>5 DEF Arrow
<1>9. ASSUME NEW t \in Tasks, Authenticate(t) PROVE UNCHANGED Registry!vars
  <2>1. /\ OnlyTask(t) /\ UNCHANGED <<req, snap, registry>>
        /\ pc[t] = "auth" /\ pc'[t] = "parse"
    BY <1>9, OtherResults DEF Authenticate
  <2> QED BY <1>4, <2>1
\* What import, get, list, search and answer do under the lock.
<1>10. ASSUME NEW t \in Tasks, At(t, ImportRoutes \union ReadRoutes \union {"answer"}),
              OnlyTask(t), UNCHANGED req, pc'[t] \in {"reply", "job"},
              snap'[t] # None,
              LET c == CallOf(req[t])
              IN  /\ snap'[t] = [n \in Registry!Visible(c) |-> registry[n]]
                  /\ registry' = IF c.kind = "import"
                                 THEN [registry EXCEPT ![c.name] = c.doc]
                                 ELSE registry
       PROVE  Registry!Next
  <2>1. /\ pc[t] = "run" /\ OnRegistry(t) /\ OnRegistry(t)'
        /\ req[t].body # Malformed
    BY <1>0, <1>10
       DEF At, OnRegistry, TaskOK, ImportRoutes, ReadRoutes, MemoryRoutes
  <2>2. StageOf(t) = "called" /\ CallNow(t) = CallOf(req[t])
    BY <1>3, <2>1
  <2>3. StageOf(t)' = "applied" /\ CallNow(t)' = CallNow(t)
    BY <1>10, <2>1 DEF StageOf, CallNow, CallOf
  <2>4. CallOf(req[t]).kind # "malformed"
    BY <2>1 DEF CallOf
  <2>5. Registry!Apply(t)
    <3> HIDE DEF CallOf, CallNow
    <3>1. /\ snap'[t] = [n \in Registry!Visible(CallNow(t)) |-> registry[n]]
          /\ registry' = IF CallNow(t).kind = "import"
                         THEN [registry EXCEPT ![CallNow(t).name] = CallNow(t).doc]
                         ELSE registry
          /\ CallNow(t).kind # "malformed"
      BY <1>10, <2>2, <2>4
    <3> QED BY <1>0, <1>10, <2>2, <2>3, <3>1, RegistryActions
  <2> QED BY <1>1, <2>5
<1>11. ASSUME NEW t \in Tasks, RegisterModel(t) PROVE Registry!Next
  <2>1. /\ At(t, ImportRoutes) /\ OnlyTask(t) /\ UNCHANGED req
        /\ pc'[t] = "reply" /\ snap'[t] # None
        /\ snap'[t] = [n \in {} |-> registry[n]]
        /\ registry' = [registry EXCEPT ![NameOf[req[t].body]] = req[t].body]
    BY <1>11, OtherResults DEF RegisterModel
  <2>2. /\ req[t].route \in ImportRoutes /\ req[t].body # Malformed
        /\ req[t].body \in Docs
    <3>1. req[t] \in Requests /\ req[t].body # Malformed
      BY <1>0, <2>1 DEF TaskOK, At
    <3> QED BY <2>1, <3>1, RequestType DEF At
  <2>3. /\ CallOf(req[t]).kind = "import" /\ CallOf(req[t]).doc = req[t].body
        /\ CallOf(req[t]).name = NameOf[req[t].body]
    BY <2>2 DEF CallOf, ImportRoutes
  <2>4. Registry!Visible(CallOf(req[t])) = {}
    BY <2>3 DEF Registry!Visible
  <2>5. At(t, ImportRoutes \union ReadRoutes \union {"answer"})
    BY <2>1 DEF At
  <2> QED BY <1>10, <2>1, <2>3, <2>4, <2>5
<1>12. ASSUME NEW t \in Tasks, GetModel(t) PROVE Registry!Next
  <2>1. /\ At(t, {"get"}) /\ OnlyTask(t) /\ UNCHANGED <<req, registry>>
        /\ pc'[t] = "reply" /\ snap'[t] # None
        /\ snap'[t] = [n \in {req[t].body} |-> registry[n]]
    BY <1>12, OtherResults DEF GetModel
  <2>2. req[t].body # Malformed /\ req[t].route = "get"
    BY <1>0, <2>1 DEF TaskOK, At
  <2>3. /\ CallOf(req[t]).kind = "get" /\ CallOf(req[t]).name = req[t].body
    BY <2>2 DEF CallOf, ImportRoutes
  <2>4. Registry!Visible(CallOf(req[t])) = {req[t].body}
    BY <2>3 DEF Registry!Visible
  <2>5. At(t, ImportRoutes \union ReadRoutes \union {"answer"})
    BY <2>1 DEF At, ReadRoutes
  <2> QED BY <1>10, <2>1, <2>3, <2>4, <2>5
<1>13. ASSUME NEW t \in Tasks, ListModels(t) \/ StartAnswer(t)
       PROVE  Registry!Next
  <2>1. /\ At(t, {"list", "search", "answer"}) /\ OnlyTask(t)
        /\ UNCHANGED <<req, registry>>
        /\ pc'[t] \in {"reply", "job"} /\ snap'[t] # None
        /\ snap'[t] = [n \in Names |-> registry[n]]
    BY <1>13, OtherResults DEF ListModels, StartAnswer, At
  <2>2. req[t].body # Malformed /\ req[t].route \in {"list", "search", "answer"}
    BY <1>0, <2>1 DEF TaskOK, At
  <2>3. CallOf(req[t]).kind = "all"
    BY <2>2 DEF CallOf, ImportRoutes
  <2>4. Registry!Visible(CallOf(req[t])) = Names
    BY <2>3 DEF Registry!Visible
  <2>5. At(t, ImportRoutes \union ReadRoutes \union {"answer"})
    BY <2>1 DEF At, ReadRoutes
  <2> QED BY <1>10, <2>1, <2>3, <2>4, <2>5
<1>14. ASSUME NEW t \in Tasks, Remember(t) \/ Forgets(t)
       PROVE  UNCHANGED Registry!vars
  <2>1. /\ OnlyTask(t) /\ UNCHANGED registry /\ req[t].route \in MemoryRoutes
        /\ \/ UNCHANGED <<req, snap>>
           \/ pc'[t] = "idle" /\ snap'[t] = None
    BY <1>14, OtherResults, ForgetResult DEF Remember, Job, MemoryRoutes
  <2>2. ~OnRegistry(t) /\ ~OnRegistry(t)'
    BY <2>1 DEF OnRegistry
  <2> QED BY <1>2, <2>1, <2>2
<1>15. ASSUME NEW t \in Tasks, SendAnswer(t)
       PROVE  Registry!Next \/ UNCHANGED Registry!vars
  <2>1. /\ OnlyTask(t) /\ UNCHANGED registry
        /\ pc[t] = "reply" /\ pc'[t] = "idle" /\ snap'[t] = None
    BY <1>15, OtherResults DEF SendAnswer
  <2> QED BY <1>5, <2>1
<1>16. CASE UNCHANGED vars
  <2>1. UNCHANGED <<pc, req, snap, registry>>
    BY <1>16 DEF vars, task
  <2>2. [t \in Tasks |-> StageOf(t)]' = [t \in Tasks |-> StageOf(t)]
    BY <2>1 DEF StageOf, OnRegistry
  <2>3. [t \in Tasks |-> IF OnRegistry(t) THEN CallOf(req[t]) ELSE None]'
          = [t \in Tasks |-> IF OnRegistry(t) THEN CallOf(req[t]) ELSE None]
    BY <2>1 DEF OnRegistry, CallOf
  <2> QED BY <2>1, <2>2, <2>3 DEF Registry!vars
<1> QED BY <1>6, <1>7, <1>8, <1>9, <1>11, <1>12, <1>13, <1>14, <1>15, <1>16,
           StepOfTask DEF Forgets

\* For any number of requests under way, the service is a registry: each import
\* takes effect at one instant and leaves every other model alone, and every
\* other call answers from the models of one instant.
THEOREM ServiceIsRegistry == Spec => RegistrySpec
<1>1. BasicInv /\ [Next]_vars => [Registry!Next]_(Registry!vars)
  BY RegistryStep
<1> QED BY <1>1, BasicInvariant, RegistryInit, PTL
        DEF Spec, RegistrySpec, Registry!Spec
=============================================================================
