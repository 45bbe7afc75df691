--------------------------- MODULE ModelRegistry ---------------------------
(***************************************************************************)
(* What the HTTP service (src/src/server.rs) and the MCP server            *)
(* (src/src/mcp.rs) promise of their registries of semantic models: every  *)
(* call that is not refused takes effect at one instant between its        *)
(* arrival and its answer, an import by setting one model, any other call  *)
(* by seeing all it answers from at that instant.  A restart forgets the   *)
(* models and the calls under way.                                         *)
(***************************************************************************)
CONSTANTS
  Tasks,  \* calls that may be under way at the same time
  Names,  \* names of semantic models
  Calls,  \* [kind, name, doc]; kind is "import", "get", "all" or "malformed"
  None    \* no model, no call, nothing seen

VARIABLES
  models,  \* the model registered under each name
  stage,   \* "idle", "called", "applied" or "refused"
  call,    \* what a task was asked
  seen     \* the models an applied call answers from

vars == <<models, stage, call, seen>>

Visible(c) == CASE c.kind = "import" -> {}
                [] c.kind = "get"    -> {c.name}
                [] OTHER             -> Names

Init ==
  /\ models = [n \in Names |-> None]
  /\ stage = [t \in Tasks |-> "idle"]
  /\ call = [t \in Tasks |-> None]
  /\ seen = [t \in Tasks |-> None]

Invoke(t) ==
  /\ stage[t] = "idle"
  /\ \E c \in Calls : call' = [call EXCEPT ![t] = c]
  /\ stage' = [stage EXCEPT ![t] = "called"]
  /\ UNCHANGED <<models, seen>>

Apply(t) ==
  /\ stage[t] = "called"
  /\ call[t].kind # "malformed"
  /\ stage' = [stage EXCEPT ![t] = "applied"]
  /\ seen' = [seen EXCEPT ![t] = [n \in Visible(call[t]) |-> models[n]]]
  /\ models' = IF call[t].kind = "import"
               THEN [models EXCEPT ![call[t].name] = call[t].doc]
               ELSE models
  /\ UNCHANGED call

Refuse(t) ==
  /\ stage[t] = "called"
  /\ stage' = [stage EXCEPT ![t] = "refused"]
  /\ UNCHANGED <<models, call, seen>>

\* The call is answered, or nobody waits for the answer any more.
End(t) ==
  /\ stage[t] # "idle"
  /\ stage' = [stage EXCEPT ![t] = "idle"]
  /\ call' = [call EXCEPT ![t] = None]
  /\ seen' = [seen EXCEPT ![t] = None]
  /\ UNCHANGED models

Restart ==
  /\ models' = [n \in Names |-> None]
  /\ stage' = [t \in Tasks |-> "idle"]
  /\ call' = [t \in Tasks |-> None]
  /\ seen' = [t \in Tasks |-> None]

Next ==
  \/ \E t \in Tasks : Invoke(t) \/ Apply(t) \/ Refuse(t) \/ End(t)
  \/ Restart

Spec == Init /\ [][Next]_vars
=============================================================================
