---------------------------- MODULE QgLakeStory ----------------------------
(***************************************************************************)
(* The governed multi-agent story (src/src/qglake): a supervisor delegates *)
(* a question to one specialist per compartment of the lakehouse, each     *)
(* answers with a signed summary or a signed denial, and a synthesis agent *)
(* puts the summaries together.  run_qglake_story takes no input and keeps *)
(* no state; what it does is a function of its list of specialists.        *)
(*                                                                         *)
(* An agent's DID is derived from its name, and stands for it here; the    *)
(* raw tables of a compartment, the wording of the summaries and what is   *)
(* in an envelope besides sender, recipient, resource and payload are left *)
(* out.                                                                    *)
(***************************************************************************)
EXTENDS Integers, Sequences, Policies

Supervisor == "SupervisorAgent"
Synthesis  == "SynthesisAgent"

\* A specialist of a compartment whose raw data it may work on.
Open(name, role, compartment, rbac_action, odrl_action) ==
  [name |-> name, role |-> role, compartment |-> compartment,
   rbac_action |-> rbac_action, rbac_resource |-> compartment,
   odrl_action |-> odrl_action, allow_raw |-> TRUE]

Specs == <<
  Open("FinanceAgent", "finance-specialist", "compartment:finance",
       "read", "read"),
  Open("EnergyAgent", "energy-specialist", "compartment:energy",
       "summarize", "derive"),
  Open("MobilityAgent", "mobility-specialist", "compartment:mobility",
       "summarize", "derive"),
  Open("ClimateHealthAgent", "climate-health-specialist",
       "compartment:climate-health", "summarize", "derive"),
  Open("ReferenceAgent", "reference-specialist", "compartment:reference",
       "normalize", "read"),
  [name |-> "RestrictedDataBroker", role |-> "restricted-broker",
   compartment |-> "compartment:restricted:raw", rbac_action |-> "read",
   rbac_resource |-> "compartment:restricted:metadata",
   odrl_action |-> "read", allow_raw |-> FALSE] >>

Permission(action, resource) == [action |-> action, resource |-> resource]

\* with_role, for the supervisor, the synthesis agent and every specialist: a
\* role of the same name is replaced.
Roles(specs) ==
  LET names     == {specs[i].role : i \in DOMAIN specs}
      Last(r)   == CHOOSE i \in DOMAIN specs :
                     /\ specs[i].role = r
                     /\ \A j \in DOMAIN specs : specs[j].role = r => j <= i
      aggregate == Permission("aggregate", "summaries:*")
  IN  [r \in names \union {"supervisor", "synthesis"} |->
         IF r \in names
         THEN {Permission(specs[Last(r)].rbac_action,
                          specs[Last(r)].rbac_resource)}
         ELSE {aggregate} \union
              (IF r = "supervisor" THEN {Permission("delegate", "agents:*")}
                                   ELSE {})]

\* The RBAC policy once the first n specialists have their roles.
RbacAfter(specs, n) ==
  [roles       |-> Roles(specs),
   assignments |-> { <<Supervisor, "supervisor">>, <<Synthesis, "synthesis">> }
                     \union {<<specs[i].name, specs[i].role>> : i \in 1..n}]

\* Mutant: raw data is not prohibited where it is restricted, but used there.
PolicyWithoutDenial(spec) ==
  [target       |-> spec.compartment,
   assigner     |-> Supervisor,
   permissions  |-> {[action |-> spec.odrl_action, assignee |-> spec.name]},
   prohibitions |-> {[action |-> "use", assignee |-> spec.name]}]

\* policy_for
PolicyFor(spec) ==
  [target       |-> spec.compartment,
   assigner     |-> Supervisor,
   permissions  |-> {[action |-> spec.odrl_action, assignee |-> spec.name]},
   prohibitions |-> {[action   |-> IF spec.allow_raw THEN "use" ELSE "read",
                      assignee |-> spec.name]}]

Envelope(sender, recipient, resource, payload) ==
  [sender |-> sender, recipient |-> recipient, resource |-> resource,
   payload |-> payload]

\* The run of one specialist: its access receipt is made of the roles assigned
\* so far, before the specialists after it have theirs.
SpecialistRun(specs, i) ==
  LET spec    == specs[i]
      policy  == PolicyFor(spec)
      odrl    == Allows(policy, spec.name, spec.odrl_action)
      rbac    == Decide(RbacAfter(specs, i), spec.name, spec.rbac_action,
                        spec.rbac_resource)
      allowed == rbac.allowed /\ odrl /\ spec.allow_raw
      summary == IF allowed THEN "summary" ELSE "denial"
  IN  [agent       |-> spec.name,
       compartment |-> spec.compartment,
       request     |-> Envelope(Supervisor, spec.name, spec.compartment,
                                "delegation"),
       response    |-> Envelope(spec.name, Synthesis, "summaries:qglake",
                                summary),
       access      |-> [allowed |-> allowed, rbac |-> rbac,
                        odrl_allowed |-> odrl]]

\* The synthesis is asked with the hashes of all responses, which stand for
\* them here.
Story(specs) ==
  LET runs      == [i \in DOMAIN specs |-> SpecialistRun(specs, i)]
      responses == {runs[i].response : i \in DOMAIN runs}
      rbac      == RbacAfter(specs, Len(specs))
      decision  == Decide(rbac, Synthesis, "aggregate", "summaries:*")
  IN  [specialists    |-> runs,
       synthesis      |-> [request |-> Envelope(Supervisor, Synthesis,
                                                "summaries:qglake", responses),
                           access  |-> [allowed      |-> decision.allowed,
                                        rbac         |-> decision,
                                        odrl_allowed |-> TRUE]],
       rbac           |-> rbac,
       policies       |-> [i \in DOMAIN specs |-> PolicyFor(specs[i])],
       envelope_count |-> 2 * Len(specs) + 1,
       lineage        |-> [inputs |-> {[compartment   |-> runs[i].compartment,
                                        accessAllowed |-> runs[i].access.allowed] :
                                         i \in DOMAIN runs}]]

-----------------------------------------------------------------------------
(* What a story promises *)

\* Each agent has a name and a role of its own, and each compartment is the
\* business of one of them.
OwnRoles(specs) ==
  /\ \A i \in DOMAIN specs :
       /\ specs[i].name \notin {Supervisor, Synthesis}
       /\ specs[i].role \notin {"supervisor", "synthesis"}
       /\ specs[i].rbac_resource # "*"
       /\ specs[i].rbac_resource \notin {"summaries:*", "agents:*"}
  /\ \A i, j \in DOMAIN specs : i # j =>
       /\ specs[i].name # specs[j].name
       /\ specs[i].role # specs[j].role
       /\ specs[i].rbac_resource # specs[j].rbac_resource
       /\ specs[i].compartment # specs[j].compartment

\* The receipts, each made while roles were still being assigned, stand under
\* the policy that the report publishes, and by that policy nobody but its
\* specialist, the supervisor and the synthesis agent included, may touch what
\* a compartment offers.
ReceiptsStand(specs, story) ==
  /\ \A i \in DOMAIN specs :
       LET spec == specs[i]
       IN  story.specialists[i].access.rbac =
             Decide(story.rbac, spec.name, spec.rbac_action, spec.rbac_resource)
  /\ \A i \in DOMAIN specs :
       \A who \in {specs[j].name : j \in DOMAIN specs \ {i}}
                    \union {Supervisor, Synthesis} :
         ~Decide(story.rbac, who, specs[i].rbac_action,
                 specs[i].rbac_resource).allowed

\* No summary of data that the compartment's published ODRL policy keeps from
\* its agent, or that is restricted, reaches the synthesis or is recorded as
\* used by the lineage event; yet every agent answers, with a denial if need be.
DenialsHold(specs, story) ==
  \A i \in DOMAIN specs :
    LET run == story.specialists[i]
        kept == \/ ~Allows(story.policies[i], run.agent, specs[i].odrl_action)
                \/ ~specs[i].allow_raw
    IN  /\ kept => /\ run.response.payload = "denial"
                   /\ [compartment |-> run.compartment, accessAllowed |-> TRUE]
                        \notin story.lineage.inputs
        /\ run.response \in story.synthesis.request.payload

\* RBAC alone would let the broker of restricted data in: the ODRL policy, too,
\* has to keep it out.
PoliciesAgree(specs, story) ==
  \A i \in DOMAIN specs :
    ~specs[i].allow_raw /\ specs[i].odrl_action = "read" =>
      ~story.specialists[i].access.odrl_allowed

Governed(specs, story) ==
  OwnRoles(specs) =>
    /\ ReceiptsStand(specs, story)
    /\ DenialsHold(specs, story)
    /\ PoliciesAgree(specs, story)
=============================================================================
