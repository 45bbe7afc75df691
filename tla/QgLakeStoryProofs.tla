------------------------- MODULE QgLakeStoryProofs -------------------------
(***************************************************************************)
(* The governance of the story, for every list of specialists: TLC looks   *)
(* at the six of the code, the proof at any list whose agents have names,  *)
(* roles, resources and compartments of their own.                         *)
(***************************************************************************)
EXTENDS QgLakeStory, TLAPS

\* What a specialist is assigned, its own role and no other, does not change
\* while the specialists after it are assigned theirs.
LEMMA AssignedOwn ==
  ASSUME NEW S, NEW specs \in Seq(S), OwnRoles(specs),
         NEW i \in DOMAIN specs, NEW n \in i..Len(specs), NEW role
  PROVE  <<specs[i].name, role>> \in RbacAfter(specs, n).assignments
           <=> role = specs[i].role
<1>1. DOMAIN specs = 1..Len(specs) /\ Len(specs) \in Nat
  OBVIOUS
<1>2. i \in 1..n
  BY <1>1
<1>3. \A j \in 1..n : specs[j].name = specs[i].name => j = i
  BY <1>1 DEF OwnRoles
<1>4. specs[i].name # Supervisor /\ specs[i].name # Synthesis
  BY DEF OwnRoles
<1> QED BY <1>2, <1>3, <1>4 DEF RbacAfter

\* The supervisor and the synthesis agent keep to their own roles.
LEMMA AssignedFixed ==
  ASSUME NEW S, NEW specs \in Seq(S), OwnRoles(specs), NEW role
  PROVE  /\ <<Supervisor, role>> \in RbacAfter(specs, Len(specs)).assignments
              => role = "supervisor"
         /\ <<Synthesis, role>> \in RbacAfter(specs, Len(specs)).assignments
              => role = "synthesis"
<1>1. \A j \in 1..Len(specs) : /\ specs[j].name # Supervisor
                               /\ specs[j].name # Synthesis
  BY DEF OwnRoles
<1>2. Supervisor # Synthesis
  BY DEF Supervisor, Synthesis
<1> QED BY <1>1, <1>2 DEF RbacAfter

\* A specialist's role permits what its specification says and nothing else.
LEMMA RoleOfSpecialist ==
  ASSUME NEW S, NEW specs \in Seq(S), OwnRoles(specs), NEW i \in DOMAIN specs
  PROVE  /\ specs[i].role \in DOMAIN Roles(specs)
         /\ Roles(specs)[specs[i].role]
              = {Permission(specs[i].rbac_action, specs[i].rbac_resource)}
<1> DEFINE names == {specs[j].role : j \in DOMAIN specs}
           Last(r) == CHOOSE k \in DOMAIN specs :
                        /\ specs[k].role = r
                        /\ \A j \in DOMAIN specs : specs[j].role = r => j <= k
           value(r) == IF r \in names
                       THEN {Permission(specs[Last(r)].rbac_action,
                                        specs[Last(r)].rbac_resource)}
                       ELSE {Permission("aggregate", "summaries:*")} \union
                            (IF r = "supervisor"
                             THEN {Permission("delegate", "agents:*")} ELSE {})
<1>1. Roles(specs) = [r \in names \union {"supervisor", "synthesis"} |-> value(r)]
  BY DEF Roles
<1>2. specs[i].role \in names
  OBVIOUS
<1>3. \A j \in DOMAIN specs : specs[j].role = specs[i].role <=> j = i
  BY DEF OwnRoles
<1>4. i <= i
  OBVIOUS
<1>5. Last(specs[i].role) = i
  BY <1>3, <1>4
<1>6. Roles(specs)[specs[i].role] = value(specs[i].role)
  BY <1>1, <1>2
<1>7. value(specs[i].role) = {Permission(specs[i].rbac_action,
                                         specs[i].rbac_resource)}
  BY <1>2, <1>5
<1> QED BY <1>1, <1>2, <1>6, <1>7

\* The roles of the supervisor and of the synthesis agent concern agents and
\* summaries only.
LEMMA RoleOfFixed ==
  ASSUME NEW specs, OwnRoles(specs), NEW r \in {"supervisor", "synthesis"},
         NEW permission \in Roles(specs)[r]
  PROVE  permission.resource \in {"summaries:*", "agents:*"}
<1>1. r \notin {specs[j].role : j \in DOMAIN specs}
  BY DEF OwnRoles
<1>2. Roles(specs)[r] \subseteq {Permission("aggregate", "summaries:*"),
                                 Permission("delegate", "agents:*")}
  BY <1>1 DEF Roles
<1> QED BY <1>2 DEF Permission

\* The decision depends on the assignments of the principal alone.
LEMMA SameDecision ==
  ASSUME NEW rbac1, NEW rbac2, rbac1.roles = rbac2.roles,
         NEW who, NEW action, NEW resource,
         \A role : <<who, role>> \in rbac1.assignments
                     <=> <<who, role>> \in rbac2.assignments
  PROVE  Decide(rbac1, who, action, resource)
           = Decide(rbac2, who, action, resource)
<1>1. MatchedRoles(rbac1, who, action, resource)
        = MatchedRoles(rbac2, who, action, resource)
  BY DEF MatchedRoles
<1> QED BY <1>1 DEF Decide

\* Who is assigned one role is let in by its permissions only.
LEMMA OneRole ==
  ASSUME NEW rbac, NEW who, NEW action, NEW resource, NEW own,
         \A role : <<who, role>> \in rbac.assignments => role = own,
         \A permission \in rbac.roles[own] :
           ~Matches(permission, action, resource)
  PROVE  ~Decide(rbac, who, action, resource).allowed
<1>1. MatchedRoles(rbac, who, action, resource) = {}
  BY DEF MatchedRoles
<1> QED BY <1>1 DEF Decide

LEMMA ReceiptsStandLemma ==
  ASSUME NEW S, NEW specs \in Seq(S), OwnRoles(specs)
  PROVE  ReceiptsStand(specs, Story(specs))
<1> DEFINE n    == Len(specs)
           rbac == RbacAfter(specs, n)
<1>1. DOMAIN specs = 1..n /\ n \in Nat
  OBVIOUS
<1>2. Story(specs).rbac = rbac
  BY DEF Story
<1>3. \A i, j \in 1..n : RbacAfter(specs, i).roles = RbacAfter(specs, j).roles
  BY DEF RbacAfter
<1>4. rbac.roles = Roles(specs)
  BY DEF RbacAfter
<1>5. ASSUME NEW i \in DOMAIN specs
      PROVE  Story(specs).specialists[i].access.rbac
               = Decide(rbac, specs[i].name, specs[i].rbac_action,
                        specs[i].rbac_resource)
  <2>1. Story(specs).specialists[i] = SpecialistRun(specs, i)
    BY DEF Story
  <2>2. SpecialistRun(specs, i).access.rbac
          = Decide(RbacAfter(specs, i), specs[i].name, specs[i].rbac_action,
                   specs[i].rbac_resource)
    BY DEF SpecialistRun
  <2>3. i \in i..n /\ n \in i..n
    BY <1>1
  <2>4. \A role : <<specs[i].name, role>> \in RbacAfter(specs, i).assignments
                    <=> <<specs[i].name, role>> \in rbac.assignments
    BY <2>3, AssignedOwn
  <2>5. RbacAfter(specs, i).roles = rbac.roles
    BY DEF RbacAfter
  <2> HIDE DEF rbac
  <2> QED BY <2>1, <2>2, <2>4, <2>5, SameDecision
<1>6. ASSUME NEW i \in DOMAIN specs, NEW j \in DOMAIN specs, i # j
      PROVE  ~Decide(rbac, specs[j].name, specs[i].rbac_action,
                     specs[i].rbac_resource).allowed
  <2>1. n \in j..n
    BY <1>1
  <2>2. \A role : <<specs[j].name, role>> \in rbac.assignments
                    => role = specs[j].role
    BY <2>1, AssignedOwn
  <2>3. rbac.roles[specs[j].role]
          = {Permission(specs[j].rbac_action, specs[j].rbac_resource)}
    BY <1>4, RoleOfSpecialist
  <2>4. /\ specs[j].rbac_resource # "*"
        /\ specs[j].rbac_resource # specs[i].rbac_resource
    BY <1>6 DEF OwnRoles
  <2>5. \A permission \in rbac.roles[specs[j].role] :
          ~Matches(permission, specs[i].rbac_action, specs[i].rbac_resource)
    BY <2>3, <2>4 DEF Matches, Permission
  <2> HIDE DEF rbac
  <2> QED BY <2>2, <2>5, OneRole
<1>7. ASSUME NEW i \in DOMAIN specs, NEW who \in {Supervisor, Synthesis}
      PROVE  ~Decide(rbac, who, specs[i].rbac_action,
                     specs[i].rbac_resource).allowed
  <2>1. PICK own \in {"supervisor", "synthesis"} :
          \A role : <<who, role>> \in rbac.assignments => role = own
    BY AssignedFixed
  <2>2. /\ specs[i].rbac_resource # "summaries:*"
        /\ specs[i].rbac_resource # "agents:*"
    BY DEF OwnRoles
  <2>3. \A permission \in rbac.roles[own] :
          permission.resource \in {"summaries:*", "agents:*"}
    BY <1>4, RoleOfFixed
  <2>4. \A permission \in rbac.roles[own] :
          ~Matches(permission, specs[i].rbac_action, specs[i].rbac_resource)
    BY <2>2, <2>3 DEF Matches
  <2> HIDE DEF rbac
  <2> QED BY <2>1, <2>4, OneRole
<1> QED
  <2> HIDE DEF rbac
  <2> QED BY <1>2, <1>5, <1>6, <1>7 DEF ReceiptsStand

LEMMA DenialsHoldLemma ==
  ASSUME NEW S, NEW specs \in Seq(S), OwnRoles(specs)
  PROVE  DenialsHold(specs, Story(specs))
<1> DEFINE story   == Story(specs)
           kept(i) == \/ ~Allows(PolicyFor(specs[i]), specs[i].name,
                                 specs[i].odrl_action)
                      \/ ~specs[i].allow_raw
<1>1. \A i \in DOMAIN specs :
        /\ story.specialists[i] = SpecialistRun(specs, i)
        /\ story.policies[i] = PolicyFor(specs[i])
        /\ SpecialistRun(specs, i).agent = specs[i].name
        /\ SpecialistRun(specs, i).compartment = specs[i].compartment
  BY DEF Story, SpecialistRun
<1>2. /\ story.synthesis.request.payload
           = {SpecialistRun(specs, i).response : i \in DOMAIN specs}
      /\ story.lineage.inputs
           = {[compartment   |-> SpecialistRun(specs, i).compartment,
               accessAllowed |-> SpecialistRun(specs, i).access.allowed] :
                i \in DOMAIN specs}
  BY DEF Story, Envelope
<1>3. ASSUME NEW i \in DOMAIN specs, kept(i)
      PROVE  /\ SpecialistRun(specs, i).access.allowed = FALSE
             /\ SpecialistRun(specs, i).response.payload = "denial"
  BY <1>3 DEF SpecialistRun, Envelope
<1>4. ASSUME NEW i \in DOMAIN specs, kept(i)
      PROVE  [compartment   |-> specs[i].compartment,
              accessAllowed |-> TRUE] \notin story.lineage.inputs
  <2> SUFFICES ASSUME NEW j \in DOMAIN specs,
                 [compartment |-> specs[i].compartment, accessAllowed |-> TRUE]
                   = [compartment   |-> SpecialistRun(specs, j).compartment,
                      accessAllowed |-> SpecialistRun(specs, j).access.allowed]
               PROVE FALSE
    BY <1>2
  <2>1. /\ specs[i].compartment = specs[j].compartment
        /\ SpecialistRun(specs, j).access.allowed = TRUE
    BY <1>1
  <2>2. i = j
    BY <2>1 DEF OwnRoles
  <2> QED BY <1>3, <1>4, <2>1, <2>2
<1> QED
  <2> HIDE DEF story
  <2> SUFFICES DenialsHold(specs, story)
    BY DEF story
  <2> QED BY <1>1, <1>2, <1>3, <1>4 DEF DenialsHold

LEMMA PoliciesAgreeLemma ==
  ASSUME NEW specs PROVE PoliciesAgree(specs, Story(specs))
<1> SUFFICES ASSUME NEW i \in DOMAIN specs,
                    ~specs[i].allow_raw, specs[i].odrl_action = "read"
             PROVE  ~Story(specs).specialists[i].access.odrl_allowed
  BY DEF PoliciesAgree
<1>1. Story(specs).specialists[i].access.odrl_allowed
        = Allows(PolicyFor(specs[i]), specs[i].name, specs[i].odrl_action)
  BY DEF Story, SpecialistRun
<1>2. [action |-> "read", assignee |-> specs[i].name]
        \in PolicyFor(specs[i]).prohibitions
  BY DEF PolicyFor
<1> QED BY <1>1, <1>2 DEF Allows

\* The story is governed whatever its specialists are: the receipts stand under
\* the published policy, nobody may touch another one's compartment, and what
\* a policy keeps back contributes a denial only.
THEOREM StoryIsGoverned ==
  ASSUME NEW S, NEW specs \in Seq(S)
  PROVE  Governed(specs, Story(specs))
BY ReceiptsStandLemma, DenialsHoldLemma, PoliciesAgreeLemma DEF Governed
=============================================================================
