------------------------- MODULE LineageEmitProofs -------------------------
(***************************************************************************)
(* Proofs about the lineage sinks for any number of runs, any set of       *)
(* configurations, lines of any length and any number of faults.           *)
(***************************************************************************)
EXTENDS LineageEmit, FiniteSetTheorems, TLAPS

-----------------------------------------------------------------------------
(* The order of the sinks *)

LEMMA Order ==
  /\ Len(SinkOrder) = 5 /\ DOMAIN SinkOrder = 1..5
  /\ SinkOrder[1] = "log" /\ SinkOrder[2] = "post" /\ SinkOrder[3] = "events"
  /\ SinkOrder[4] = "attestations" /\ SinkOrder[5] = "ledger"
BY DEF SinkOrder

LEMMA Positions ==
  /\ \A i \in 1..5 : Position(SinkOrder[i]) = i
  /\ \A s \in Sinks : Position(s) \in 1..5 /\ SinkOrder[Position(s)] = s
<1>1. ASSUME NEW i \in 1..5 PROVE Position(SinkOrder[i]) = i
  <2>1. \A j \in 1..5 : SinkOrder[j] = SinkOrder[i] => j = i
    BY Order
  <2> QED BY <2>1, Order DEF Position
<1>2. ASSUME NEW s \in Sinks
      PROVE  Position(s) \in 1..5 /\ SinkOrder[Position(s)] = s
  <2>1. \E i \in 1..5 : SinkOrder[i] = s
    BY Order DEF Sinks, Files, SailTables
  <2> QED BY <2>1, Order DEF Position
<1> QED BY <1>1, <1>2

\* The next sink is configured, and those before it are not.
LEMMA NextSinkResult ==
  ASSUME NEW c, NEW i \in 1..6
  PROVE  /\ NextSink(c, i) \in i..6
         /\ NextSink(c, i) <= 5 => SinkOrder[NextSink(c, i)] \in c
         /\ \A k \in i..(NextSink(c, i) - 1) : SinkOrder[k] \notin c
<1> DEFINE P(j, k) == /\ j \in k..6
                      /\ j <= 5 => SinkOrder[j] \in c
                      /\ \A m \in k..(j - 1) : SinkOrder[m] \notin c
<1>1. P(6, 6)
  OBVIOUS
<1>2. ASSUME NEW k \in 1..5, \E j : P(j, k + 1) PROVE \E j : P(j, k)
  <2>1. CASE SinkOrder[k] \in c
    <3>1. P(k, k)
      BY <2>1
    <3> QED BY <3>1
  <2>2. CASE SinkOrder[k] \notin c
    <3>1. PICK j : P(j, k + 1)
      BY <1>2
    <3>2. \A m \in k..(j - 1) : m = k \/ m \in (k + 1)..(j - 1)
      BY <3>1
    <3>3. P(j, k)
      BY <2>2, <3>1, <3>2
    <3> QED BY <3>3
  <2> QED BY <2>1, <2>2
<1> HIDE DEF P
<1>3. \E j : P(j, i)
  <2>1. \E j : P(j, 6)
    BY <1>1
  <2>2. \E j : P(j, 5)
    BY <1>2, <2>1
  <2>3. \E j : P(j, 4)
    BY <1>2, <2>2
  <2>4. \E j : P(j, 3)
    BY <1>2, <2>3
  <2>5. \E j : P(j, 2)
    BY <1>2, <2>4
  <2>6. \E j : P(j, 1)
    BY <1>2, <2>5
  <2> QED BY <2>1, <2>2, <2>3, <2>4, <2>5, <2>6
<1>4. \E j \in i..6 : /\ j <= 5 => SinkOrder[j] \in c
                      /\ \A k \in i..(j - 1) : SinkOrder[k] \notin c
  BY <1>3 DEF P
<1> QED BY <1>4, Order DEF NextSink

LEMMA FirstStepResult ==
  ASSUME NEW i \in 1..6
  PROVE  /\ FirstStep(i) \in {"write", "post", "stage", "report"}
         /\ i \in {3, 4} => FirstStep(i) = "stage"
<1>1. CASE i = 6
  BY <1>1, Order DEF FirstStep
<1>2. CASE i \in {1, 5}
  BY <1>2, Order DEF FirstStep, Files, SailTables
<1>3. CASE i = 2
  BY <1>3, Order DEF FirstStep, Files, SailTables
<1>4. CASE i \in {3, 4}
  BY <1>4, Order DEF FirstStep, Files, SailTables
<1> QED BY <1>1, <1>2, <1>3, <1>4

-----------------------------------------------------------------------------
(* What a step does to its run, and what it adds *)

Steps == {"write", "post", "stage", "probe", "insert", "create", "report"}

\* A staged row is that of some run, and a row is only inserted into a table.
Staged(r) ==
  \A t \in SailTables :
    At(r, t) => /\ step[r] \in {"probe", "insert", "create"} => view[t] \in Runs
                /\ step[r] = "insert" => rows[t] # None

TypeInv ==
  /\ LTypeOK
  /\ rows = [t \in SailTables |-> rows[t]]
  /\ \A r \in Runs : Staged(r)

\* A step of r leaves the other runs alone, and every run well-typed.
OnlyRun(r) ==
  /\ status' \in [Runs -> {"new", "running", "done", "failed"}]
  /\ config' \in [Runs -> {{}} \union Configs]
  /\ at' \in [Runs -> 1..6]
  /\ step' \in [Runs -> Steps]
  /\ written' \in [Runs -> 0..Pieces]
  /\ \A u \in Runs \ {r} :
       /\ status'[u] = status[u] /\ config'[u] = config[u] /\ at'[u] = at[u]
       /\ step'[u] = step[u] /\ written'[u] = written[u]

RowsOf(t) == IF rows[t] = None THEN <<>> ELSE rows[t]

AddsRow(t) == rows' = [rows EXCEPT ![t] = Append(RowsOf(t), view[t])]

\* Run r sets out for its first sink.
Begins(r) ==
  /\ status[r] = "new" /\ status'[r] = "running"
  /\ Running = {} \/ overlap'
  /\ overlap => overlap'
  /\ config'[r] \in Configs
  /\ at'[r] = NextSink(config'[r], 1)
  /\ step'[r] = FirstStep(at'[r])
  /\ UNCHANGED <<file, posted, view, rows>>

\* The sink that r is at has the event.
Hands(r) ==
  /\ status[r] = "running" /\ UNCHANGED <<status, config, overlap>>
  /\ at[r] <= 5 /\ at'[r] = NextSink(config[r], at[r] + 1)
  /\ step'[r] = FirstStep(at'[r])
  /\ IF at[r] \in {3, 4}
     THEN /\ step[r] \in {"insert", "create"}
          /\ AddsRow(SinkOrder[at[r]])
          /\ UNCHANGED <<file, posted, view>>
     ELSE /\ UNCHANGED <<rows, view>>
          /\ IF at[r] = 2
             THEN posted' = posted \union {r} /\ UNCHANGED file
             ELSE /\ file' = [file EXCEPT ![SinkOrder[at[r]]] =
                                Append(@, [run |-> r, piece |-> Newline])]
                  /\ UNCHANGED posted

\* r stays at its sink, or ends there.
Stays(r) ==
  /\ status[r] = "running" /\ UNCHANGED <<config, at, overlap>>
  /\ \/ UNCHANGED status
     \/ status'[r] \in {"done", "failed"} /\ UNCHANGED step
  /\ \/ UNCHANGED file
     \/ /\ at[r] \in {1, 5}
        /\ \E k \in 1..Pieces :
             file' = [file EXCEPT ![SinkOrder[at[r]]] =
                        Append(@, [run |-> r, piece |-> k])]
  /\ posted' \in {posted, posted \union {r}}
  /\ \/ UNCHANGED <<rows, view>>
     \/ /\ at[r] \in {3, 4} /\ step[r] = "stage" /\ step'[r] = "probe"
        /\ view' = [view EXCEPT ![SinkOrder[at[r]]] = r] /\ UNCHANGED rows
     \/ /\ at[r] \in {3, 4} /\ step[r] \in {"insert", "create"}
        /\ status'[r] = "failed"
        /\ AddsRow(SinkOrder[at[r]]) /\ UNCHANGED view
  /\ \/ step'[r] = step[r]
     \/ step'[r] = "probe" /\ view'[SinkOrder[at[r]]] = r
     \/ step[r] = "probe" /\ step'[r] = "create"
     \/ /\ step[r] = "probe" /\ step'[r] = "insert" /\ at[r] \in {3, 4}
        /\ rows[SinkOrder[at[r]]] # None

\* Where a run stands after such a step.
LEMMA HandsMoves ==
  ASSUME NEW r, Hands(r)
  PROVE  /\ status[r] = "running" /\ at[r] <= 5
         /\ UNCHANGED <<status, config, overlap>>
         /\ at'[r] = NextSink(config[r], at[r] + 1)
BY DEF Hands

LEMMA StaysThere ==
  ASSUME NEW r, Stays(r)
  PROVE  /\ status[r] = "running" /\ UNCHANGED <<config, at, overlap>>
         /\ UNCHANGED status \/ status'[r] \in {"done", "failed"}
BY DEF Stays

LEMMA GoToResult ==
  ASSUME LTypeOK, NEW r \in Runs, NEW c, NEW i \in 1..6, GoTo(r, c, i)
  PROVE  /\ at' \in [Runs -> 1..6] /\ step' \in [Runs -> Steps]
         /\ written' \in [Runs -> 0..Pieces]
         /\ at'[r] = NextSink(c, i) /\ step'[r] = FirstStep(at'[r])
         /\ \A u \in Runs \ {r} : /\ at'[u] = at[u] /\ step'[u] = step[u]
                                  /\ written'[u] = written[u]
<1>1. NextSink(c, i) \in 1..6
  BY NextSinkResult
<1>2. FirstStep(NextSink(c, i)) \in Steps
  BY <1>1, FirstStepResult DEF Steps
<1>3. /\ at \in [Runs -> 1..6] /\ step \in [Runs -> Steps]
      /\ written \in [Runs -> 0..Pieces] /\ Pieces \in Nat
  BY Order, LineageAssumption DEF LTypeOK, Steps
<1> QED BY <1>1, <1>2, <1>3 DEF GoTo

LEMMA SinkDoneResult ==
  ASSUME LTypeOK, NEW r \in Runs, at[r] \in 1..5, SinkDone(r)
  PROVE  /\ OnlyRun(r) /\ UNCHANGED <<status, config>>
         /\ at'[r] = NextSink(config[r], at[r] + 1)
         /\ step'[r] = FirstStep(at'[r])
<1>1. at[r] + 1 \in 1..6
  OBVIOUS
<1>2. GoTo(r, config[r], at[r] + 1) /\ UNCHANGED <<status, config>>
  BY DEF SinkDone, run
<1> QED BY <1>1, <1>2, GoToResult DEF OnlyRun, LTypeOK

LEMMA FailResult ==
  ASSUME LTypeOK, NEW r \in Runs, Fail(r)
  PROVE  /\ OnlyRun(r) /\ status'[r] = "failed"
         /\ UNCHANGED <<config, at, step, written>>
BY Order DEF LTypeOK, Fail, OnlyRun, Steps

LEMMA ThenResult ==
  ASSUME LTypeOK, NEW r \in Runs, NEW s \in Steps, Then(r, s)
  PROVE  /\ OnlyRun(r) /\ step'[r] = s
         /\ UNCHANGED <<status, config, at, written>>
BY Order DEF LTypeOK, Then, OnlyRun, Steps, run

LEMMA AtResult ==
  ASSUME LTypeOK, NEW r \in Runs, NEW s \in Sinks, At(r, s)
  PROVE  /\ status[r] = "running" /\ at[r] \in 1..5 /\ SinkOrder[at[r]] = s
         /\ at[r] = Position(s)
         /\ s \in Files <=> at[r] \in {1, 5}
         /\ s \in SailTables <=> at[r] \in {3, 4}
         /\ s = "post" <=> at[r] = 2
<1>1. at[r] \in 1..5 /\ SinkOrder[at[r]] = s
  BY Order DEF At, LTypeOK
<1>2. s \in {"log", "ledger"} <=> at[r] \in {1, 5}
  BY <1>1, Order
<1>3. s \in {"events", "attestations"} <=> at[r] \in {3, 4}
  BY <1>1, Order
<1>4. s = "post" <=> at[r] = 2
  BY <1>1, Order
<1> QED BY <1>1, <1>2, <1>3, <1>4, Positions DEF At, Files, SailTables

LEMMA RowAdded ==
  ASSUME TypeInv, NEW r \in Runs, NEW t \in SailTables
  PROVE  /\ SailStep(r, t, "insert") /\ InsertView(t) => AddsRow(t)
         /\ rows[t] = None /\ rows' = [rows EXCEPT ![t] = <<view[t]>>] => AddsRow(t)
<1>1. ASSUME SailStep(r, t, "insert"), InsertView(t) PROVE AddsRow(t)
  <2>1. rows[t] # None
    BY <1>1 DEF TypeInv, Staged, SailStep
  <2> QED BY <1>1, <2>1 DEF InsertView, AddsRow, RowsOf
<1>2. ASSUME rows[t] = None, rows' = [rows EXCEPT ![t] = <<view[t]>>]
      PROVE  AddsRow(t)
  <2>1. Append(<<>>, view[t]) = <<view[t]>>
    OBVIOUS
  <2> QED BY <1>2, <2>1 DEF AddsRow, RowsOf
<1> QED BY <1>1, <1>2

LEMMA StepKinds ==
  ASSUME TypeInv, NEW r \in Runs, RunStep(r)
  PROVE  /\ OnlyRun(r) /\ faults' \in 0..MaxFaults /\ overlap' \in BOOLEAN
         /\ Begins(r) \/ Hands(r) \/ Stays(r)
<1> USE DEF TypeInv
<1>0. /\ faults \in 0..MaxFaults /\ MaxFaults \in Nat /\ overlap \in BOOLEAN
      /\ Files \subseteq Sinks /\ SailTables \subseteq Sinks /\ "post" \in Sinks
  BY LineageAssumption DEF LTypeOK, Sinks
<1>1. ASSUME NEW c \in Configs, Start(r, c)
      PROVE  /\ OnlyRun(r) /\ faults' \in 0..MaxFaults /\ overlap' \in BOOLEAN
             /\ Begins(r)
  <2>1. /\ at' \in [Runs -> 1..6] /\ step' \in [Runs -> Steps]
        /\ written' \in [Runs -> 0..Pieces]
        /\ at'[r] = NextSink(c, 1) /\ step'[r] = FirstStep(at'[r])
        /\ \A u \in Runs \ {r} : /\ at'[u] = at[u] /\ step'[u] = step[u]
                                 /\ written'[u] = written[u]
    BY <1>1, GoToResult DEF Start
  <2>2. OnlyRun(r) /\ config'[r] = c /\ status'[r] = "running"
    BY <1>1, <2>1 DEF Start, OnlyRun, LTypeOK
  <2>3. (Running = {} \/ overlap') /\ (overlap => overlap')
    BY <1>1 DEF Start
  <2>4. overlap' \in BOOLEAN
    BY <1>0, <1>1 DEF Start
  <2> QED BY <1>0, <1>1, <2>1, <2>2, <2>3, <2>4 DEF Start, Begins
<1>2. ASSUME NEW f \in Files, WritePiece(r, f)
      PROVE  OnlyRun(r) /\ Stays(r) /\ UNCHANGED <<faults, overlap>>
  <2>1. at[r] \in {1, 5} /\ SinkOrder[at[r]] = f /\ status[r] = "running"
    BY <1>0, <1>2, AtResult DEF WritePiece
  <2>2. written[r] + 1 \in 1..Pieces
    BY <1>2, LineageAssumption DEF WritePiece, LTypeOK
  <2>3. OnlyRun(r)
    BY <1>2, <2>2, Order DEF WritePiece, OnlyRun, LTypeOK, Steps, run
  <2> QED BY <1>2, <2>1, <2>2, <2>3 DEF WritePiece, Stays, run
<1>3. ASSUME NEW f \in Files, WriteNewline(r, f)
      PROVE  OnlyRun(r) /\ Hands(r) /\ UNCHANGED <<faults, overlap>>
  <2>1. /\ at[r] \in {1, 5} /\ SinkOrder[at[r]] = f /\ status[r] = "running"
    BY <1>0, <1>3, AtResult DEF WriteNewline
  <2> QED BY <1>3, <2>1, SinkDoneResult DEF WriteNewline, Hands
<1>4. ASSUME Post(r)
      PROVE  OnlyRun(r) /\ Hands(r) /\ UNCHANGED <<faults, overlap>>
  <2>1. at[r] = 2 /\ status[r] = "running"
    BY <1>0, <1>4, AtResult DEF Post
  <2> QED BY <1>4, <2>1, SinkDoneResult DEF Post, Hands
<1>5. ASSUME PostFails(r)
      PROVE  OnlyRun(r) /\ Stays(r) /\ faults' \in 0..MaxFaults /\ UNCHANGED overlap
  <2>1. status[r] = "running"
    BY <1>5 DEF PostFails, At
  <2> QED BY <1>0, <1>5, <2>1, FailResult DEF PostFails, Stays, Fault
<1>6. ASSUME NEW t \in SailTables, NEW s, SailStep(r, t, s)
      PROVE  /\ at[r] \in {3, 4} /\ SinkOrder[at[r]] = t
             /\ status[r] = "running" /\ step[r] = s
  BY <1>0, <1>6, AtResult DEF SailStep
<1>7. ASSUME NEW t \in SailTables, StageView(r, t)
      PROVE  OnlyRun(r) /\ Stays(r) /\ UNCHANGED <<faults, overlap>>
  <2>1. view'[t] = r
    BY <1>7 DEF StageView, LTypeOK
  <2>2. OnlyRun(r) /\ step'[r] = "probe" /\ UNCHANGED <<status, config, at>>
    BY <1>7, ThenResult DEF StageView, Steps
  <2> QED BY <1>6, <1>7, <2>1, <2>2 DEF StageView, Stays
<1>8. ASSUME NEW t \in SailTables, ProbeTable(r, t)
      PROVE  OnlyRun(r) /\ Stays(r) /\ UNCHANGED <<faults, overlap>>
  <2>1. CASE rows[t] = None
    BY <1>6, <1>8, <2>1, ThenResult DEF ProbeTable, Stays, Steps
  <2>2. CASE rows[t] # None
    BY <1>6, <1>8, <2>2, ThenResult DEF ProbeTable, Stays, Steps
  <2> QED BY <2>1, <2>2
<1>9. ASSUME NEW t \in SailTables, ProbeFails(r, t)
      PROVE  OnlyRun(r) /\ Stays(r) /\ faults' \in 0..MaxFaults /\ UNCHANGED overlap
  BY <1>0, <1>6, <1>9, ThenResult DEF ProbeFails, Stays, Steps, Fault
<1>10. ASSUME NEW t \in SailTables, InsertRow(r, t) \/ CreateTable(r, t)
       PROVE  OnlyRun(r) /\ Hands(r) /\ UNCHANGED <<faults, overlap>>
  <2>1. /\ at[r] \in {3, 4} /\ SinkOrder[at[r]] = t /\ status[r] = "running"
        /\ step[r] \in {"insert", "create"}
    BY <1>6, <1>10 DEF InsertRow, CreateTable
  <2>2. AddsRow(t)
    BY <1>10, RowAdded DEF InsertRow, CreateTable
  <2>3. /\ SinkDone(r) /\ UNCHANGED <<file, posted, view, overlap, faults>>
    BY <1>10 DEF InsertRow, CreateTable
  <2> QED BY <2>1, <2>2, <2>3, SinkDoneResult DEF Hands
<1>11. ASSUME NEW t \in SailTables, CreateRefused(r, t)
       PROVE  OnlyRun(r) /\ Stays(r) /\ UNCHANGED <<faults, overlap>>
  BY <1>6, <1>11, FailResult DEF CreateRefused, Stays
<1>12. ASSUME NEW t \in SailTables, AnswerLost(r, t)
       PROVE  OnlyRun(r) /\ Stays(r) /\ faults' \in 0..MaxFaults /\ UNCHANGED overlap
  <2>1. /\ at[r] \in {3, 4} /\ SinkOrder[at[r]] = t /\ status[r] = "running"
        /\ step[r] \in {"insert", "create"}
    BY <1>6, <1>12 DEF AnswerLost
  <2>2. AddsRow(t)
    BY <1>12, RowAdded DEF AnswerLost
  <2> QED BY <1>0, <1>12, <2>1, <2>2, FailResult DEF AnswerLost, Stays, Fault
<1>13. ASSUME PrintReport(r)
       PROVE  OnlyRun(r) /\ Stays(r) /\ UNCHANGED <<faults, overlap>>
  <2>1. OnlyRun(r) /\ status'[r] = "done"
    BY <1>13, Order DEF PrintReport, OnlyRun, LTypeOK, Steps
  <2> QED BY <1>13, <2>1 DEF PrintReport, Stays
<1>14. ASSUME Abort(r)
       PROVE  OnlyRun(r) /\ Stays(r) /\ faults' \in 0..MaxFaults /\ UNCHANGED overlap
  BY <1>0, <1>14, FailResult DEF Abort, Stays, Fault
<1> QED BY <1>0, <1>1, <1>2, <1>3, <1>4, <1>5, <1>7, <1>8, <1>9, <1>10, <1>11,
           <1>12, <1>13, <1>14 DEF RunStep

-----------------------------------------------------------------------------
(* Types *)

LEMMA TypeInit == Init => TypeInv
<1> SUFFICES ASSUME Init PROVE TypeInv
  OBVIOUS
<1>1. LTypeOK
  <2>1. 0 \in 0..MaxFaults /\ 0 \in 0..Pieces /\ 1 \in 1..(Len(SinkOrder) + 1)
    BY LineageAssumption, Order
  <2>2. file \in [Files -> Seq(Piece)]
    BY DEF Init
  <2>3. /\ config \in [Runs -> {{}} \union Configs]
        /\ status \in [Runs -> {"new", "running", "done", "failed"}]
        /\ at \in [Runs -> 1..(Len(SinkOrder) + 1)]
        /\ written \in [Runs -> 0..Pieces]
    BY <2>1 DEF Init
  <2> QED BY <2>1, <2>2, <2>3 DEF Init, LTypeOK
<1>2. \A r \in Runs : Staged(r)
  BY DEF Init, Staged, At
<1> QED BY <1>1, <1>2 DEF Init, TypeInv

\* The tables that a step adds to, and what they hold then.
LEMMA AddsRowType ==
  ASSUME TypeInv, NEW t \in SailTables, AddsRow(t), view[t] \in Runs
  PROVE  /\ rows' = [u \in SailTables |-> rows'[u]]
         /\ rows'[t] = Append(RowsOf(t), view[t])
         /\ RowsOf(t) \in Seq(Runs)
         /\ rows'[t] \in Seq(Runs) /\ rows'[t] # None
         /\ \A u \in SailTables \ {t} : rows'[u] = rows[u]
<1>1. RowsOf(t) \in Seq(Runs)
  BY DEF TypeInv, LTypeOK, RowsOf
<1>2. Append(RowsOf(t), view[t]) \in Seq(Runs)
  BY <1>1
<1>3. /\ rows' = [u \in SailTables |-> rows'[u]]
      /\ rows'[t] = Append(RowsOf(t), view[t])
      /\ \A u \in SailTables \ {t} : rows'[u] = rows[u]
  BY DEF TypeInv, AddsRow
<1> QED BY <1>1, <1>2, <1>3, LineageAssumption

LEMMA Places ==
  ASSUME NEW i \in 1..5
  PROVE  /\ i \in {1, 5} => SinkOrder[i] \in Files
         /\ i \in {3, 4} => SinkOrder[i] \in SailTables
BY Order DEF Files, SailTables

\* A run that adds a row has staged it.
LEMMA RowIsStaged ==
  ASSUME TypeInv, NEW r \in Runs, status[r] = "running", at[r] \in {3, 4},
         step[r] \in {"insert", "create"}
  PROVE  /\ SinkOrder[at[r]] \in SailTables /\ At(r, SinkOrder[at[r]])
         /\ view[SinkOrder[at[r]]] \in Runs
<1>1. SinkOrder[at[r]] \in SailTables /\ at[r] <= 5
  BY Places
<1>2. At(r, SinkOrder[at[r]])
  BY <1>1, Order DEF At
<1> QED BY <1>1, <1>2 DEF TypeInv, Staged

\* What the sinks have, they keep.
Grows ==
  /\ \A t \in SailTables : rows[t] # None => rows'[t] # None
  /\ posted \subseteq posted'
  /\ \A f \in Files : \A p : (\E j \in DOMAIN file[f] : file[f][j] = p)
                               => \E j \in DOMAIN file'[f] : file'[f][j] = p

LEMMA SharedType ==
  ASSUME TypeInv, NEW r \in Runs, Begins(r) \/ Hands(r) \/ Stays(r)
  PROVE  /\ file' \in [Files -> Seq(Piece)] /\ posted' \subseteq Runs
         /\ view' \in [SailTables -> {None} \union Runs]
         /\ rows' = [t \in SailTables |-> rows'[t]]
         /\ \A t \in SailTables : rows'[t] = None \/ rows'[t] \in Seq(Runs)
         /\ Grows
<1>0. /\ at[r] \in 1..6 /\ file \in [Files -> Seq(Piece)] /\ posted \subseteq Runs
      /\ view \in [SailTables -> {None} \union Runs]
      /\ rows = [t \in SailTables |-> rows[t]]
      /\ \A t \in SailTables : rows[t] = None \/ rows[t] \in Seq(Runs)
  BY Order DEF TypeInv, LTypeOK
<1>1. ASSUME UNCHANGED file
      PROVE  /\ file' \in [Files -> Seq(Piece)]
             /\ \A f \in Files : \A p : (\E j \in DOMAIN file[f] : file[f][j] = p)
                      => \E j \in DOMAIN file'[f] : file'[f][j] = p
  BY <1>0, <1>1
<1>2. ASSUME NEW f \in Files, NEW k \in 0..Pieces,
             file' = [file EXCEPT ![f] = Append(@, [run |-> r, piece |-> k])]
      PROVE  /\ file' \in [Files -> Seq(Piece)]
             /\ \A g \in Files : \A p : (\E j \in DOMAIN file[g] : file[g][j] = p)
                      => \E j \in DOMAIN file'[g] : file'[g][j] = p
  <2>1. [run |-> r, piece |-> k] \in Piece
    BY DEF Piece
  <2>2. file' \in [Files -> Seq(Piece)]
    BY <1>0, <1>2, <2>1
  <2>3. ASSUME NEW g \in Files, NEW j \in DOMAIN file[g]
        PROVE  j \in DOMAIN file'[g] /\ file'[g][j] = file[g][j]
    <3>1. file[g] \in Seq(Piece)
      BY <1>0
    <3>2. CASE g = f
      BY <1>0, <1>2, <2>1, <3>1, <3>2
    <3>3. CASE g # f
      BY <1>0, <1>2, <3>3
    <3> QED BY <3>2, <3>3
  <2> QED BY <2>2, <2>3
<1>3. ASSUME AddsRow(SinkOrder[at[r]]), status[r] = "running", at[r] \in {3, 4},
             step[r] \in {"insert", "create"}
      PROVE  /\ rows' = [t \in SailTables |-> rows'[t]]
             /\ \A t \in SailTables : rows'[t] = None \/ rows'[t] \in Seq(Runs)
             /\ \A t \in SailTables : rows[t] # None => rows'[t] # None
  BY <1>0, <1>3, RowIsStaged, AddsRowType
<1>4. 0 \in 0..Pieces /\ 1..Pieces \subseteq 0..Pieces
  BY LineageAssumption
<1>5. CASE Begins(r)
  BY <1>0, <1>1, <1>5 DEF Begins, Grows
<1>6. CASE Hands(r)
  <2>1. CASE at[r] \in {3, 4}
    BY <1>0, <1>1, <1>3, <1>6, <2>1 DEF Hands, Grows
  <2>2. CASE at[r] = 2
    BY <1>0, <1>1, <1>6, <2>2 DEF Hands, Grows
  <2>3. CASE at[r] \in {1, 5}
    <3>1. SinkOrder[at[r]] \in Files
      BY <2>3, Places
    <3>2. /\ file' = [file EXCEPT ![SinkOrder[at[r]]] =
                        Append(@, [run |-> r, piece |-> 0])]
          /\ UNCHANGED <<rows, view, posted>>
      BY <1>6, <2>3 DEF Hands, Newline
    <3>3. /\ file' \in [Files -> Seq(Piece)]
          /\ \A g \in Files : \A p : (\E j \in DOMAIN file[g] : file[g][j] = p)
                      => \E j \in DOMAIN file'[g] : file'[g][j] = p
      BY <1>2, <1>4, <3>1, <3>2
    <3> QED BY <1>0, <3>2, <3>3 DEF Grows
  <2> QED BY <1>0, <1>6, <2>1, <2>2, <2>3 DEF Hands
<1>7. CASE Stays(r)
  <2>1. /\ file' \in [Files -> Seq(Piece)]
        /\ \A f \in Files : \A p : (\E j \in DOMAIN file[f] : file[f][j] = p)
                      => \E j \in DOMAIN file'[f] : file'[f][j] = p
    <3>1. CASE UNCHANGED file
      BY <1>1, <3>1
    <3>2. CASE ~UNCHANGED file
      <4>1. PICK k \in 1..Pieces :
              /\ at[r] \in {1, 5}
              /\ file' = [file EXCEPT ![SinkOrder[at[r]]] =
                            Append(@, [run |-> r, piece |-> k])]
        BY <1>7, <3>2 DEF Stays
      <4>2. SinkOrder[at[r]] \in Files
        BY <4>1, Places
      <4> QED BY <1>2, <1>4, <4>1, <4>2
    <3> QED BY <3>1, <3>2
  <2>2. posted' \subseteq Runs /\ posted \subseteq posted'
    BY <1>0, <1>7 DEF Stays
  <2>3. view' \in [SailTables -> {None} \union Runs]
    BY <1>0, <1>7 DEF Stays
  <2>4. /\ rows' = [t \in SailTables |-> rows'[t]]
        /\ \A t \in SailTables : rows'[t] = None \/ rows'[t] \in Seq(Runs)
        /\ \A t \in SailTables : rows[t] # None => rows'[t] # None
    BY <1>0, <1>3, <1>7 DEF Stays
  <2> QED BY <2>1, <2>2, <2>3, <2>4 DEF Grows
<1> QED BY <1>5, <1>6, <1>7

LEMMA StagedStep ==
  ASSUME TypeInv, NEW r \in Runs, OnlyRun(r), Begins(r) \/ Hands(r) \/ Stays(r)
  PROVE  \A u \in Runs : Staged(u)'
<1>0. /\ \A u \in Runs : Staged(u) /\ at[u] \in 1..6 /\ at'[u] \in 1..6
      /\ \A t \in SailTables : rows[t] # None => rows'[t] # None
      /\ view \in [SailTables -> {None} \union Runs]
  BY SharedType, Order DEF TypeInv, LTypeOK, OnlyRun, Grows
<1>1. \A t \in SailTables : view'[t] = view[t] \/ view'[t] = r
  BY <1>0 DEF Begins, Hands, Stays
<1>2. ASSUME NEW u \in Runs \ {r} PROVE Staged(u)'
  <2>1. /\ status'[u] = status[u] /\ at'[u] = at[u] /\ step'[u] = step[u]
    BY DEF OnlyRun
  <2> QED BY <1>0, <1>1, <2>1 DEF Staged, At
<1>3. Staged(r)'
  <2>1. CASE Begins(r) \/ Hands(r)
    <3>1. step'[r] \notin {"probe", "insert", "create"}
      BY <1>0, <2>1, FirstStepResult DEF Begins, Hands
    <3> QED BY <3>1 DEF Staged
  <2>2. CASE Stays(r)
    <3> SUFFICES ASSUME NEW t \in SailTables, At(r, t)'
                 PROVE  /\ step'[r] \in {"probe", "insert", "create"} =>
                             view'[t] \in Runs
                        /\ step'[r] = "insert" => rows'[t] # None
      BY DEF Staged
    <3>1. at'[r] = at[r] /\ SinkOrder[at[r]] = t /\ status[r] = "running"
      BY <2>2 DEF Stays, At
    <3>2. At(r, t)
      BY <1>0, <2>2, <3>1 DEF Stays, At
    <3>3. CASE step'[r] = step[r]
      BY <1>0, <1>1, <3>2, <3>3 DEF Staged
    <3>4. CASE step'[r] # step[r]
      <4>1. \/ step'[r] = "probe" /\ view'[t] = r
            \/ step[r] = "probe" /\ step'[r] = "create"
            \/ /\ step[r] = "probe" /\ step'[r] = "insert"
               /\ rows[t] # None
        BY <2>2, <3>1, <3>4 DEF Stays
      <4> QED BY <1>0, <1>1, <3>2, <4>1 DEF Staged
    <3> QED BY <3>3, <3>4
  <2> QED BY <2>1, <2>2
<1> QED BY <1>2, <1>3

LEMMA TypeStep == TypeInv /\ [Next]_vars => TypeInv'
<1> SUFFICES ASSUME TypeInv, [Next]_vars PROVE TypeInv'
  OBVIOUS
<1>1. ASSUME NEW r \in Runs, RunStep(r) PROVE TypeInv'
  <2>1. LTypeOK'
    BY <1>1, StepKinds, SharedType, Order DEF LTypeOK, OnlyRun, Steps
  <2> QED BY <1>1, <2>1, StepKinds, SharedType, StagedStep DEF TypeInv
<1>2. CASE UNCHANGED vars
  BY <1>2 DEF vars, run, TypeInv, LTypeOK, Staged, At
<1> QED BY <1>1, <1>2 DEF Next

\* Whatever runs, configurations and failures: files are pieces of lines, tables
\* are rows of runs, and every run stands at a step of a sink.
THEOREM TypeCorrect == Spec => []LTypeOK
BY TypeInit, TypeStep, PTL DEF Spec, TypeInv

-----------------------------------------------------------------------------
(* The ledger comes last *)

\* A run that was started is at one of its sinks or past all of them.
Placed(r) ==
  /\ status[r] = "new" => config[r] = {} /\ at[r] = 1
  /\ status[r] # "new" => config[r] \in Configs
  /\ status[r] # "new" /\ at[r] <= 5 => SinkOrder[at[r]] \in config[r]

BasicInv == TypeInv /\ \A r \in Runs : Placed(r)

\* A sink accepts the event exactly when the run hands it over.
LEMMA AcceptedStep ==
  ASSUME BasicInv, NEW r \in Runs, OnlyRun(r),
         Begins(r) \/ Hands(r) \/ Stays(r), NEW s \in Sinks
  PROVE  /\ \A u \in Runs \ {r} : Accepted(u, s)' <=> Accepted(u, s)
         /\ Begins(r) => ~Accepted(r, s) /\ ~Accepted(r, s)'
         /\ Hands(r) => /\ at[r] \in 1..5 /\ SinkOrder[at[r]] \in config[r]
                        /\ Accepted(r, s)' <=>
                             Accepted(r, s) \/ s = SinkOrder[at[r]]
                        /\ ~Accepted(r, SinkOrder[at[r]])
         /\ Stays(r) => (Accepted(r, s)' <=> Accepted(r, s))
<1>0. /\ at[r] \in 1..6 /\ Placed(r)
      /\ Position(s) \in 1..5 /\ SinkOrder[Position(s)] = s
  BY Order, Positions DEF BasicInv, TypeInv, LTypeOK
<1>1. ASSUME NEW u \in Runs \ {r} PROVE Accepted(u, s)' <=> Accepted(u, s)
  BY DEF OnlyRun, Accepted
<1>2. ASSUME Begins(r) PROVE ~Accepted(r, s) /\ ~Accepted(r, s)'
  <2>1. ~Accepted(r, s)
    BY <1>0, <1>2 DEF Begins, Placed, Accepted
  <2>2. at'[r] \in 1..6 /\ \A k \in 1..(at'[r] - 1) : SinkOrder[k] \notin config'[r]
    BY <1>2, NextSinkResult DEF Begins
  <2>3. ASSUME s \in config'[r], at'[r] > Position(s) PROVE FALSE
    <3>1. Position(s) \in 1..(at'[r] - 1)
      BY <1>0, <2>2, <2>3
    <3> QED BY <1>0, <2>2, <2>3, <3>1
  <2> QED BY <2>1, <2>3 DEF Accepted
<1>3. ASSUME Hands(r)
      PROVE  /\ at[r] \in 1..5 /\ SinkOrder[at[r]] \in config[r]
             /\ Accepted(r, s)' <=> Accepted(r, s) \/ s = SinkOrder[at[r]]
             /\ ~Accepted(r, SinkOrder[at[r]])
  <2>1. /\ at[r] \in 1..5 /\ SinkOrder[at[r]] \in config[r]
        /\ config'[r] = config[r] /\ at[r] + 1 \in 1..6
    BY <1>0, <1>3, HandsMoves DEF Placed
  <2>2. /\ at'[r] \in (at[r] + 1)..6
        /\ \A k \in (at[r] + 1)..(at'[r] - 1) : SinkOrder[k] \notin config[r]
    BY <1>3, <2>1, NextSinkResult, HandsMoves
  <2>3. Position(SinkOrder[at[r]]) = at[r]
    BY <2>1, Positions
  <2>4. ASSUME s \in config[r], at'[r] > Position(s) PROVE Position(s) <= at[r]
    <3>1. ASSUME Position(s) > at[r] PROVE FALSE
      <4>1. Position(s) \in (at[r] + 1)..(at'[r] - 1)
        BY <1>0, <2>1, <2>2, <2>4, <3>1
      <4> QED BY <1>0, <2>2, <2>4, <4>1
    <3> QED BY <1>0, <2>1, <3>1
  <2>5. Position(s) = at[r] <=> s = SinkOrder[at[r]]
    BY <1>0, <2>3
  <2> QED BY <1>0, <2>1, <2>2, <2>3, <2>4, <2>5 DEF Accepted
<1>4. ASSUME Stays(r) PROVE Accepted(r, s)' <=> Accepted(r, s)
  BY <1>4 DEF Stays, Accepted
<1> QED BY <1>1, <1>2, <1>3, <1>4

LEMMA PlacedStep ==
  ASSUME BasicInv, NEW r \in Runs, OnlyRun(r), Begins(r) \/ Hands(r) \/ Stays(r)
  PROVE  \A u \in Runs : Placed(u)'
<1>1. ASSUME NEW u \in Runs \ {r} PROVE Placed(u)'
  BY DEF BasicInv, Placed, OnlyRun
<1>2. Placed(r) /\ at[r] \in 1..6
  BY Order DEF BasicInv, TypeInv, LTypeOK
<1>3. CASE Begins(r)
  <2>1. at'[r] <= 5 => SinkOrder[at'[r]] \in config'[r]
    BY <1>3, NextSinkResult DEF Begins
  <2> QED BY <1>1, <1>3, <2>1 DEF Begins, Placed
<1>4. CASE Hands(r)
  <2>1. at[r] + 1 \in 1..6
    BY <1>2, <1>4 DEF Hands
  <2>2. at'[r] <= 5 => SinkOrder[at'[r]] \in config[r]
    BY <1>4, <2>1, NextSinkResult DEF Hands
  <2> QED BY <1>1, <1>2, <1>4, <2>2 DEF Hands, Placed
<1>5. CASE Stays(r)
  <2>1. status'[r] # "new"
    BY <1>5 DEF Stays
  <2> QED BY <1>1, <1>2, <1>5, <2>1 DEF Stays, Placed
<1> QED BY <1>3, <1>4, <1>5

\* Every step of the specification, as one of the three kinds.
LEMMA StepOfRun ==
  ASSUME BasicInv, [Next]_vars
  PROVE  \/ UNCHANGED vars
         \/ \E r \in Runs : /\ RunStep(r) /\ OnlyRun(r) /\ Grows
                            /\ Begins(r) \/ Hands(r) \/ Stays(r)
<1>1. ASSUME NEW r \in Runs, RunStep(r)
      PROVE  /\ OnlyRun(r) /\ Grows
             /\ Begins(r) \/ Hands(r) \/ Stays(r)
  BY <1>1, StepKinds, SharedType DEF BasicInv
<1> QED BY <1>1 DEF Next

LEMMA BasicInvariant == Spec => []BasicInv
<1>1. Init => BasicInv
  BY TypeInit DEF Init, BasicInv, Placed
<1>2. BasicInv /\ [Next]_vars => BasicInv'
  <2> SUFFICES ASSUME BasicInv, [Next]_vars PROVE BasicInv'
    OBVIOUS
  <2>1. TypeInv'
    BY TypeStep DEF BasicInv
  <2>2. \A u \in Runs : Placed(u)'
    <3>1. CASE UNCHANGED vars
      BY <3>1 DEF BasicInv, vars, run, Placed
    <3> QED BY <3>1, StepOfRun, PlacedStep
  <2> QED BY <2>1, <2>2 DEF BasicInv
<1> QED BY <1>1, <1>2, PTL DEF Spec

\* The sink s, if it is not the ledger, has what run r handed to it.
Has(s, r) ==
  /\ s = "log" => \E j \in DOMAIN file["log"] :
                    file["log"][j] = [run |-> r, piece |-> Newline]
  /\ s = "post" => r \in posted
  /\ s \in SailTables => rows[s] # None

\* Sinks have what they accepted, and whoever is in the ledger is at it or past.
LedgerInv ==
  /\ \A r \in Runs : \A s \in Sinks : Accepted(r, s) => Has(s, r)
  /\ \A i \in DOMAIN file["ledger"] :
       LET r == file["ledger"][i].run
       IN  r \in Runs /\ at[r] >= 5 /\ status[r] # "new"

LEMMA HasGrows ==
  ASSUME Grows, NEW s \in Sinks, NEW r, Has(s, r)
  PROVE  Has(s, r)'
BY DEF Grows, Has, Files

LEMMA HandsOver ==
  ASSUME TypeInv, NEW r \in Runs, Hands(r), at[r] \in 1..5,
         NEW s \in Sinks, s = SinkOrder[at[r]]
  PROVE  Has(s, r)'
<1>0. file \in [Files -> Seq(Piece)] /\ "log" \in Files /\ posted \subseteq Runs
  BY DEF TypeInv, LTypeOK, Files
<1>1. CASE at[r] = 1
  <2> DEFINE nl == [run |-> r, piece |-> Newline]
  <2>1. s = "log" /\ file' = [file EXCEPT !["log"] = Append(@, nl)]
    BY <1>1, Order DEF Hands
  <2>2. 0 \in 0..Pieces
    BY LineageAssumption
  <2>3. file["log"] \in Seq(Piece) /\ nl \in Piece
    BY <1>0, <2>2 DEF Piece, Newline
  <2> HIDE DEF nl
  <2>4. file'["log"] = Append(file["log"], nl)
    BY <1>0, <2>1
  <2>5. /\ Len(file["log"]) + 1 \in DOMAIN file'["log"]
        /\ file'["log"][Len(file["log"]) + 1] = nl
    BY <2>3, <2>4
  <2>6. \E j \in DOMAIN file'["log"] : file'["log"][j] = nl
    BY <2>5
  <2> QED BY <2>1, <2>6 DEF Has, SailTables, nl, Newline
<1>2. CASE at[r] = 2
  <2>1. s = "post" /\ posted' = posted \union {r}
    BY <1>2, Order DEF Hands
  <2> QED BY <2>1 DEF Has, SailTables
<1>3. CASE at[r] \in {3, 4}
  <2>1. AddsRow(s) /\ s \in SailTables /\ s # "log" /\ s # "post"
    BY <1>3, Order DEF Hands, SailTables
  <2>2. view[s] \in Runs
    BY <1>3, RowIsStaged DEF Hands
  <2>3. rows'[s] # None
    BY <2>1, <2>2, AddsRowType
  <2> QED BY <2>1, <2>3 DEF Has
<1>4. CASE at[r] = 5
  <2>1. s = "ledger"
    BY <1>4, Order
  <2> QED BY <2>1 DEF Has, SailTables
<1> QED BY <1>1, <1>2, <1>3, <1>4

\* Only a run that is at the ledger writes to it.
LEMMA LedgerGrows ==
  ASSUME TypeInv, NEW r \in Runs, Begins(r) \/ Hands(r) \/ Stays(r)
  PROVE  \A i \in DOMAIN file'["ledger"] :
           \/ i \in DOMAIN file["ledger"] /\ file'["ledger"][i] = file["ledger"][i]
           \/ /\ at[r] = 5 /\ status[r] = "running"
              /\ file'["ledger"][i].run = r
<1>0. /\ file \in [Files -> Seq(Piece)] /\ "ledger" \in Files
      /\ file["ledger"] \in Seq(Piece) /\ at[r] \in 1..6
  BY Order DEF TypeInv, LTypeOK, Files
<1>1. ASSUME NEW k \in 0..Pieces, at[r] \in {1, 5}, status[r] = "running",
             file' = [file EXCEPT ![SinkOrder[at[r]]] =
                        Append(@, [run |-> r, piece |-> k])],
             NEW i \in DOMAIN file'["ledger"]
      PROVE  \/ i \in DOMAIN file["ledger"]
                  /\ file'["ledger"][i] = file["ledger"][i]
             \/ /\ at[r] = 5 /\ status[r] = "running"
                /\ file'["ledger"][i].run = r
  <2>1. CASE at[r] = 1
    BY <1>0, <1>1, <2>1, Order
  <2>2. CASE at[r] = 5
    <3>1. file'["ledger"] = Append(file["ledger"], [run |-> r, piece |-> k])
      BY <1>0, <1>1, <2>2, Order
    <3>2. [run |-> r, piece |-> k] \in Piece
      BY DEF Piece
    <3> QED BY <1>0, <1>1, <2>2, <3>1, <3>2
  <2> QED BY <1>1, <2>1, <2>2
<1>2. 0 \in 0..Pieces /\ 1..Pieces \subseteq 0..Pieces
  BY LineageAssumption
<1>3. \/ file' = file
      \/ /\ at[r] \in {1, 5} /\ status[r] = "running"
         /\ \E k \in 0..Pieces : file' = [file EXCEPT ![SinkOrder[at[r]]] =
                                            Append(@, [run |-> r, piece |-> k])]
  <2>1. CASE Begins(r)
    BY <2>1 DEF Begins
  <2>2. CASE Hands(r)
    <3>1. at[r] \in {1, 2, 3, 4, 5}
      BY <1>0, <2>2 DEF Hands
    <3> QED BY <1>2, <2>2, <3>1 DEF Hands, Newline
  <2>3. CASE Stays(r)
    BY <1>2, <2>3 DEF Stays
  <2> QED BY <2>1, <2>2, <2>3
<1> QED BY <1>1, <1>3

LEMMA LedgerStep == BasicInv /\ LedgerInv /\ [Next]_vars => LedgerInv'
<1> SUFFICES ASSUME BasicInv, LedgerInv, [Next]_vars PROVE LedgerInv'
  OBVIOUS
<1>1. CASE UNCHANGED vars
  BY <1>1 DEF vars, run, LedgerInv, Has, Accepted
<1>2. ASSUME NEW r \in Runs, OnlyRun(r), Grows,
             Begins(r) \/ Hands(r) \/ Stays(r)
      PROVE  LedgerInv'
  <2>1. ASSUME NEW u \in Runs, NEW s \in Sinks, Accepted(u, s)' PROVE Has(s, u)'
    <3>1. CASE Accepted(u, s)
      BY <1>2, <3>1, HasGrows DEF LedgerInv
    <3>2. CASE ~Accepted(u, s)
      <4>1. u = r /\ Hands(r) /\ s = SinkOrder[at[r]] /\ at[r] \in 1..5
        BY <1>2, <2>1, <3>2, AcceptedStep
      <4> QED BY <4>1, HandsOver DEF BasicInv
    <3> QED BY <3>1, <3>2
  <2>2. /\ \A u \in Runs : at[u] >= 5 /\ status[u] # "new" =>
             at'[u] >= 5 /\ status'[u] # "new"
    <3>1. \A u \in Runs : at[u] \in 1..6
      BY Order DEF BasicInv, TypeInv, LTypeOK
    <3>2. at[r] >= 5 /\ status[r] # "new" => at'[r] >= 5 /\ status'[r] # "new"
      <4>1. Hands(r) => at'[r] \in (at[r] + 1)..6
        <5>1. Hands(r) => at[r] + 1 \in 1..6
          BY <3>1, HandsMoves
        <5> QED BY <5>1, NextSinkResult, HandsMoves
      <4>2. CASE Begins(r)
        BY <4>2 DEF Begins
      <4>3. CASE Hands(r)
        BY <3>1, <4>1, <4>3, HandsMoves
      <4>4. CASE Stays(r)
        BY <4>4, StaysThere
      <4> QED BY <1>2, <4>2, <4>3, <4>4
    <3> QED BY <1>2, <3>2 DEF OnlyRun
  <2>3. ASSUME NEW i \in DOMAIN file'["ledger"]
        PROVE  LET u == file'["ledger"][i].run
               IN  u \in Runs /\ at'[u] >= 5 /\ status'[u] # "new"
    <3>1. CASE i \in DOMAIN file["ledger"] /\ file'["ledger"][i] = file["ledger"][i]
      BY <2>2, <3>1 DEF LedgerInv
    <3>2. CASE /\ at[r] = 5 /\ status[r] = "running"
               /\ file'["ledger"][i].run = r
      BY <2>2, <3>2
    <3> QED BY <1>2, <3>1, <3>2, LedgerGrows DEF BasicInv
  <2> QED BY <2>1, <2>3 DEF LedgerInv
<1> QED BY <1>1, <1>2, StepOfRun

\* For any configurations, overlaps and failures: a run that anchored its event
\* in the ledger had handed it to every other sink it was configured with.
THEOREM LedgerIsLast == Spec => []LedgerComesLast
<1>1. Init => LedgerInv
  BY DEF Init, LedgerInv, Accepted, Files
<1>2. BasicInv /\ LedgerInv => LedgerComesLast
  <2> SUFFICES ASSUME BasicInv, LedgerInv, NEW i \in DOMAIN file["ledger"]
               PROVE  LET r == file["ledger"][i].run
                      IN  \A s \in config[r] \ {"ledger"} : Has(s, r)
    BY DEF LedgerComesLast, Has, SailTables
  <2> DEFINE r == file["ledger"][i].run
  <2>1. r \in Runs /\ at[r] >= 5 /\ status[r] # "new"
    BY DEF LedgerInv
  <2>2. config[r] \subseteq Sinks
    BY <2>1, LineageAssumption DEF BasicInv, Placed
  <2>3. ASSUME NEW s \in config[r] \ {"ledger"} PROVE Accepted(r, s)
    <3>1. Position(s) \in 1..5 /\ SinkOrder[Position(s)] = s
      BY <2>2, Positions
    <3>2. Position(s) # 5
      BY <3>1, Order
    <3>3. at[r] \in 1..6
      BY <2>1, Order DEF BasicInv, TypeInv, LTypeOK
    <3> QED BY <2>1, <3>1, <3>2, <3>3 DEF Accepted
  <2> QED BY <2>1, <2>2, <2>3 DEF LedgerInv
<1> QED BY <1>1, <1>2, BasicInvariant, LedgerStep, PTL DEF Spec

-----------------------------------------------------------------------------
(* The rows of the audit tables *)

\* A table changes only by a row of its view, added by a run that is at it.
LEMMA RowsStep ==
  ASSUME TypeInv, NEW r \in Runs, Begins(r) \/ Hands(r) \/ Stays(r),
         NEW t \in SailTables
  PROVE  /\ RowsOf(t) \in Seq(Runs)
         /\ \/ RowsOf(t)' = RowsOf(t)
            \/ /\ status[r] = "running" /\ step[r] \in {"insert", "create"}
               /\ t = SinkOrder[at[r]] /\ at[r] \in {3, 4} /\ At(r, t)
               /\ view[t] \in Runs /\ RowsOf(t)' = Append(RowsOf(t), view[t])
               /\ Hands(r) \/ (Stays(r) /\ status'[r] = "failed")
         /\ Hands(r) /\ t = SinkOrder[at[r]] =>
              RowsOf(t)' = Append(RowsOf(t), view[t])
<1>1. RowsOf(t) \in Seq(Runs) /\ at[r] \in 1..6
  BY Order DEF TypeInv, LTypeOK, RowsOf
<1>2. ASSUME rows'[t] = rows[t] PROVE RowsOf(t)' = RowsOf(t)
  BY <1>2 DEF RowsOf
<1>3. ASSUME status[r] = "running", at[r] \in {3, 4},
             step[r] \in {"insert", "create"}, AddsRow(SinkOrder[at[r]])
      PROVE  /\ t # SinkOrder[at[r]] => rows'[t] = rows[t]
             /\ t = SinkOrder[at[r]] =>
                  /\ At(r, t) /\ view[t] \in Runs
                  /\ RowsOf(t)' = Append(RowsOf(t), view[t])
  <2> DEFINE s == SinkOrder[at[r]]
  <2>1. s \in SailTables /\ At(r, s) /\ view[s] \in Runs
    BY <1>3, RowIsStaged
  <2>2. /\ rows'[s] = Append(RowsOf(s), view[s]) /\ rows'[s] # None
        /\ \A u \in SailTables \ {s} : rows'[u] = rows[u]
    BY <1>3, <2>1, AddsRowType
  <2> QED BY <2>1, <2>2 DEF RowsOf
<1>4. CASE Begins(r)
  BY <1>1, <1>2, <1>4 DEF Begins, Hands
<1>5. CASE Hands(r)
  <2>1. CASE at[r] \in {3, 4}
    <3>1. /\ status[r] = "running" /\ step[r] \in {"insert", "create"}
          /\ AddsRow(SinkOrder[at[r]])
      BY <1>5, <2>1 DEF Hands
    <3>2. CASE t = SinkOrder[at[r]]
      BY <1>1, <1>3, <1>5, <2>1, <3>1, <3>2
    <3>3. CASE t # SinkOrder[at[r]]
      BY <1>1, <1>2, <1>3, <2>1, <3>1, <3>3
    <3> QED BY <3>2, <3>3
  <2>2. CASE at[r] \notin {3, 4}
    <3>1. t # SinkOrder[at[r]]
      BY <1>1, <1>5, <2>2, Order DEF Hands, SailTables
    <3> QED BY <1>1, <1>2, <1>5, <2>2, <3>1 DEF Hands
  <2> QED BY <2>1, <2>2
<1>6. CASE Stays(r)
  <2>1. ~Hands(r)
    <3>1. ASSUME Hands(r) PROVE FALSE
      <4>1. at'[r] \in (at[r] + 1)..6
        BY <1>1, <3>1, NextSinkResult, HandsMoves
      <4> QED BY <1>1, <1>6, <4>1, StaysThere
    <3> QED BY <3>1
  <2>2. CASE UNCHANGED rows
    BY <1>1, <1>2, <2>1, <2>2
  <2>3. CASE ~UNCHANGED rows
    <3>1. /\ status[r] = "running" /\ at[r] \in {3, 4} /\ status'[r] = "failed"
          /\ step[r] \in {"insert", "create"} /\ AddsRow(SinkOrder[at[r]])
      BY <1>6, <2>3 DEF Stays
    <3> QED BY <1>1, <1>2, <1>3, <1>6, <2>1, <3>1
  <2> QED BY <2>2, <2>3
<1> QED BY <1>4, <1>5, <1>6

\* The runs that a table told it has their row.
Takers(t) == {u \in Runs : Accepted(u, t)}

CountInv ==
  \A t \in SailTables : /\ IsFiniteSet(Takers(t))
                        /\ Cardinality(Takers(t)) <= Len(RowsOf(t))

LEMMA CountStep == BasicInv /\ CountInv /\ [Next]_vars => CountInv'
<1> SUFFICES ASSUME BasicInv, CountInv, [Next]_vars PROVE CountInv'
  OBVIOUS
<1>1. CASE UNCHANGED vars
  BY <1>1 DEF vars, run, CountInv, Takers, Accepted, RowsOf
<1>2. ASSUME NEW r \in Runs, OnlyRun(r), Begins(r) \/ Hands(r) \/ Stays(r),
             NEW t \in SailTables
      PROVE  /\ IsFiniteSet(Takers(t)')
             /\ Cardinality(Takers(t)') <= Len(RowsOf(t)')
  <2>0. t \in Sinks /\ TypeInv
    BY DEF Sinks, BasicInv
  <2>1. /\ RowsOf(t) \in Seq(Runs) /\ IsFiniteSet(Takers(t))
        /\ Cardinality(Takers(t)) \in Nat
        /\ Cardinality(Takers(t)) <= Len(RowsOf(t))
    BY <1>2, <2>0, RowsStep, FS_CardinalityType DEF CountInv
  <2>2. CASE Hands(r) /\ t = SinkOrder[at[r]]
    <3>1. Takers(t)' = Takers(t) \union {r} /\ r \notin Takers(t)
      BY <1>2, <2>0, <2>2, AcceptedStep DEF Takers
    <3>2. /\ IsFiniteSet(Takers(t)')
          /\ Cardinality(Takers(t)') = Cardinality(Takers(t)) + 1
      BY <2>1, <3>1, FS_AddElement
    <3>3. RowsOf(t)' = Append(RowsOf(t), view[t])
      BY <1>2, <2>0, <2>2, RowsStep
    <3>4. Len(RowsOf(t)') = Len(RowsOf(t)) + 1
      BY <2>1, <3>3
    <3> QED BY <2>1, <3>2, <3>4
  <2>3. CASE ~(Hands(r) /\ t = SinkOrder[at[r]])
    <3>1. Takers(t)' = Takers(t)
      BY <1>2, <2>0, <2>3, AcceptedStep DEF Takers
    <3>2. Len(RowsOf(t)') >= Len(RowsOf(t))
      <4>1. RowsOf(t)' = RowsOf(t) \/ RowsOf(t)' = Append(RowsOf(t), view[t])
        BY <1>2, <2>0, RowsStep
      <4> QED BY <2>1, <4>1
    <3> QED BY <2>1, <3>1, <3>2
  <2> QED BY <2>2, <2>3
<1> QED BY <1>1, <1>2, StepOfRun DEF CountInv

\* For any number of runs that race for a table, and any failures: a table has
\* at least as many rows as runs that appended one with success.
THEOREM AuditRowsKept == Spec => []AuditRowsCounted
<1>1. Init => CountInv
  <2> SUFFICES ASSUME Init, NEW t \in SailTables
               PROVE  /\ IsFiniteSet(Takers(t))
                      /\ Cardinality(Takers(t)) <= Len(RowsOf(t))
    BY DEF CountInv
  <2>1. Takers(t) = {} /\ RowsOf(t) = <<>>
    BY DEF Init, Takers, Accepted, RowsOf
  <2> QED BY <2>1, FS_EmptySet
<1>2. CountInv => AuditRowsCounted
  <2> SUFFICES ASSUME CountInv, NEW t \in SailTables
               PROVE  Cardinality(Takers(t)) <=
                        IF rows[t] = None THEN 0 ELSE Len(rows[t])
    BY DEF AuditRowsCounted, Takers
  <2>1. Len(RowsOf(t)) = IF rows[t] = None THEN 0 ELSE Len(rows[t])
    BY DEF RowsOf
  <2> QED BY <2>1 DEF CountInv
<1> QED BY <1>1, <1>2, BasicInvariant, CountStep, PTL DEF Spec

\* The rows of run u in table t.
Occ(t, u) == {i \in DOMAIN RowsOf(t) : RowsOf(t)[i] = u}

LEMMA OccurrencesAre ==
  ASSUME NEW t \in SailTables, NEW u
  PROVE  Occurrences(t, u) = Cardinality(Occ(t, u))
<1>1. CASE rows[t] = None
  <2>1. Occ(t, u) = {}
    BY <1>1 DEF Occ, RowsOf
  <2> QED BY <1>1, <2>1, FS_EmptySet DEF Occurrences
<1>2. CASE rows[t] # None
  BY <1>2 DEF Occurrences, Occ, RowsOf
<1> QED BY <1>1, <1>2

\* A row that is appended is one more of its run and none more of another.
LEMMA OccAppend ==
  ASSUME NEW t \in SailTables, RowsOf(t) \in Seq(Runs), NEW r \in Runs,
         RowsOf(t)' = Append(RowsOf(t), r), NEW u
  PROVE  Occ(t, u)' = IF u = r THEN Occ(t, u) \union {Len(RowsOf(t)) + 1}
                      ELSE Occ(t, u)
<1> DEFINE s == RowsOf(t)
           S == RowsOf(t)'
<1>1. /\ S \in Seq(Runs) /\ DOMAIN s = 1..Len(s) /\ DOMAIN S = 1..(Len(s) + 1)
      /\ \A i \in 1..Len(s) : S[i] = s[i]
      /\ S[Len(s) + 1] = r /\ Len(s) \in Nat
  OBVIOUS
<1>2. Occ(t, u)' = {i \in DOMAIN S : S[i] = u}
  BY DEF Occ
<1>3. Occ(t, u) = {i \in DOMAIN s : s[i] = u}
  BY DEF Occ
<1> HIDE DEF s, S
<1>4. DOMAIN S = DOMAIN s \union {Len(s) + 1} /\ Len(s) + 1 \notin DOMAIN s
  BY <1>1
<1>5. CASE u = r
  BY <1>1, <1>2, <1>3, <1>4, <1>5 DEF s
<1>6. CASE u # r
  BY <1>1, <1>2, <1>3, <1>4, <1>6 DEF s
<1> QED BY <1>5, <1>6

\* What is so as long as runs have not overlapped: at most one is under way,
\* the views are its own, and a row that is there is that of a run whose table
\* accepted it or that failed at the table.
Row(u, t) ==
  /\ Occ(t, u) = {} \/ \E i : Occ(t, u) = {i}
  /\ Accepted(u, t) => Occ(t, u) # {}
  /\ Occ(t, u) # {} =>
       /\ status[u] # "new" /\ t \in config[u] /\ at[u] >= Position(t)
       /\ at[u] = Position(t) => status[u] = "failed"

ExactInv ==
  ~overlap =>
    /\ \A q, u \in Running : q = u
    /\ \A u \in Runs : \A t \in SailTables :
         At(u, t) /\ step[u] \in {"probe", "insert", "create"} => view[t] = u
    /\ \A u \in Runs : \A t \in SailTables : Row(u, t)

LEMMA SoloStep ==
  ASSUME BasicInv, ExactInv, NEW r \in Runs, OnlyRun(r),
         Begins(r) \/ Hands(r) \/ Stays(r), ~overlap'
  PROVE  /\ ~overlap
         /\ \A q, u \in Running' : q = u
         /\ \A u \in Runs : \A t \in SailTables :
              At(u, t)' /\ step'[u] \in {"probe", "insert", "create"} =>
                view'[t] = u
<1>0. at[r] \in 1..6 /\ at'[r] \in 1..6 /\ TypeInv
      /\ view \in [SailTables -> {None} \union Runs]
  BY Order DEF BasicInv, TypeInv, LTypeOK, OnlyRun
<1>1. ~overlap /\ (Begins(r) => Running = {})
  <2>1. CASE Begins(r)
    BY <2>1 DEF Begins
  <2>2. CASE Hands(r) \/ Stays(r)
    <3>1. overlap' = overlap /\ status[r] = "running"
      BY <2>2, HandsMoves, StaysThere
    <3> QED BY <3>1 DEF Begins
  <2> QED BY <2>1, <2>2
<1>2. \A q \in Running' : q = r
  <2>1. \A q \in Running : q = r \/ Begins(r)
    BY <1>1 DEF ExactInv, Running, Hands, Stays
  <2> QED BY <1>1, <2>1 DEF OnlyRun, Running
<1>3. ASSUME NEW u \in Runs, NEW t \in SailTables, At(u, t)',
             step'[u] \in {"probe", "insert", "create"}
      PROVE  view'[t] = u
  <2>1. u = r
    BY <1>2, <1>3 DEF Running, At
  <2>2. CASE Begins(r) \/ Hands(r)
    BY <1>0, <1>3, <2>1, <2>2, FirstStepResult DEF Begins, Hands
  <2>3. CASE Stays(r)
    <3>1. at'[r] = at[r] /\ SinkOrder[at[r]] = t /\ At(r, t)
      BY <1>0, <1>3, <2>1, <2>3 DEF Stays, At
    <3>2. CASE step'[r] = step[r]
      <4>1. view[t] = r
        BY <1>1, <1>3, <2>1, <3>1, <3>2 DEF ExactInv
      <4> QED BY <1>0, <2>1, <2>3, <3>1, <4>1 DEF Stays
    <3>3. CASE step'[r] # step[r]
      <4>1. \/ view'[t] = r
            \/ step[r] = "probe" /\ step'[r] \in {"create", "insert"}
        BY <2>3, <3>1, <3>3 DEF Stays
      <4>2. step[r] = "probe" => view[t] = r
        BY <1>1, <3>1 DEF ExactInv
      <4> QED BY <1>0, <2>1, <2>3, <3>1, <4>1, <4>2 DEF Stays
    <3> QED BY <3>2, <3>3
  <2> QED BY <2>1, <2>2, <2>3
<1> QED BY <1>1, <1>2, <1>3

LEMMA RowStep ==
  ASSUME BasicInv, ExactInv, NEW r \in Runs, OnlyRun(r),
         Begins(r) \/ Hands(r) \/ Stays(r), ~overlap,
         NEW u \in Runs, NEW t \in SailTables
  PROVE  Row(u, t)'
<1>0. /\ t \in Sinks /\ TypeInv /\ Row(u, t) /\ RowsOf(t) \in Seq(Runs)
      /\ at[u] \in 1..6 /\ at[r] \in 1..6 /\ at'[u] \in 1..6
      /\ Position(t) \in 1..5 /\ SinkOrder[Position(t)] = t
  <2>1. t \in Sinks /\ TypeInv /\ Row(u, t)
    BY DEF BasicInv, ExactInv, Sinks
  <2>2. RowsOf(t) \in Seq(Runs)
    BY <2>1, RowsStep
  <2>3. at[u] \in 1..6 /\ at[r] \in 1..6 /\ at'[u] \in 1..6
    BY <2>1, Order DEF TypeInv, LTypeOK, OnlyRun
  <2> QED BY <2>1, <2>2, <2>3, Positions
<1>1. ASSUME NEW i \in Runs, Hands(i) PROVE at'[i] > at[i]
  <2>1. at[i] \in 1..6
    BY Order DEF BasicInv, TypeInv, LTypeOK
  <2>2. at[i] + 1 \in 1..6
    BY <1>1, <2>1, HandsMoves
  <2> QED BY <1>1, <2>1, <2>2, NextSinkResult, HandsMoves
\* A row that is there stays that of a run that has got so far.
<1>2. Occ(t, u) # {} =>
       /\ status'[u] # "new" /\ t \in config'[u] /\ at'[u] >= Position(t)
       /\ at'[u] = Position(t) => status'[u] = "failed"
  <2> SUFFICES ASSUME Occ(t, u) # {}
               PROVE  /\ status'[u] # "new" /\ t \in config'[u]
                      /\ at'[u] >= Position(t)
                      /\ at'[u] = Position(t) => status'[u] = "failed"
    OBVIOUS
  <2>1. /\ status[u] # "new" /\ t \in config[u] /\ at[u] >= Position(t)
        /\ at[u] = Position(t) => status[u] = "failed"
    BY <1>0 DEF Row
  <2>2. CASE u # r
    BY <2>1, <2>2 DEF OnlyRun
  <2>3. CASE u = r /\ Hands(r)
    BY <1>0, <1>1, <2>1, <2>3, HandsMoves
  <2>4. CASE u = r /\ Stays(r)
    BY <2>1, <2>4, StaysThere
  <2> QED BY <2>1, <2>2, <2>3, <2>4 DEF Begins
<1>3. CASE RowsOf(t)' = RowsOf(t)
  <2>1. Occ(t, u)' = Occ(t, u)
    BY <1>3 DEF Occ
  <2>2. Accepted(u, t)' => Accepted(u, t)
    <3>1. CASE u # r
      BY <1>0, <3>1, AcceptedStep
    <3>2. CASE u = r /\ Hands(r) /\ t = SinkOrder[at[r]]
      <4>1. /\ RowsOf(t)' = Append(RowsOf(t), view[t])
        BY <1>0, <3>2, RowsStep
      <4>2. view[t] \in Runs
        <5>1. at[r] \in {3, 4}
          <6>1. at[r] \in 1..5
            BY <1>0, <3>2, HandsMoves
          <6> QED BY <3>2, <6>1, Order DEF SailTables
        <5> QED BY <1>0, <3>2, <5>1, RowIsStaged DEF Hands
      <4> QED BY <1>0, <1>3, <4>1, <4>2
    <3>3. CASE u = r /\ ~(Hands(r) /\ t = SinkOrder[at[r]])
      BY <1>0, <3>3, AcceptedStep
    <3> QED BY <3>1, <3>2, <3>3
  <2> QED BY <1>0, <1>2, <2>1, <2>2 DEF Row
<1>4. CASE RowsOf(t)' # RowsOf(t)
  <2>1. /\ status[r] = "running" /\ t = SinkOrder[at[r]] /\ at[r] \in {3, 4}
        /\ At(r, t) /\ step[r] \in {"insert", "create"}
        /\ RowsOf(t)' = Append(RowsOf(t), view[t])
        /\ Hands(r) \/ (Stays(r) /\ status'[r] = "failed")
    BY <1>0, <1>4, RowsStep
  <2>2. view[t] = r
    BY <2>1 DEF ExactInv
  <2>3. Position(t) = at[r] /\ t \in config[r]
    BY <2>1, Positions DEF BasicInv, Placed
  <2>4. CASE u # r
    <3>1. Occ(t, u)' = Occ(t, u)
      BY <1>0, <2>1, <2>2, <2>4, OccAppend
    <3>2. Accepted(u, t)' <=> Accepted(u, t)
      BY <1>0, <2>4, AcceptedStep
    <3> QED BY <1>0, <1>2, <3>1, <3>2 DEF Row
  <2>5. CASE u = r
    <3>1. Occ(t, r) = {}
      BY <1>0, <2>1, <2>3, <2>5 DEF Row
    <3>2. Occ(t, r)' = {Len(RowsOf(t)) + 1}
      BY <1>0, <2>1, <2>2, <3>1, OccAppend
    <3>3. /\ status'[r] # "new" /\ t \in config'[r] /\ at'[r] >= Position(t)
          /\ at'[r] = Position(t) => status'[r] = "failed"
      <4>1. CASE Hands(r)
        <5>1. status'[r] = "running" /\ config'[r] = config[r]
          BY <2>1, <4>1 DEF Hands
        <5>2. at'[r] > at[r]
          BY <1>1, <4>1
        <5> QED BY <1>0, <2>3, <2>5, <5>1, <5>2
      <4>2. CASE Stays(r) /\ status'[r] = "failed"
        BY <1>0, <2>3, <4>2, StaysThere
      <4> QED BY <2>1, <4>1, <4>2
    <3> QED BY <2>5, <3>2, <3>3 DEF Row
  <2> QED BY <2>4, <2>5
<1> QED BY <1>3, <1>4

LEMMA ExactStep == BasicInv /\ ExactInv /\ [Next]_vars => ExactInv'
<1> SUFFICES ASSUME BasicInv, ExactInv, [Next]_vars PROVE ExactInv'
  OBVIOUS
<1>1. CASE UNCHANGED vars
  <2>1. /\ UNCHANGED <<status, config, at, step, view, rows, overlap>>
        /\ Running' = Running
    BY <1>1 DEF vars, run, Running
  <2>2. ASSUME NEW u \in Runs, NEW t \in SailTables
        PROVE  (At(u, t)' <=> At(u, t)) /\ (Row(u, t)' <=> Row(u, t))
    <3>1. Occ(t, u)' = Occ(t, u)
      BY <2>1 DEF Occ, RowsOf
    <3> QED BY <2>1, <3>1 DEF At, Row, Accepted
  <2> QED BY <2>1, <2>2 DEF ExactInv
<1>2. ASSUME NEW r \in Runs, OnlyRun(r), Begins(r) \/ Hands(r) \/ Stays(r)
      PROVE  ExactInv'
  <2> SUFFICES ASSUME ~overlap'
               PROVE  /\ \A q, u \in Running' : q = u
                      /\ \A u \in Runs : \A t \in SailTables :
                           At(u, t)' /\ step'[u] \in {"probe", "insert", "create"}
                             => view'[t] = u
                      /\ \A u \in Runs : \A t \in SailTables : Row(u, t)'
    BY DEF ExactInv
  <2> QED BY <1>2, SoloStep, RowStep
<1> QED BY <1>1, <1>2, StepOfRun

\* For any number of runs, one after the other, and any failures: an audit
\* table has the row of every run that appended it, once, and no attestation
\* without its event.
THEOREM AuditRowsOnce == Spec => []AuditRowsExact
<1>1. Init => ExactInv
  BY DEF Init, ExactInv, Running, At, Row, Occ, RowsOf, Accepted
<1>2. BasicInv /\ ExactInv => AuditRowsExact
  <2> SUFFICES ASSUME BasicInv, ExactInv, ~overlap, NEW r \in Runs
               PROVE  /\ \A t \in SailTables :
                           /\ Occurrences(t, r) <= 1
                           /\ Accepted(r, t) => Occurrences(t, r) = 1
                      /\ Occurrences("attestations", r) <= Occurrences("events", r)
    BY DEF AuditRowsExact
  <2>1. ASSUME NEW t \in SailTables
        PROVE  /\ Occurrences(t, r) \in {0, 1}
               /\ Occurrences(t, r) = 1 <=> Occ(t, r) # {}
               /\ Accepted(r, t) => Occurrences(t, r) = 1
    <3>1. Row(r, t)
      BY DEF ExactInv
    <3>2. CASE Occ(t, r) = {}
      BY <3>1, <3>2, OccurrencesAre, FS_EmptySet DEF Row
    <3>3. CASE Occ(t, r) # {}
      <4>1. PICK i : Occ(t, r) = {i}
        BY <3>1, <3>3 DEF Row
      <4>2. Occurrences(t, r) = 1
        BY <4>1, OccurrencesAre, FS_Singleton
      <4> QED BY <3>3, <4>2
    <3> QED BY <3>2, <3>3
  <2>2. "attestations" \in SailTables /\ "events" \in SailTables
    BY DEF SailTables
  <2>3. ASSUME Occ("attestations", r) # {} PROVE Accepted(r, "events")
    <3>1. /\ Row(r, "attestations") /\ at[r] \in 1..6
          /\ Position("attestations") = 4 /\ Position("events") = 3
      BY <2>2, Positions, Order DEF ExactInv, BasicInv, TypeInv, LTypeOK
    <3>2. /\ "attestations" \in config[r] /\ at[r] >= 4 /\ status[r] # "new"
      BY <2>3, <3>1 DEF Row
    <3>3. "events" \in config[r]
      BY <3>2, LineageAssumption DEF BasicInv, Placed
    <3> QED BY <3>1, <3>2, <3>3 DEF Accepted
  <2> QED BY <2>1, <2>2, <2>3
<1> QED BY <1>1, <1>2, BasicInvariant, ExactStep, PTL DEF Spec

-----------------------------------------------------------------------------
(* Torn lines *)

Unread(f)   == {u \in Runs : Accepted(u, f) /\ ~Readable(f, u)}
TornRuns(f) == {u \in Runs : Torn(u, f)}

\* w pieces of f belong to the line that is being written.
OpenLine(f, w) ==
  \/ \E u \in Runs : At(u, f) /\ w = written[u]
  \/ w = 0 /\ \A u \in Runs : ~At(u, f)

\* What follows the nth piece of f is no line of its own.
Spoilt(f, n) == n \in DOMAIN file[f] /\ file[f][n].piece # Newline

\* The end of f is what the run at it has written of its line.
Own(u, f) ==
  At(u, f) =>
    /\ written[u] <= Len(file[f])
    /\ \A k \in 1..written[u] :
         file[f][Len(file[f]) - written[u] + k] = [run |-> u, piece |-> k]

\* The unreadable lines were spoilt by as many torn ones, and one more torn line
\* is there to spoil the line that is being written.
Bounded(f) ==
  /\ IsFiniteSet(Unread(f)) /\ IsFiniteSet(TornRuns(f))
  /\ Cardinality(Unread(f)) <= Cardinality(TornRuns(f))
  /\ \A w \in 0..Pieces :
       OpenLine(f, w) /\ Spoilt(f, Len(file[f]) - w) =>
         Cardinality(Unread(f)) < Cardinality(TornRuns(f))

LinesInv ==
  ~overlap => \A f \in Files : Bounded(f) /\ \A u \in Runs : Own(u, f)

LEMMA AtIs ==
  ASSUME NEW u \in Runs, at[u] \in 1..6, at'[u] \in 1..6, NEW f \in Files
  PROVE  /\ At(u, f) <=> status[u] = "running" /\ at[u] = Position(f)
         /\ At(u, f)' <=> status'[u] = "running" /\ at'[u] = Position(f)
         /\ Position(f) \in 1..5
<1>1. f \in Sinks
  BY DEF Sinks
<1>2. Position(f) \in 1..5 /\ SinkOrder[Position(f)] = f
  BY <1>1, Positions
<1>3. \A i \in 1..5 : SinkOrder[i] = f => i = Position(f)
  BY Positions
<1>4. Len(SinkOrder) = 5
  BY Order
<1> QED BY <1>2, <1>3, <1>4 DEF At

LEMMA DoneIsHands ==
  ASSUME TypeInv, NEW r \in Runs, at[r] \in 1..5, status[r] = "running",
         SinkDone(r), Begins(r) \/ Hands(r) \/ Stays(r)
  PROVE  Hands(r) /\ written'[r] = 0 /\ at'[r] > at[r] /\ UNCHANGED status
<1>1. at'[r] = NextSink(config[r], at[r] + 1) /\ UNCHANGED status
  BY SinkDoneResult DEF TypeInv
<1>2. at'[r] \in (at[r] + 1)..6
  BY <1>1, NextSinkResult
<1>3. written'[r] = 0
  BY DEF SinkDone, GoTo, TypeInv, LTypeOK
<1>4. ~Stays(r)
  BY <1>2, StaysThere
<1>5. ~Begins(r)
  BY DEF Begins
<1> QED BY <1>1, <1>2, <1>3, <1>4, <1>5

\* The steps, as far as lines are concerned.
Arrives(r) ==
  /\ UNCHANGED file /\ written'[r] = 0
  /\ status[r] # "failed" /\ status'[r] = "running"
  /\ \A f \in Files : ~At(r, f)
  /\ Begins(r) \/ (Hands(r) /\ at[r] \in {2, 3, 4})

Remains(r) ==
  /\ UNCHANGED <<file, config, at, written>> /\ status[r] = "running"
  /\ status' = status \/ status'[r] = "failed"
       \/ (status'[r] = "done" /\ at[r] > 5)

LEMMA LineKinds ==
  ASSUME TypeInv, NEW r \in Runs, RunStep(r)
  PROVE  \/ \E f \in Files : WritePiece(r, f) \/ WriteNewline(r, f)
         \/ Arrives(r) \/ Remains(r)
<1>0. /\ Files \subseteq Sinks /\ SailTables \subseteq Sinks /\ "post" \in Sinks
      /\ LTypeOK /\ at[r] \in 1..6 /\ OnlyRun(r)
      /\ (Begins(r) \/ Hands(r) \/ Stays(r))
  BY StepKinds, Order DEF TypeInv, LTypeOK, Sinks
<1>1. ASSUME NEW c \in Configs, Start(r, c) PROVE Arrives(r)
  <2>1. /\ status[r] = "new" /\ UNCHANGED file
        /\ status' = [status EXCEPT ![r] = "running"] /\ GoTo(r, c, 1)
    BY <1>1 DEF Start
  <2>2. written'[r] = 0 /\ status'[r] = "running"
    BY <1>0, <2>1 DEF GoTo, LTypeOK
  <2>3. Begins(r)
    BY <1>0, <2>1 DEF Hands, Stays
  <2>4. \A f \in Files : ~At(r, f)
    BY <2>1 DEF At
  <2> QED BY <2>1, <2>2, <2>3, <2>4 DEF Arrives
<1>2. ASSUME NEW i \in {2, 3, 4}, at[r] = i, status[r] = "running", SinkDone(r),
             UNCHANGED file
      PROVE  Arrives(r)
  <2>1. Hands(r) /\ written'[r] = 0 /\ UNCHANGED status
    BY <1>0, <1>2, DoneIsHands
  <2>2. \A f \in Files : ~At(r, f)
    BY <1>0, <1>2, AtResult
  <2> QED BY <1>2, <2>1, <2>2 DEF Arrives
<1>3. CASE Post(r)
  <2>1. at[r] = 2 /\ status[r] = "running"
    BY <1>0, <1>3, AtResult DEF Post
  <2> QED BY <1>2, <1>3, <2>1 DEF Post
<1>4. ASSUME NEW t \in SailTables, NEW s, SailStep(r, t, s)
      PROVE  at[r] \in {3, 4} /\ status[r] = "running"
  BY <1>0, <1>4, AtResult DEF SailStep
<1>5. ASSUME NEW t \in SailTables, InsertRow(r, t) \/ CreateTable(r, t)
      PROVE  Arrives(r)
  <2>1. at[r] \in {3, 4} /\ status[r] = "running"
    BY <1>4, <1>5 DEF InsertRow, CreateTable
  <2> QED BY <1>2, <1>5, <2>1 DEF InsertRow, CreateTable
<1>6. ASSUME NEW t \in SailTables,
             StageView(r, t) \/ ProbeTable(r, t) \/ ProbeFails(r, t)
      PROVE  Remains(r)
  <2>1. status[r] = "running"
    BY <1>4, <1>6 DEF StageView, ProbeTable, ProbeFails
  <2> QED BY <1>6, <2>1 DEF StageView, ProbeTable, ProbeFails, Then, run,
             Remains
<1>7. ASSUME Fail(r), status[r] = "running", UNCHANGED file
      PROVE  Remains(r)
  BY <1>0, <1>7, FailResult DEF Remains
<1>8. CASE PostFails(r) \/ Abort(r)
  BY <1>7, <1>8 DEF PostFails, Abort, At
<1>9. ASSUME NEW t \in SailTables, CreateRefused(r, t) \/ AnswerLost(r, t)
      PROVE  Remains(r)
  <2>1. status[r] = "running"
    BY <1>4, <1>9 DEF CreateRefused, AnswerLost
  <2> QED BY <1>7, <1>9, <2>1 DEF CreateRefused, AnswerLost
<1>10. CASE PrintReport(r)
  <2>1. status'[r] = "done" /\ at[r] > 5
    BY <1>0, <1>10, Order DEF PrintReport, LTypeOK
  <2> QED BY <1>10, <2>1 DEF PrintReport, Remains
<1> QED BY <1>1, <1>3, <1>5, <1>6, <1>8, <1>9, <1>10 DEF RunStep

\* A line that is there stays there.
LEMMA AppendPiece ==
  ASSUME NEW f \in Files, file[f] \in Seq(Piece), NEW p \in Piece,
         file'[f] = Append(file[f], p)
  PROVE  /\ Len(file[f]) \in Nat /\ Len(file'[f]) = Len(file[f]) + 1
         /\ DOMAIN file[f] = 1..Len(file[f])
         /\ DOMAIN file'[f] = 1..(Len(file[f]) + 1)
         /\ \A i \in 1..Len(file[f]) : file'[f][i] = file[f][i]
         /\ file'[f][Len(file[f]) + 1] = p
         /\ \A u \in Runs : Readable(f, u) => Readable(f, u)'
<1>1. /\ Len(file[f]) \in Nat /\ Len(file'[f]) = Len(file[f]) + 1
      /\ DOMAIN file[f] = 1..Len(file[f])
      /\ DOMAIN file'[f] = 1..(Len(file[f]) + 1)
      /\ \A i \in 1..Len(file[f]) : file'[f][i] = file[f][i]
      /\ file'[f][Len(file[f]) + 1] = p
  OBVIOUS
<1>2. ASSUME NEW u \in Runs, Readable(f, u) PROVE Readable(f, u)'
  <2>1. PICK i \in DOMAIN file[f] :
          /\ i = 1 \/ file[f][i - 1].piece = Newline
          /\ i + Pieces <= Len(file[f])
          /\ file[f][i + Pieces].piece = Newline
          /\ \A k \in 1..Pieces :
               file[f][i + k - 1] = [run |-> u, piece |-> k]
    BY <1>2 DEF Readable
  <2>2. i \in 1..Len(file[f]) /\ i \in DOMAIN file'[f] /\ Pieces \in Nat
    BY <1>1, LineageAssumption
  <2>3. i = 1 \/ file'[f][i - 1].piece = Newline
    BY <1>1, <2>1, <2>2
  <2>4. i + Pieces <= Len(file'[f]) /\ i + Pieces \in 1..Len(file[f])
    BY <1>1, <2>1, <2>2
  <2>5. file'[f][i + Pieces].piece = Newline
    BY <1>1, <2>1, <2>4
  <2>6. \A k \in 1..Pieces : i + k - 1 \in 1..Len(file[f])
    BY <1>1, <2>1, <2>2
  <2>7. \A k \in 1..Pieces : file'[f][i + k - 1] = [run |-> u, piece |-> k]
    BY <1>1, <2>1, <2>6
  <2> QED BY <2>2, <2>3, <2>4, <2>5, <2>7 DEF Readable
<1> QED BY <1>1, <1>2

LEMMA UnreadStep ==
  ASSUME BasicInv, NEW r \in Runs, OnlyRun(r),
         Begins(r) \/ Hands(r) \/ Stays(r), NEW f \in Files
  PROVE  /\ ~(Hands(r) /\ f = SinkOrder[at[r]]) =>
              \A u \in Runs : Accepted(u, f)' <=> Accepted(u, f)
         /\ \A u \in Runs \ {r} : Accepted(u, f)' <=> Accepted(u, f)
<1>1. f \in Sinks
  BY DEF Sinks
<1> QED BY <1>1, AcceptedStep

\* Only a run that fails leaves a torn line.
LEMMA TornStep ==
  ASSUME NEW r \in Runs, OnlyRun(r), NEW f \in Files,
         status[r] # "failed", status'[r] # "failed"
  PROVE  TornRuns(f)' = TornRuns(f)
BY DEF TornRuns, Torn, OnlyRun

LEMMA CountsShrink ==
  ASSUME NEW f \in Files, Bounded(f), Unread(f)' \subseteq Unread(f),
         TornRuns(f)' = TornRuns(f)
  PROVE  /\ IsFiniteSet(Unread(f)') /\ IsFiniteSet(TornRuns(f)')
         /\ Cardinality(Unread(f)') \in Nat
         /\ Cardinality(Unread(f)) \in Nat
         /\ Cardinality(TornRuns(f)') \in Nat
         /\ Cardinality(Unread(f)') <= Cardinality(Unread(f))
         /\ Cardinality(TornRuns(f)') = Cardinality(TornRuns(f))
BY FS_Subset, FS_CardinalityType DEF Bounded

\* A file that is not written to.
LEMMA QuietFile ==
  ASSUME NEW f \in Files, Bounded(f), \A u \in Runs : Own(u, f),
         file'[f] = file[f], Len(file[f]) \in Nat,
         \A u \in Runs : Accepted(u, f)' <=> Accepted(u, f),
         TornRuns(f)' = TornRuns(f),
         \A w \in 0..Pieces : OpenLine(f, w)' => OpenLine(f, w),
         \A u \in Runs : At(u, f)' =>
           written'[u] = 0 \/ (At(u, f) /\ written'[u] = written[u])
  PROVE  Bounded(f)' /\ \A u \in Runs : Own(u, f)'
<1>1. \A u \in Runs : Readable(f, u)' <=> Readable(f, u)
  BY DEF Readable
<1>2. Unread(f)' = Unread(f)
  BY <1>1 DEF Unread
<1>3. Bounded(f)'
  <2>1. \A n : Spoilt(f, n)' <=> Spoilt(f, n)
    BY DEF Spoilt
  <2>2. /\ IsFiniteSet(Unread(f)') /\ IsFiniteSet(TornRuns(f)')
        /\ Cardinality(Unread(f)') <= Cardinality(TornRuns(f)')
    BY <1>2 DEF Bounded
  <2>3. ASSUME NEW w \in 0..Pieces, OpenLine(f, w)',
               Spoilt(f, Len(file[f]) - w)'
        PROVE  Cardinality(Unread(f)') < Cardinality(TornRuns(f)')
    BY <1>2, <2>1, <2>3 DEF Bounded
  <2> QED BY <2>2, <2>3 DEF Bounded
<1>4. ASSUME NEW u \in Runs PROVE Own(u, f)'
  <2>1. CASE ~At(u, f)'
    BY <2>1 DEF Own
  <2>2. CASE written'[u] = 0
    BY <2>2 DEF Own
  <2>3. CASE At(u, f) /\ written'[u] = written[u]
    BY <2>3 DEF Own
  <2> QED BY <2>1, <2>2, <2>3
<1> QED BY <1>3, <1>4

\* As long as runs have not overlapped, whoever is under way takes the step.
Solo(r) ==
  \A u \in Runs : (status[u] = "running" \/ status'[u] = "running") => u = r

LEMMA SoloIs ==
  ASSUME ExactInv, NEW r \in Runs, OnlyRun(r),
         Begins(r) \/ Hands(r) \/ Stays(r), ~overlap'
  PROVE  ~overlap /\ Solo(r)
<1>1. ~overlap
  BY DEF Begins, Hands, Stays
<1>2. ASSUME NEW u \in Runs, status[u] = "running" PROVE u = r
  <2>1. CASE Begins(r)
    BY <1>2, <2>1 DEF Begins, Running
  <2>2. CASE Hands(r) \/ Stays(r)
    <3>1. status[r] = "running"
      BY <2>2 DEF Hands, Stays
    <3> QED BY <1>1, <1>2, <3>1 DEF ExactInv, Running
  <2> QED BY <2>1, <2>2
<1>3. ASSUME NEW u \in Runs, status'[u] = "running" PROVE u = r
  BY <1>2, <1>3 DEF OnlyRun
<1> QED BY <1>1, <1>2, <1>3 DEF Solo

\* What is known of a file f and of the step of run r.
LineStep(r, f) ==
  /\ BasicInv /\ OnlyRun(r) /\ Solo(r)
  /\ Begins(r) \/ Hands(r) \/ Stays(r)
  /\ Bounded(f) /\ \A u \in Runs : Own(u, f)

LEMMA LineTypes ==
  ASSUME NEW r \in Runs, NEW f \in Files, LineStep(r, f)
  PROVE  /\ file[f] \in Seq(Piece) /\ Len(file[f]) \in Nat
         /\ TypeInv
         /\ \A u \in Runs : /\ at[u] \in 1..6 /\ at'[u] \in 1..6
                            /\ written[u] \in 0..Pieces
                            /\ written'[u] \in 0..Pieces
                            /\ At(u, f) => u = r
                            /\ At(u, f)' => u = r
         /\ file \in [Files -> Seq(Piece)]
<1>1. /\ TypeInv /\ file \in [Files -> Seq(Piece)] /\ file[f] \in Seq(Piece)
      /\ Len(file[f]) \in Nat
  BY DEF LineStep, BasicInv, TypeInv, LTypeOK
<1>2. \A u \in Runs : /\ at[u] \in 1..6 /\ at'[u] \in 1..6
                      /\ written[u] \in 0..Pieces /\ written'[u] \in 0..Pieces
  BY Order DEF LineStep, OnlyRun, BasicInv, TypeInv, LTypeOK
<1>3. ASSUME NEW u \in Runs
      PROVE  (At(u, f) => u = r) /\ (At(u, f)' => u = r)
  BY <1>2, AtIs DEF LineStep, Solo
<1> QED BY <1>1, <1>2, <1>3

LEMMA ArrivesLines ==
  ASSUME NEW r \in Runs, NEW f \in Files, LineStep(r, f), Arrives(r)
  PROVE  Bounded(f)' /\ \A u \in Runs : Own(u, f)'
<1>1. \A u \in Runs : ~At(u, f)
  BY LineTypes DEF Arrives
<1>2. ASSUME NEW w \in 0..Pieces, OpenLine(f, w)' PROVE OpenLine(f, w)
  <2>1. w = 0
    BY <1>2, LineTypes DEF OpenLine, Arrives
  <2> QED BY <1>1, <2>1 DEF OpenLine
<1>3. ~(Hands(r) /\ f = SinkOrder[at[r]])
  <2>1. CASE Begins(r)
    BY <2>1 DEF Begins, Hands
  <2>2. CASE at[r] \in {2, 3, 4}
    BY <2>2, Order DEF Files
  <2> QED BY <2>1, <2>2 DEF Arrives
<1>4. \A u \in Runs : Accepted(u, f)' <=> Accepted(u, f)
  BY <1>3, UnreadStep DEF LineStep
<1>5. TornRuns(f)' = TornRuns(f)
  BY TornStep DEF LineStep, Arrives
<1>6. \A u \in Runs : At(u, f)' => written'[u] = 0
  BY LineTypes DEF Arrives
<1>7. file'[f] = file[f] /\ Len(file[f]) \in Nat
  BY LineTypes DEF Arrives
<1> QED BY <1>2, <1>4, <1>5, <1>6, <1>7, QuietFile DEF LineStep

\* The run fails within a line: one torn line more.
LEMMA TearsLine ==
  ASSUME NEW r \in Runs, NEW f \in Files, LineStep(r, f), Remains(r),
         status'[r] = "failed", At(r, f), written[r] > 0
  PROVE  Bounded(f)' /\ \A u \in Runs : Own(u, f)'
<1>1. status[r] = "running" /\ at[r] = Position(f) /\ f \in config[r]
  <2>1. status[r] = "running" /\ at[r] = Position(f) /\ at[r] <= 5
    BY LineTypes, AtIs
  <2>2. SinkOrder[at[r]] = f
    BY DEF At
  <2> QED BY <2>1, <2>2 DEF LineStep, BasicInv, Placed
<1>2. TornRuns(f)' = TornRuns(f) \union {r} /\ r \notin TornRuns(f)
  <2>1. Torn(r, f)' /\ ~Torn(r, f)
    BY <1>1 DEF Torn, Remains
  <2>2. \A u \in Runs \ {r} : Torn(u, f)' <=> Torn(u, f)
    BY DEF Torn, LineStep, OnlyRun
  <2> QED BY <2>1, <2>2 DEF TornRuns
<1>3. Unread(f)' = Unread(f)
  BY DEF Unread, Readable, Accepted, Remains
<1>4. /\ IsFiniteSet(TornRuns(f)') /\ IsFiniteSet(Unread(f)')
      /\ Cardinality(TornRuns(f)') = Cardinality(TornRuns(f)) + 1
      /\ Cardinality(TornRuns(f)) \in Nat
      /\ Cardinality(Unread(f)') \in Nat
      /\ Cardinality(Unread(f)') <= Cardinality(TornRuns(f))
  BY <1>2, <1>3, FS_AddElement, FS_CardinalityType DEF LineStep, Bounded
<1>5. Bounded(f)'
  BY <1>4 DEF Bounded
<1>6. \A u \in Runs : ~At(u, f)'
  BY LineTypes DEF At
<1> QED BY <1>5, <1>6 DEF Own

LEMMA RemainsLines ==
  ASSUME NEW r \in Runs, NEW f \in Files, LineStep(r, f), Remains(r)
  PROVE  Bounded(f)' /\ \A u \in Runs : Own(u, f)'
<1>1. file'[f] = file[f] /\ Len(file[f]) \in Nat
  BY LineTypes DEF Remains
<1>2. \A u \in Runs : Accepted(u, f)' <=> Accepted(u, f)
  BY DEF Accepted, Remains
<1>3. \A u \in Runs : At(u, f)' => At(u, f) /\ written'[u] = written[u]
  BY LineTypes DEF At, Remains
<1>4. ASSUME TornRuns(f)' = TornRuns(f),
             \A w \in 0..Pieces : OpenLine(f, w)' => OpenLine(f, w)
      PROVE  Bounded(f)' /\ \A u \in Runs : Own(u, f)'
  BY <1>1, <1>2, <1>3, <1>4, QuietFile DEF LineStep
<1>5. CASE status' = status
  <2>1. TornRuns(f)' = TornRuns(f)
    BY <1>5, TornStep DEF LineStep, Remains
  <2>2. \A w \in 0..Pieces : OpenLine(f, w)' => OpenLine(f, w)
    BY <1>5 DEF OpenLine, At, Remains
  <2> QED BY <1>4, <2>1, <2>2
<1>6. ASSUME status'[r] # "running", At(r, f) => written[r] = 0,
             NEW w \in 0..Pieces, OpenLine(f, w)'
      PROVE  OpenLine(f, w)
  <2>1. w = 0
    BY <1>6, LineTypes DEF OpenLine, At
  <2>2. CASE At(r, f)
    BY <1>6, <2>1, <2>2 DEF OpenLine
  <2>3. CASE ~At(r, f)
    BY <2>1, <2>3, LineTypes DEF OpenLine
  <2> QED BY <2>2, <2>3
<1>7. CASE status'[r] = "done" /\ at[r] > 5
  <2>1. TornRuns(f)' = TornRuns(f)
    BY <1>7, TornStep DEF LineStep, Remains
  <2>2. ~At(r, f)
    <3>1. at[r] # Position(f)
      BY <1>7, LineTypes, AtIs
    <3> QED BY <3>1, LineTypes, AtIs
  <2> QED BY <1>4, <1>6, <1>7, <2>1, <2>2
<1>8. CASE status'[r] = "failed" /\ ~(At(r, f) /\ written[r] > 0)
  <2>1. ~Torn(r, f) /\ ~Torn(r, f)'
    BY <1>8, LineTypes, AtIs DEF Torn, Remains
  <2>2. TornRuns(f)' = TornRuns(f)
    BY <2>1 DEF TornRuns, Torn, LineStep, OnlyRun
  <2>3. At(r, f) => written[r] = 0
    BY <1>8, LineTypes, LineageAssumption
  <2> QED BY <1>4, <1>6, <1>8, <2>2, <2>3
<1> QED BY <1>5, <1>7, <1>8, TearsLine DEF Remains

\* A piece of a line is appended to g.
LEMMA PieceLines ==
  ASSUME NEW r \in Runs, NEW f \in Files, LineStep(r, f),
         NEW g \in Files, WritePiece(r, g)
  PROVE  Bounded(f)' /\ \A u \in Runs : Own(u, f)'
<1> DEFINE n == Len(file[f])
           w == written[r]
<1>1. /\ UNCHANGED <<status, config, at>> /\ At(r, g) /\ w < Pieces
      /\ written' = [written EXCEPT ![r] = w + 1]
      /\ file' = [file EXCEPT ![g] = Append(@, [run |-> r, piece |-> w + 1])]
  BY DEF WritePiece, run
<1>2. /\ \A u \in Runs : Accepted(u, f)' <=> Accepted(u, f)
      /\ \A u \in Runs : At(u, f)' <=> At(u, f)
  BY <1>1 DEF Accepted, At
<1>3. status[r] = "running" /\ at[r] = Position(g) /\ SinkOrder[at[r]] = g
  BY <1>1, LineTypes, AtIs DEF At
<1>4. TornRuns(f)' = TornRuns(f)
  BY <1>1, <1>3, TornStep DEF LineStep
<1>5. written'[r] = w + 1 /\ w \in Nat /\ n \in Nat /\ Pieces \in Nat
  BY <1>1, LineTypes, LineageAssumption DEF LineStep, BasicInv, TypeInv,
     LTypeOK
<1>6. CASE f # g
  <2>1. file'[f] = file[f]
    BY <1>1, <1>6, LineTypes
  <2>2. \A u \in Runs : ~At(u, f)
    BY <1>3, <1>6, LineTypes DEF At
  <2>3. \A v \in 0..Pieces : OpenLine(f, v)' => OpenLine(f, v)
    BY <1>2, <2>2 DEF OpenLine
  <2> QED BY <1>2, <1>4, <1>5, <2>1, <2>2, <2>3, QuietFile DEF LineStep
<1>7. CASE f = g
  <2> DEFINE p == [run |-> r, piece |-> w + 1]
  <2>1. p \in Piece /\ file[f] \in Seq(Piece)
    BY <1>1, <1>5, LineTypes DEF Piece
  <2>2. file'[f] = Append(file[f], p)
    BY <1>1, <1>7, LineTypes
  <2> HIDE DEF p
  <2>3. /\ Len(file'[f]) = n + 1
        /\ DOMAIN file[f] = 1..n /\ DOMAIN file'[f] = 1..(n + 1)
        /\ \A i \in 1..n : file'[f][i] = file[f][i]
        /\ file'[f][n + 1] = p
        /\ \A u \in Runs : Readable(f, u) => Readable(f, u)'
    BY <2>1, <2>2, AppendPiece
  <2>4. /\ w =< n
        /\ \A k \in 1..w : file[f][n - w + k] = [run |-> r, piece |-> k]
    BY <1>1, <1>7 DEF LineStep, Own
  <2>5. Unread(f)' \subseteq Unread(f)
    BY <1>2, <2>3 DEF Unread
  <2>6. /\ IsFiniteSet(Unread(f)') /\ IsFiniteSet(TornRuns(f)')
        /\ Cardinality(Unread(f)') \in Nat
        /\ Cardinality(Unread(f)) \in Nat
        /\ Cardinality(TornRuns(f)') \in Nat
        /\ Cardinality(Unread(f)') <= Cardinality(Unread(f))
        /\ Cardinality(TornRuns(f)') = Cardinality(TornRuns(f))
    BY <1>4, <2>5, CountsShrink DEF LineStep
  <2>7. ASSUME NEW v \in 0..Pieces, OpenLine(f, v)',
               Spoilt(f, Len(file[f]) - v)'
        PROVE  Cardinality(Unread(f)') < Cardinality(TornRuns(f)')
    <3>1. v = w + 1
      BY <1>1, <1>2, <1>5, <1>7, <2>7, LineTypes DEF OpenLine
    <3>2. (n + 1) - v = n - w
      BY <1>5, <3>1
    <3>3. n - w \in 1..(n + 1) /\ file'[f][n - w].piece # Newline
      BY <2>3, <2>7, <3>2 DEF Spoilt
    <3>4. n - w \in 1..n
      BY <1>5, <3>3
    <3>5. Spoilt(f, n - w)
      BY <2>3, <3>3, <3>4 DEF Spoilt
    <3>6. OpenLine(f, w) /\ w \in 0..Pieces
      BY <1>1, <1>5, <1>7 DEF OpenLine
    <3>7. Cardinality(Unread(f)) < Cardinality(TornRuns(f))
      BY <3>5, <3>6 DEF LineStep, Bounded
    <3> QED BY <2>6, <3>7
  <2>8. Bounded(f)'
    <3>1. Cardinality(Unread(f)) <= Cardinality(TornRuns(f))
      BY DEF LineStep, Bounded
    <3>2. Cardinality(Unread(f)') <= Cardinality(TornRuns(f)')
      BY <2>6, <3>1
    <3> QED BY <2>6, <2>7, <3>2 DEF Bounded
  <2>9. ASSUME NEW u \in Runs PROVE Own(u, f)'
    <3>1. SUFFICES ASSUME u = r
                   PROVE  /\ w + 1 =< n + 1
                          /\ \A k \in 1..(w + 1) :
                               file'[f][(n + 1) - (w + 1) + k]
                                 = [run |-> r, piece |-> k]
      BY <1>5, <2>3, LineTypes DEF Own
    <3>2. ASSUME NEW k \in 1..(w + 1)
          PROVE  file'[f][(n + 1) - (w + 1) + k] = [run |-> r, piece |-> k]
      <4>1. (n + 1) - (w + 1) + k = n - w + k
        BY <1>5
      <4>2. CASE k \in 1..w
        <5>1. n - w + k \in 1..n
          BY <1>5, <2>4, <4>2
        <5> QED BY <2>3, <2>4, <4>1, <4>2, <5>1
      <4>3. CASE k = w + 1
        <5>1. n - w + k = n + 1
          BY <1>5, <4>3
        <5> QED BY <2>3, <4>1, <4>3, <5>1 DEF p
      <4> QED BY <1>5, <4>2, <4>3
    <3> QED BY <1>5, <2>4, <3>2
  <2> QED BY <2>8, <2>9
<1> QED BY <1>6, <1>7

\* The line of g is ended, and readable if nothing came before it on its line.
LEMMA NewlineLines ==
  ASSUME NEW r \in Runs, NEW f \in Files, LineStep(r, f),
         NEW g \in Files, WriteNewline(r, g)
  PROVE  Bounded(f)' /\ \A u \in Runs : Own(u, f)'
<1> DEFINE n == Len(file[f])
<1>1. /\ At(r, g) /\ written[r] = Pieces /\ SinkDone(r)
      /\ file' = [file EXCEPT ![g] = Append(@, [run |-> r, piece |-> Newline])]
  BY DEF WriteNewline
<1>2. /\ status[r] = "running" /\ at[r] = Position(g) /\ SinkOrder[at[r]] = g
      /\ at[r] \in 1..5
  BY <1>1, LineTypes, AtIs DEF At
<1>3. /\ Hands(r) /\ written'[r] = 0 /\ at'[r] > at[r]
      /\ UNCHANGED status
  BY <1>1, <1>2, LineTypes, DoneIsHands DEF LineStep
<1>4. TornRuns(f)' = TornRuns(f)
  BY <1>2, <1>3, TornStep DEF LineStep
<1>5. n \in Nat /\ Pieces \in Nat \ {0}
  BY LineTypes, LineageAssumption
<1>6. \A u \in Runs : At(u, f)' => written'[u] = 0
  BY <1>3, LineTypes
<1>7. CASE f # g
  <2>1. file'[f] = file[f]
    BY <1>1, <1>7, LineTypes
  <2>2. \A u \in Runs : ~At(u, f)
    BY <1>2, <1>7, LineTypes DEF At
  <2>3. \A v \in 0..Pieces : OpenLine(f, v)' => OpenLine(f, v)
    BY <1>6, <2>2 DEF OpenLine
  <2>4. \A u \in Runs : Accepted(u, f)' <=> Accepted(u, f)
    BY <1>2, <1>7, UnreadStep DEF LineStep
  <2> QED BY <1>4, <1>5, <1>6, <2>1, <2>3, <2>4, QuietFile DEF LineStep
<1>8. CASE f = g
  <2> DEFINE p == [run |-> r, piece |-> Newline]
  <2>1. p \in Piece /\ file[f] \in Seq(Piece) /\ p.piece = Newline
    <3>1. Newline \in 0..Pieces
      BY <1>5 DEF Newline
    <3>2. p \in Piece
      BY <3>1 DEF Piece
    <3> QED BY <3>2, LineTypes
  <2>2. file'[f] = Append(file[f], p)
    BY <1>1, <1>8, LineTypes
  <2> HIDE DEF p
  <2>3. /\ Len(file'[f]) = n + 1
        /\ DOMAIN file[f] = 1..n /\ DOMAIN file'[f] = 1..(n + 1)
        /\ \A i \in 1..n : file'[f][i] = file[f][i]
        /\ file'[f][n + 1] = p
        /\ \A u \in Runs : Readable(f, u) => Readable(f, u)'
    BY <2>1, <2>2, AppendPiece
  <2>4. /\ Pieces =< n
        /\ \A k \in 1..Pieces :
             file[f][n - Pieces + k] = [run |-> r, piece |-> k]
    BY <1>1, <1>8 DEF LineStep, Own
  <2>5. Unread(f)' \subseteq Unread(f) \union {r}
    <3>1. \A u \in Runs \ {r} : Accepted(u, f)' <=> Accepted(u, f)
      BY UnreadStep DEF LineStep
    <3> QED BY <2>3, <3>1 DEF Unread
  <2>6. ASSUME ~Spoilt(f, n - Pieces) PROVE Unread(f)' \subseteq Unread(f)
    <3> DEFINE i == n - Pieces + 1
    <3>1. i \in 1..n /\ i + Pieces = n + 1 /\ i - 1 = n - Pieces
      BY <1>5, <2>4
    <3>2. i = 1 \/ file'[f][i - 1].piece = Newline
      <4>1. SUFFICES ASSUME i # 1 PROVE file'[f][i - 1].piece = Newline
        OBVIOUS
      <4>2. i - 1 \in 1..n
        BY <3>1, <4>1
      <4>3. file[f][i - 1].piece = Newline
        BY <2>3, <2>6, <3>1, <4>2 DEF Spoilt
      <4> QED BY <2>3, <4>2, <4>3
    <3>3. ASSUME NEW k \in 1..Pieces
          PROVE  file'[f][i + k - 1] = [run |-> r, piece |-> k]
      <4>1. i + k - 1 = n - Pieces + k /\ n - Pieces + k \in 1..n
        BY <1>5, <2>4
      <4> QED BY <2>3, <2>4, <4>1
    <3>4. i \in DOMAIN file'[f] /\ i + Pieces <= Len(file'[f])
      BY <1>5, <2>3, <3>1
    <3>5. file'[f][i + Pieces].piece = Newline
      BY <2>1, <2>3, <3>1
    <3>6. Readable(f, r)'
      <4> HIDE DEF i
      <4> QED BY <3>2, <3>3, <3>4, <3>5 DEF Readable
    <3> QED BY <2>5, <3>6 DEF Unread
  <2>7. ASSUME Spoilt(f, n - Pieces)
        PROVE  Cardinality(Unread(f)) < Cardinality(TornRuns(f))
    <3>1. OpenLine(f, Pieces) /\ Pieces \in 0..Pieces
      BY <1>1, <1>5, <1>8 DEF OpenLine
    <3> QED BY <2>7, <3>1 DEF LineStep, Bounded
  <2>8. /\ IsFiniteSet(Unread(f)') /\ IsFiniteSet(TornRuns(f)')
        /\ Cardinality(Unread(f)') <= Cardinality(TornRuns(f)')
    <3>1. /\ IsFiniteSet(Unread(f)) /\ IsFiniteSet(TornRuns(f))
          /\ Cardinality(Unread(f)) <= Cardinality(TornRuns(f))
          /\ Cardinality(Unread(f)) \in Nat /\ Cardinality(TornRuns(f)) \in Nat
      BY FS_CardinalityType DEF LineStep, Bounded
    <3>2. CASE ~Spoilt(f, n - Pieces)
      BY <1>4, <2>6, <3>1, <3>2, CountsShrink DEF LineStep
    <3>3. CASE Spoilt(f, n - Pieces)
      <4>1. /\ IsFiniteSet(Unread(f) \union {r})
            /\ Cardinality(Unread(f) \union {r}) <= Cardinality(Unread(f)) + 1
        <5>1. /\ IsFiniteSet(Unread(f) \union {r})
              /\ Cardinality(Unread(f) \union {r}) =
                   IF r \in Unread(f) THEN Cardinality(Unread(f))
                                     ELSE Cardinality(Unread(f)) + 1
          BY <3>1, FS_AddElement
        <5> HIDE DEF n
        <5> QED BY <3>1, <5>1
      <4>2. /\ IsFiniteSet(Unread(f)')
            /\ Cardinality(Unread(f)') <= Cardinality(Unread(f) \union {r})
        BY <2>5, <4>1, FS_Subset
      <4>3. Cardinality(Unread(f)') \in Nat
            /\ Cardinality(Unread(f) \union {r}) \in Nat
        BY <4>1, <4>2, FS_CardinalityType
      <4> QED BY <1>4, <2>7, <3>1, <3>3, <4>1, <4>2, <4>3
    <3> QED BY <3>2, <3>3
  <2>9. \A v \in 0..Pieces : OpenLine(f, v)' => v = 0
    BY <1>6 DEF OpenLine
  <2>10. ~Spoilt(f, Len(file[f]) - 0)'
    <3>1. Len(file'[f]) - 0 = n + 1
      BY <1>5, <2>3
    <3> QED BY <2>1, <2>3, <3>1 DEF Spoilt
  <2>11. Bounded(f)'
    BY <2>8, <2>9, <2>10 DEF Bounded
  <2>12. ASSUME NEW u \in Runs PROVE Own(u, f)'
    <3>1. SUFFICES ASSUME written'[u] = 0 PROVE Own(u, f)'
      BY <1>6 DEF Own
    <3>2. 0 <= Len(file'[f])
      BY <1>5, <2>3
    <3> QED BY <3>1, <3>2 DEF Own
  <2> QED BY <2>11, <2>12
<1> QED BY <1>7, <1>8

LEMMA LinesStep == BasicInv /\ ExactInv /\ LinesInv /\ [Next]_vars => LinesInv'
<1> SUFFICES ASSUME BasicInv, ExactInv, LinesInv, [Next]_vars PROVE LinesInv'
  OBVIOUS
<1>1. CASE UNCHANGED vars
  <2>1. UNCHANGED <<file, status, config, at, written, overlap>>
    BY <1>1 DEF vars, run
  <2>2. ASSUME NEW f \in Files, Bounded(f) PROVE Bounded(f)'
    <3>1. Unread(f)' = Unread(f) /\ TornRuns(f)' = TornRuns(f)
      BY <2>1 DEF Unread, TornRuns, Accepted, Readable, Torn
    <3>2. ASSUME NEW w \in 0..Pieces, OpenLine(f, w)',
                 Spoilt(f, Len(file[f]) - w)'
          PROVE  OpenLine(f, w) /\ Spoilt(f, Len(file[f]) - w)
      BY <2>1, <3>2 DEF OpenLine, At, Spoilt
    <3>3. \A w \in 0..Pieces :
            OpenLine(f, w)' /\ Spoilt(f, Len(file[f]) - w)' =>
              Cardinality(Unread(f)') < Cardinality(TornRuns(f)')
      BY <2>2, <3>1, <3>2 DEF Bounded
    <3> QED BY <2>2, <3>1, <3>3 DEF Bounded
  <2>3. ASSUME NEW f \in Files, NEW u \in Runs PROVE Own(u, f)' <=> Own(u, f)
    BY <2>1 DEF Own, At
  <2> QED BY <2>1, <2>2, <2>3 DEF LinesInv
<1>2. ASSUME NEW r \in Runs, RunStep(r), OnlyRun(r),
             Begins(r) \/ Hands(r) \/ Stays(r)
      PROVE  LinesInv'
  <2> SUFFICES ASSUME ~overlap', NEW f \in Files
               PROVE  Bounded(f)' /\ \A u \in Runs : Own(u, f)'
    BY DEF LinesInv
  <2>1. ~overlap /\ Solo(r)
    BY <1>2, SoloIs
  <2>2. LineStep(r, f)
    BY <1>2, <2>1 DEF LineStep, LinesInv
  <2>3. \/ \E g \in Files : WritePiece(r, g) \/ WriteNewline(r, g)
        \/ Arrives(r) \/ Remains(r)
    BY <1>2, LineKinds DEF BasicInv
  <2> QED BY <2>2, <2>3, PieceLines, NewlineLines, ArrivesLines, RemainsLines
<1> QED BY <1>1, <1>2, StepOfRun

\* For any number of runs, one after the other, and any failures: no more
\* lines that append_json_line appended with success are unreadable than runs
\* were interrupted within a line of the same file.
THEOREM TornLinesAreBounded == Spec => []TornLinesBounded
<1>1. Init => ExactInv /\ LinesInv
  <2>1. Init => ExactInv
    BY DEF Init, ExactInv, Running, At, Row, Occ, RowsOf, Accepted
  <2>2. ASSUME Init, NEW f \in Files
        PROVE  Bounded(f) /\ \A u \in Runs : Own(u, f)
    <3>1. Unread(f) = {} /\ TornRuns(f) = {}
      BY <2>2 DEF Init, Unread, TornRuns, Accepted, Torn
    <3>2. \A n : ~Spoilt(f, n)
      BY <2>2 DEF Init, Spoilt
    <3>3. \A u \in Runs : ~At(u, f)
      BY <2>2 DEF Init, At
    <3> QED BY <3>1, <3>2, <3>3, FS_EmptySet DEF Bounded, Own
  <2> QED BY <2>1, <2>2 DEF LinesInv
<1>2. LinesInv => TornLinesBounded
  BY DEF LinesInv, Bounded, TornLinesBounded, Unread, TornRuns
<1> QED BY <1>1, <1>2, BasicInvariant, ExactStep, LinesStep, PTL DEF Spec
=============================================================================
