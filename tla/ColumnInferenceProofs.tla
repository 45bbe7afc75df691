----------------------- MODULE ColumnInferenceProofs -----------------------
(***************************************************************************)
(* Proofs about the typing of a column, for every sample size and every    *)
(* column: the flags kept record by record decide as the sample does, and  *)
(* the cast loses no sampled value but those of a loose form.              *)
(***************************************************************************)
EXTENDS ColumnInference, TLAPS

-----------------------------------------------------------------------------
(* The inductive invariant *)

\* The flags are those of the first n records.
Flags(n) ==
  /\ nullable <=> \E i \in 1..n : cells[i] = "missing"
  /\ sawValue <=> \E i \in 1..n : cells[i] # "missing"
  /\ \A t \in Tests :
       ok[t] <=> \A i \in 1..n : cells[i] # "missing" => cells[i] \in Passes(t)

\* The type follows from the flags of the whole sample, and what is NULL in
\* the records written follows from the type.
ChoiceInv ==
  /\ phase = "infer" => type = "" /\ read <= Sampled /\ Flags(read)
  /\ type # "" => type = BestType /\ Flags(Sampled)
  /\ phase = "write" => type # ""

WriteInv ==
  /\ type = "" => isNull = <<>>
  /\ Len(isNull) <= Len(cells)
  /\ \A i \in 1..Len(isNull) : isNull[i] <=> cells[i] \notin Castable(type)

CInv == CTypeOK /\ ChoiceInv /\ WriteInv

-----------------------------------------------------------------------------
(* Lemmas about the choice of a type *)

LEMMA Bounds ==
  ASSUME CTypeOK
  PROVE  /\ cells \in Seq(Forms) /\ Len(cells) \in Nat
         /\ read \in Nat /\ read <= Len(cells)
         /\ Sampled \in Nat /\ Sampled <= Len(cells) /\ Sampled <= SampleRows
<1>1. cells \in Seq(Forms) /\ read \in 0..Len(cells)
  BY Zenon DEF CTypeOK
<1>2. QED
  BY <1>1, InferenceAssumption DEF Sampled

\* The preferred type among those left: it passed, and none before it did.
LEMMA BestTypeResult ==
  ASSUME ok \in [Tests -> BOOLEAN], sawValue \in BOOLEAN
  PROVE  /\ BestType \in Types
         /\ ~sawValue => BestType = "String"
         /\ BestType \in Tests => ok[BestType]
         /\ sawValue => \A t \in Tests : ok[t] => Rank[BestType] <= Rank[t]
<1>1. CASE ~sawValue
  BY <1>1 DEF BestType, Types, Tests
<1>2. CASE sawValue
  <2> DEFINE good == {t \in Tests : ok[t]} \union {"String"}
  <2>1. \A t \in good : Rank[t] \in 1..6
    BY DEF Tests, Rank
  <2>2. \E t \in good : \A u \in good : Rank[t] <= Rank[u]
    <3>1. CASE ok["Boolean"]
      BY <3>1 DEF Tests, Rank
    <3>2. CASE ~ok["Boolean"] /\ ok["Int64"]
      BY <3>2 DEF Tests, Rank
    <3>3. CASE ~ok["Boolean"] /\ ~ok["Int64"] /\ ok["Float64"]
      BY <3>3 DEF Tests, Rank
    <3>4. CASE ~ok["Boolean"] /\ ~ok["Int64"] /\ ~ok["Float64"] /\ ok["Date"]
      BY <3>4 DEF Tests, Rank
    <3>5. CASE ~ok["Boolean"] /\ ~ok["Int64"] /\ ~ok["Float64"] /\ ~ok["Date"]
               /\ ok["Timestamp"]
      BY <3>5 DEF Tests, Rank
    <3>6. CASE \A t \in Tests : ~ok[t]
      BY <3>6 DEF Tests, Rank
    <3>7. QED
      BY <3>1, <3>2, <3>3, <3>4, <3>5, <3>6 DEF Tests
  <2>3. BestType \in good /\ \A u \in good : Rank[BestType] <= Rank[u]
    BY <1>2, <2>2 DEF BestType
  <2>4. QED
    BY <1>2, <2>3 DEF Types, Tests
<1>3. QED
  BY <1>1, <1>2

\* A value that passed the test of its column's type can be cast to it unless
\* it is of a loose form.
LEMMA PassedOrLoose ==
  ASSUME NEW t \in Tests, NEW c \in Passes(t), c \notin Castable(t)
  PROVE  c \in Loose
BY DEF Tests, Passes, Castable, Loose

-----------------------------------------------------------------------------
(* The invariant is inductive *)

LEMMA InvInit == Init => CInv
<1> SUFFICES ASSUME Init PROVE CInv
  OBVIOUS
<1>1. cells \in Seq(Forms)
  <2>1. PICK n \in 0..MaxRows : cells \in [1..n -> Forms]
    BY DEF Init
  <2>2. QED
    BY <2>1, InferenceAssumption
<1>2. phase = "infer" /\ type = ""
  BY Zenon DEF Init
<1>3. read = 0
  BY Zenon DEF Init
<1>4. isNull = <<>>
  BY Zenon DEF Init
<1>5. nullable = FALSE /\ sawValue = FALSE /\ ok = [t \in Tests |-> TRUE]
  BY Zenon DEF Init
<1>6. CTypeOK
  <2>1. nullable \in BOOLEAN /\ sawValue \in BOOLEAN /\ ok \in [Tests -> BOOLEAN]
    BY <1>5, Zenon
  <2>2. read \in 0..Len(cells) /\ isNull \in Seq(BOOLEAN) /\ read <= SampleRows
    BY <1>1, <1>3, <1>4, InferenceAssumption
  <2>3. QED
    BY <1>1, <1>2, <1>4, <2>1, <2>2, Zenon DEF CTypeOK
<1>7. Flags(read)
  <2>1. \A i \in 1..read : FALSE
    BY <1>3
  <2>2. QED
    BY <1>5, <2>1, Zenon DEF Flags
<1>8. ChoiceInv
  <2>1. read <= Sampled
    BY <1>6, <1>3, Bounds
  <2>2. QED
    BY <1>2, <1>7, <2>1, Zenon DEF ChoiceInv
<1>9. WriteInv
  BY <1>1, <1>4 DEF WriteInv
<1>10. QED
  BY <1>6, <1>8, <1>9 DEF CInv

\* A step that only counts a sampled record and sets flags keeps the types.
LEMMA ObserveKeepsType ==
  ASSUME CTypeOK, Sampling, read' = read + 1,
         UNCHANGED <<cells, phase, type, isNull>>,
         nullable' \in BOOLEAN, sawValue' \in BOOLEAN, ok' \in [Tests -> BOOLEAN]
  PROVE  CTypeOK'
<1>1. phase = "infer" /\ read < Sampled
  BY Zenon DEF Sampling
<1>2. read' \in 0..Len(cells) /\ read' <= SampleRows
  BY <1>1, Bounds, InferenceAssumption
<1>3. /\ cells' \in Seq(Forms) /\ phase' = "infer" /\ Len(cells') = Len(cells)
      /\ type' \in Types \union {""}
      /\ isNull' \in Seq(BOOLEAN) /\ isNull' = <<>>
  BY <1>1, Zenon DEF CTypeOK
<1>4. phase' \in {"infer", "write", "done", "failed"} /\ phase' # "write"
  BY <1>3
<1>5. read' \in 0..Len(cells')
  BY <1>2, <1>3
<1>6. QED
  BY <1>2, <1>3, <1>4, <1>5, Zenon DEF CTypeOK

LEMMA NextSampled ==
  ASSUME CTypeOK, read < Sampled, read' = read + 1, cells' = cells
  PROVE  read' <= Sampled'
BY Bounds DEF Sampled

LEMMA SameChoice ==
  ASSUME UNCHANGED <<cells, sawValue, ok>>
  PROVE  BestType' = BestType /\ Sampled' = Sampled
BY DEF BestType, Sampled

LEMMA Appended ==
  ASSUME NEW S, NEW s \in Seq(S), NEW e \in S
  PROVE  /\ Append(s, e) \in Seq(S) /\ Len(Append(s, e)) = Len(s) + 1
         /\ Append(s, e)[Len(s) + 1] = e
         /\ \A i \in 1..Len(s) : Append(s, e)[i] = s[i]
OBVIOUS

\* The rest of the invariant, once the flags are known to be those of one
\* record more.
LEMMA ObserveKeepsInv ==
  ASSUME CInv, Sampling, read' = read + 1,
         UNCHANGED <<cells, phase, type, isNull>>, CTypeOK', Flags(read)'
  PROVE  CInv'
<1>1. phase = "infer" /\ read < Sampled /\ type = "" /\ CTypeOK
  BY Zenon DEF Sampling, CInv, ChoiceInv
<1>2. read' <= Sampled'
  BY <1>1, NextSampled, Zenon
<1>3. phase' = "infer" /\ type' = ""
  BY <1>1
<1>4. phase' # "write"
  BY <1>3
<1>5. ChoiceInv'
  BY <1>2, <1>3, <1>4, Zenon DEF ChoiceInv
<1>6. WriteInv'
  BY DEF CInv, WriteInv
<1>7. QED
  BY <1>5, <1>6 DEF CInv

\* The records up to one more.
LEMMA OneMore ==
  ASSUME NEW n \in Nat
  PROVE  /\ n + 1 \in 1..(n + 1)
         /\ \A i \in 1..n : i \in 1..(n + 1)
         /\ \A i \in 1..(n + 1) : i \in 1..n \/ i = n + 1
OBVIOUS

LEMMA MissingStep == CInv /\ ObserveMissing => CInv'
<1> SUFFICES ASSUME CInv, ObserveMissing PROVE CInv'
  OBVIOUS
<1>1. CTypeOK /\ ChoiceInv /\ WriteInv
  BY Zenon DEF CInv
<1>2. /\ Sampling /\ cells[read + 1] = "missing"
      /\ nullable' = TRUE /\ read' = read + 1
      /\ UNCHANGED <<cells, phase, sawValue, ok, type, isNull>>
  BY Zenon DEF ObserveMissing
<1>3. CTypeOK'
  <2>1. nullable' \in BOOLEAN /\ sawValue' \in BOOLEAN /\ ok' \in [Tests -> BOOLEAN]
    BY <1>1, <1>2, Zenon DEF CTypeOK
  <2>2. QED
    BY <1>1, <1>2, <2>1, ObserveKeepsType
<1>4. Flags(read)'
  <2>1. Flags(read) /\ read \in Nat
    BY <1>1, <1>2, Bounds, Zenon DEF ChoiceInv, Sampling
  <2>2. nullable' <=> \E i \in 1..(read + 1) : cells[i] = "missing"
    BY <1>2, <2>1, OneMore, Zenon
  <2>3. sawValue' <=> \E i \in 1..(read + 1) : cells[i] # "missing"
    BY <1>2, <2>1, OneMore, Zenon DEF Flags
  <2>4. \A t \in Tests :
          ok'[t] <=> \A i \in 1..(read + 1) :
                       cells[i] # "missing" => cells[i] \in Passes(t)
    BY <1>2, <2>1, OneMore, Zenon DEF Flags
  <2>5. QED
    BY <1>2, <2>2, <2>3, <2>4, Zenon DEF Flags
<1>5. QED
  BY <1>2, <1>3, <1>4, ObserveKeepsInv

LEMMA ValueStep == CInv /\ ObserveValue => CInv'
<1> SUFFICES ASSUME CInv, ObserveValue PROVE CInv'
  OBVIOUS
<1>1. CTypeOK /\ ChoiceInv /\ WriteInv
  BY Zenon DEF CInv
<1>2. /\ Sampling /\ cells[read + 1] # "missing"
      /\ sawValue' = TRUE /\ read' = read + 1
      /\ ok' = [t \in Tests |-> ok[t] /\ cells[read + 1] \in Passes(t)]
      /\ UNCHANGED <<cells, phase, nullable, type, isNull>>
  BY Zenon DEF ObserveValue
<1>3. CTypeOK'
  <2>1. nullable' \in BOOLEAN /\ sawValue' \in BOOLEAN /\ ok' \in [Tests -> BOOLEAN]
    BY <1>1, <1>2, Zenon DEF CTypeOK
  <2>2. QED
    BY <1>1, <1>2, <2>1, ObserveKeepsType
<1>4. Flags(read)'
  <2>1. Flags(read) /\ read \in Nat
    BY <1>1, <1>2, Bounds, Zenon DEF ChoiceInv, Sampling
  <2>2. nullable' <=> \E i \in 1..(read + 1) : cells[i] = "missing"
    BY <1>2, <2>1, OneMore, Zenon DEF Flags
  <2>3. sawValue' <=> \E i \in 1..(read + 1) : cells[i] # "missing"
    BY <1>2, <2>1, OneMore, Zenon
  <2>4. ASSUME NEW t \in Tests
        PROVE  ok'[t] <=> \A i \in 1..(read + 1) :
                            cells[i] # "missing" => cells[i] \in Passes(t)
    <3>1. ok'[t] <=> ok[t] /\ cells[read + 1] \in Passes(t)
      BY <1>2, Zenon
    <3>2. ok[t] <=> \A i \in 1..read :
                      cells[i] # "missing" => cells[i] \in Passes(t)
      BY <2>1, Zenon DEF Flags
    <3>3. QED
      BY <1>2, <2>1, <3>1, <3>2, OneMore, Zenon
  <2>5. QED
    BY <1>2, <2>2, <2>3, <2>4, Zenon DEF Flags
<1>5. QED
  BY <1>2, <1>3, <1>4, ObserveKeepsInv

LEMMA FinishInferenceStep == CInv /\ FinishInference => CInv'
<1> SUFFICES ASSUME CInv, FinishInference PROVE CInv'
  OBVIOUS
<1>1. CTypeOK /\ ChoiceInv /\ WriteInv
  BY Zenon DEF CInv
<1>2. /\ phase = "infer" /\ read = Sampled /\ type' = BestType
      /\ phase' = "write" /\ read' = 0 /\ UNCHANGED <<cells, isNull>>
  BY Zenon DEF FinishInference
<1>3. UNCHANGED <<nullable, sawValue, ok>>
  BY Zenon DEF FinishInference, state
<1>4. nullable \in BOOLEAN /\ sawValue \in BOOLEAN /\ ok \in [Tests -> BOOLEAN]
  BY <1>1, Zenon DEF CTypeOK
<1>5. BestType' = BestType /\ BestType \in Types /\ BestType # ""
  <2>1. BestType' = BestType
    BY <1>2, <1>3, SameChoice
  <2>2. BestType \in Types
    BY <1>4, BestTypeResult
  <2>3. QED
    BY <2>1, <2>2 DEF Types, Tests
<1>6. isNull = <<>>
  BY <1>1, <1>2, Zenon DEF CTypeOK
<1>7. CTypeOK'
  <2>1. cells \in Seq(Forms) /\ isNull \in Seq(BOOLEAN)
    BY <1>1, Zenon DEF CTypeOK
  <2>2. read' \in 0..Len(cells) /\ Len(isNull) = read'
    BY <1>2, <1>6, <2>1
  <2>3. phase' \in {"infer", "write", "done", "failed"} /\ phase' # "infer"
    BY <1>2
  <2>4. QED
    BY <1>2, <1>3, <1>4, <1>5, <2>1, <2>2, <2>3, Zenon DEF CTypeOK
<1>8. ChoiceInv'
  <2>1. Flags(Sampled)
    BY <1>1, <1>2, Zenon DEF ChoiceInv
  <2>2. Sampled' = Sampled
    BY <1>2, Zenon DEF Sampled
  <2>3. Flags(Sampled)'
    BY <1>2, <1>3, <2>1, <2>2, Zenon DEF Flags
  <2>4. phase' # "infer"
    BY <1>2
  <2>5. QED
    BY <1>2, <1>5, <2>3, <2>4, Zenon DEF ChoiceInv
<1>9. WriteInv'
  <2>1. isNull' = <<>> /\ cells' \in Seq(Forms)
    BY <1>2, <1>6, <1>1, Zenon DEF CTypeOK
  <2>2. QED
    BY <2>1 DEF WriteInv
<1>10. QED
  BY <1>7, <1>8, <1>9, Zenon DEF CInv

\* Once the type is chosen, a step that leaves file, flags and type alone
\* leaves the choice as it was.
LEMMA ChoiceStands ==
  ASSUME CInv, type # "", phase' # "infer", UNCHANGED <<cells, state, type>>
  PROVE  ChoiceInv'
<1>1. UNCHANGED <<nullable, sawValue, ok>>
  BY Zenon DEF state
<1>2. BestType' = BestType /\ Sampled' = Sampled
  BY <1>1, SameChoice, Zenon
<1>3. type = BestType /\ Flags(Sampled)
  BY Zenon DEF CInv, ChoiceInv
<1>4. Flags(Sampled)'
  BY <1>1, <1>2, <1>3, Zenon DEF Flags
<1>5. QED
  BY <1>2, <1>3, <1>4, Zenon DEF ChoiceInv

LEMMA WriteCellStep == CInv /\ WriteCell => CInv'
<1> SUFFICES ASSUME CInv, WriteCell PROVE CInv'
  OBVIOUS
<1>1. CTypeOK /\ ChoiceInv /\ WriteInv
  BY Zenon DEF CInv
<1>2. /\ phase = "write" /\ phase' = phase /\ read < Len(cells) /\ read' = read + 1
      /\ UNCHANGED <<cells, state, type>>
  BY Zenon DEF WriteCell
<1>3. isNull' = Append(isNull, cells[read + 1] \notin Castable(type))
  BY Zenon DEF WriteCell
<1>4. /\ isNull \in Seq(BOOLEAN) /\ Len(isNull) = read /\ type # ""
      /\ phase' # "infer"
  BY <1>1, <1>2, Zenon DEF CTypeOK, ChoiceInv
<1>5. /\ isNull' \in Seq(BOOLEAN) /\ Len(isNull') = read + 1
      /\ isNull'[read + 1] = (cells[read + 1] \notin Castable(type))
      /\ \A i \in 1..read : isNull'[i] = isNull[i]
  <2> DEFINE b == cells[read + 1] \notin Castable(type)
  <2>1. b \in BOOLEAN
    BY Zenon
  <2>2. isNull' = Append(isNull, b)
    BY <1>3
  <2>3. isNull \in Seq(BOOLEAN) /\ Len(isNull) = read
    BY <1>4
  <2> HIDE DEF b
  <2>4. /\ Append(isNull, b) \in Seq(BOOLEAN)
        /\ Len(Append(isNull, b)) = Len(isNull) + 1
        /\ Append(isNull, b)[Len(isNull) + 1] = b
        /\ \A i \in 1..Len(isNull) : Append(isNull, b)[i] = isNull[i]
    BY <2>1, <2>3, Appended
  <2>5. /\ isNull' \in Seq(BOOLEAN) /\ Len(isNull') = read + 1
        /\ isNull'[read + 1] = b
        /\ \A i \in 1..read : isNull'[i] = isNull[i]
    BY <2>2, <2>3, <2>4, Zenon
  <2>6. QED
    BY <2>5, Zenon DEF b
<1>6. CTypeOK'
  <2>1. read' \in 0..Len(cells)
    BY <1>1, <1>2, Bounds
  <2>2. phase' \in {"infer", "write", "done", "failed"}
    BY <1>2
  <2>3. cells \in Seq(Forms) /\ type \in Types \union {""} /\ nullable' \in BOOLEAN
        /\ sawValue' \in BOOLEAN /\ ok' \in [Tests -> BOOLEAN]
    BY <1>1, <1>2, Zenon DEF CTypeOK, state
  <2>4. QED
    BY <1>2, <1>4, <1>5, <2>1, <2>2, <2>3, Zenon DEF CTypeOK
<1>7. ChoiceInv'
  BY <1>2, <1>4, ChoiceStands
<1>8. WriteInv'
  <2>1. read \in Nat /\ Len(isNull') <= Len(cells')
    BY <1>1, <1>2, <1>5, Bounds
  <2>2. \A i \in 1..read : isNull[i] <=> cells[i] \notin Castable(type)
    BY <1>1, <1>4, Zenon DEF WriteInv
  <2>3. \A i \in 1..(read + 1) : isNull'[i] <=> cells[i] \notin Castable(type)
    BY <1>5, <2>1, <2>2, OneMore, Zenon
  <2>4. QED
    BY <1>2, <1>4, <1>5, <2>1, <2>3, Zenon DEF WriteInv
<1>9. QED
  BY <1>6, <1>7, <1>8, Zenon DEF CInv

\* The phases end with everything but the phase as it is.
LEMMA EndStep == CInv /\ (FinishWrite \/ RecordUnreadable) => CInv'
<1> SUFFICES ASSUME CInv, FinishWrite \/ RecordUnreadable PROVE CInv'
  OBVIOUS
<1>1. CTypeOK /\ ChoiceInv /\ WriteInv
  BY Zenon DEF CInv
<1>2. /\ phase' \in {"done", "failed"}
      /\ UNCHANGED <<cells, read, state, type, isNull>>
  BY DEF FinishWrite, RecordUnreadable
<1>3. phase' # "infer" /\ phase' # "write"
      /\ phase' \in {"infer", "write", "done", "failed"}
  BY <1>2
<1>4. CTypeOK'
  BY <1>1, <1>2, <1>3, Zenon DEF CTypeOK, state
<1>5. ChoiceInv'
  <2>1. CASE type = ""
    BY <1>2, <1>3, <2>1, Zenon DEF ChoiceInv
  <2>2. CASE type # ""
    BY <1>2, <1>3, <2>2, ChoiceStands
  <2>3. QED
    BY <2>1, <2>2
<1>6. WriteInv'
  BY <1>1, <1>2, Zenon DEF WriteInv
<1>7. QED
  BY <1>4, <1>5, <1>6, Zenon DEF CInv

LEMMA InvStutters == CInv /\ UNCHANGED vars => CInv'
<1> SUFFICES ASSUME CInv, UNCHANGED vars PROVE CInv'
  OBVIOUS
<1>1. UNCHANGED <<cells, phase, read, nullable, sawValue, ok, type, isNull>>
  BY Zenon DEF vars, state
<1>2. CTypeOK' /\ WriteInv'
  BY <1>1, Zenon DEF CInv, CTypeOK, WriteInv
<1>3. BestType' = BestType /\ Sampled' = Sampled
  BY <1>1, SameChoice
<1>4. ChoiceInv'
  BY <1>1, <1>3, Zenon DEF CInv, ChoiceInv, Flags
<1>5. QED
  BY <1>2, <1>4, Zenon DEF CInv

LEMMA InvStep == CInv /\ [Next]_vars => CInv'
BY MissingStep, ValueStep, FinishInferenceStep, WriteCellStep, EndStep,
   InvStutters DEF Next

LEMMA Invariant == Spec => []CInv
BY InvInit, InvStep, PTL DEF Spec

-----------------------------------------------------------------------------
(* Theorems *)

\* Every variable keeps its type: no record is read or written past the end
\* of the column, and sampling reads no more than SampleRows.
THEOREM TypeCorrect == Spec => []CTypeOK
<1>1. CInv => CTypeOK
  BY Zenon DEF CInv
<1>2. QED
  BY <1>1, Invariant, PTL

\* A column has the first type whose test all its sampled values pass, and is
\* nullable if one was missing: ColumnInference::observe and finish decide as
\* a look at the whole sample would.
THEOREM FlagsDecideExactly == Spec => []InferenceExact
<1>1. ASSUME CInv PROVE InferenceExact
  <2> SUFFICES ASSUME type # "" PROVE /\ nullable <=> "missing" \in Sample
                                      /\ Values = {} => type = "String"
                                      /\ type \in Tests => Values \subseteq Passes(type)
                                      /\ Values # {} => \A t \in Tests :
                                           Values \subseteq Passes(t)
                                             => Rank[type] <= Rank[t]
    BY Zenon DEF InferenceExact
  <2>1. type = BestType /\ Flags(Sampled) /\ ok \in [Tests -> BOOLEAN]
        /\ sawValue \in BOOLEAN
    BY <1>1, Zenon DEF CInv, CTypeOK, ChoiceInv
  <2>2. nullable <=> "missing" \in Sample
    BY <2>1, Zenon DEF Flags, Sample
  <2>3. sawValue <=> Values # {}
    BY <2>1, Zenon DEF Flags, Sample, Values
  <2>4. \A t \in Tests : ok[t] <=> Values \subseteq Passes(t)
    <3>1. \A t \in Tests : ok[t] <=> \A i \in 1..Sampled :
            cells[i] # "missing" => cells[i] \in Passes(t)
      BY <2>1, Zenon DEF Flags
    <3>2. \A c : c \in Values <=> \E i \in 1..Sampled : c = cells[i] /\ c # "missing"
      BY Zenon DEF Values, Sample
    <3>3. ASSUME NEW t \in Tests PROVE ok[t] <=> Values \subseteq Passes(t)
      <4>1. ok[t] <=> \A i \in 1..Sampled :
              cells[i] # "missing" => cells[i] \in Passes(t)
        BY <3>1, Zenon
      <4>2. ASSUME \A i \in 1..Sampled : cells[i] # "missing" => cells[i] \in Passes(t),
                   NEW c \in Values
            PROVE  c \in Passes(t)
        BY <3>2, <4>2, Zenon
      <4>3. ASSUME Values \subseteq Passes(t), NEW i \in 1..Sampled,
                   cells[i] # "missing"
            PROVE  cells[i] \in Passes(t)
        BY <3>2, <4>3, Zenon
      <4>4. QED
        BY <4>1, <4>2, <4>3, Zenon
    <3>4. QED
      BY <3>3, Zenon
  <2>5. /\ ~sawValue => type = "String"
        /\ type \in Tests => ok[type]
        /\ sawValue => \A t \in Tests : ok[t] => Rank[type] <= Rank[t]
    BY <2>1, BestTypeResult, Zenon
  <2>6. QED
    BY <2>2, <2>3, <2>4, <2>5, Zenon
<1>2. QED
  BY <1>1, Invariant, PTL

\* Of the sampled values, only missing ones and those of a loose form become
\* NULL in the typed table, whatever the column's type.
THEOREM SampledValuesKept == Spec => []NullsExplained
<1>1. ASSUME CInv PROVE NullsExplained
  <2> SUFFICES ASSUME NEW i \in 1..Len(isNull), isNull[i], i <= SampleRows
               PROVE  cells[i] \in Loose \union {"missing"}
    BY Zenon DEF NullsExplained
  <2>1. CTypeOK /\ ChoiceInv /\ WriteInv
    BY <1>1, Zenon DEF CInv
  <2>2. i \in 1..Sampled /\ cells[i] \in Forms
    <3>1. Len(isNull) <= Len(cells) /\ cells \in Seq(Forms) /\ isNull \in Seq(BOOLEAN)
      BY <2>1, Zenon DEF WriteInv, CTypeOK
    <3>2. QED
      BY <3>1, InferenceAssumption DEF Sampled
  <2>3. type # "" /\ cells[i] \notin Castable(type)
    <3>1. cells[i] \notin Castable(type)
      BY <2>1, Zenon DEF WriteInv
    <3>2. ASSUME type = "" PROVE FALSE
      <4>1. isNull = <<>>
        BY <2>1, <3>2, Zenon DEF WriteInv
      <4>2. QED
        BY <4>1
    <3>3. QED
      BY <3>1, <3>2
  <2>4. type = BestType /\ Flags(Sampled) /\ ok \in [Tests -> BOOLEAN]
        /\ sawValue \in BOOLEAN /\ type \in Types
    BY <2>1, <2>3, BestTypeResult, Zenon DEF CTypeOK, ChoiceInv
  <2>5. CASE type = "String"
    <3>1. Castable("String") = Forms
      BY DEF Castable
    <3>2. QED
      BY <2>2, <2>3, <2>5, <3>1
  <2>6. CASE type \in Tests
    <3>1. ok[type]
      BY <2>4, <2>6, BestTypeResult, Zenon
    <3>2. cells[i] = "missing" \/ cells[i] \in Passes(type)
      BY <2>2, <2>4, <2>6, <3>1, Zenon DEF Flags
    <3>3. QED
      BY <2>3, <2>6, <3>2, PassedOrLoose, Zenon
  <2>7. QED
    BY <2>4, <2>5, <2>6 DEF Types
<1>2. QED
  BY <1>1, Invariant, PTL

=============================================================================
