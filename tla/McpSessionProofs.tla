-------------------------- MODULE McpSessionProofs --------------------------
(***************************************************************************)
(* Proofs about the MCP session for any lines, any documents and any size  *)
(* of the pipes.                                                           *)
(***************************************************************************)
EXTENDS McpSession, QgLakeStoryProofs, TLAPS

-----------------------------------------------------------------------------
(* Lines, answers and the imports before them *)

\* The type as the provers need it: answers are a sequence, the registry is a
\* function, and the server is behind by the line it has in hand.
TypeInv ==
  /\ MTypeOK
  /\ \E S : answers \in Seq(S)
  /\ registry = [n \in ModelNames |-> registry[n]]
  /\ pc \in {"handle", "write"} => Len(answers) < taken

LEMMA TypeInit == Init => TypeInv
<1> SUFFICES ASSUME Init PROVE TypeInv
  OBVIOUS
<1>1. MTypeOK
  <2>1. sent \in Seq(Lines) /\ Len(sent) = 0 /\ Len(answers) = 0
    BY DEF Init
  <2>2. /\ DOMAIN registry = ModelNames
        /\ \A n \in ModelNames : registry[n] = Null
    BY DEF Init
  <2>3. /\ closed = FALSE /\ hungup = FALSE
        /\ taken = 0 /\ received = 0 /\ pc = "read" /\ response = Null
    BY DEF Init
  <2>4. MaxLines \in Nat /\ PipeLines \in Nat \ {0}
    BY McpAssumption
  <2>5. sent \in Seq(Lines) /\ Len(sent) <= MaxLines
    BY <2>1, <2>4
  <2>6. /\ closed \in BOOLEAN /\ hungup \in BOOLEAN
        /\ pc \in {"read", "handle", "write", "ended", "failed"}
    BY <2>3
  <2>7. IF pc = "write" THEN response.to = taken ELSE response = Null
    BY <2>3
  <2>8. /\ taken \in 0..Len(sent) /\ Len(sent) - taken <= PipeLines
        /\ Len(answers) <= taken
        /\ received \in 0..Len(answers) /\ Len(answers) - received <= PipeLines
    BY <2>1, <2>3, <2>4
  <2> QED BY <2>2, <2>5, <2>6, <2>7, <2>8 DEF MTypeOK
<1>2. answers \in Seq({}) /\ registry = [n \in ModelNames |-> registry[n]]
  BY DEF Init
<1> QED BY <1>1, <1>2 DEF Init, TypeInv

\* A document is registered under its own name.
LEMMA RegisteredType ==
  ASSUME NEW m, m = [n \in ModelNames |-> m[n]],
         \A n \in ModelNames : m[n] = Null \/ m[n].name = n,
         NEW line \in Lines
  PROVE  /\ Registered(m, line) = [n \in ModelNames |-> Registered(m, line)[n]]
         /\ DOMAIN Registered(m, line) = ModelNames
         /\ \A n \in ModelNames : \/ Registered(m, line)[n] = Null
                                  \/ Registered(m, line)[n].name = n
BY McpAssumption DEF Registered

LEMMA TypeStep == TypeInv /\ [Next]_vars => TypeInv'
<1> SUFFICES ASSUME TypeInv, [Next]_vars PROVE TypeInv'
  OBVIOUS
<1> USE McpAssumption DEF TypeInv, MTypeOK, client
<1>1. ASSUME NEW line \in Lines, ClientWrites(line) PROVE TypeInv'
  BY <1>1 DEF ClientWrites
<1>2. CASE ClientCloses
  BY <1>2 DEF ClientCloses
<1>3. CASE ClientReads
  BY <1>3 DEF ClientReads
<1>4. CASE ClientHangsUp
  BY <1>4 DEF ClientHangsUp
<1>5. CASE ReadLine
  BY <1>5 DEF ReadLine
<1>6. CASE ReadEof
  BY <1>6 DEF ReadEof
<1>7. CASE Handle
  <2> DEFINE line == sent[taken]
  <2>1. line \in Lines
    BY <1>7 DEF Handle
  <2>2. registry' = registry \/ registry' = Registered(registry, line)
    BY <1>7 DEF Handle
  <2>3. /\ registry' = [n \in ModelNames |-> registry'[n]]
        /\ DOMAIN registry' = ModelNames
        /\ \A n \in ModelNames : registry'[n] = Null \/ registry'[n].name = n
    <3> HIDE DEF line
    <3> QED BY <2>1, <2>2, RegisteredType
  <2> QED BY <1>7, <2>3 DEF Handle
<1>8. CASE WriteResponse
  <2>1. PICK S : answers \in Seq(S)
    OBVIOUS
  <2>2. answers' \in Seq(S \union {response}) /\ Len(answers') = Len(answers) + 1
    BY <1>8, <2>1 DEF WriteResponse
  <2> QED BY <1>8, <2>2 DEF WriteResponse
<1>9. CASE WriteFails
  BY <1>9 DEF WriteFails
<1>10. CASE UNCHANGED vars
  BY <1>10 DEF vars
<1> QED BY <1>1, <1>2, <1>3, <1>4, <1>5, <1>6, <1>7, <1>8, <1>9, <1>10
        DEF Next, Serve

\* Every variable of the session keeps its type, and no pipe holds more than
\* it can, whatever the two sides do.
THEOREM TypeCorrect == Spec => []MTypeOK
<1>1. Spec => []TypeInv
  BY TypeInit, TypeStep, PTL DEF Spec
<1>2. TypeInv => MTypeOK
  BY DEF TypeInv
<1> QED BY <1>1, <1>2, PTL

-----------------------------------------------------------------------------
(* The imports that an answer counts *)

\* What is said of the first i lines stays true when the client writes another.
LEMMA LastStays ==
  ASSUME NEW lines \in Seq(Lines), NEW line \in Lines, NEW i \in 0..Len(lines),
         NEW last \in [ModelNames -> 0..i], LastImports(lines, last, i)
  PROVE  /\ LastImports(Append(lines, line), last, i)
         /\ ModelsOf(Append(lines, line), last) = ModelsOf(lines, last)
<1> DEFINE more == Append(lines, line)
<1>1. \A k \in 1..i : more[k] = lines[k]
  OBVIOUS
<1>2. \A n \in ModelNames : last[n] \in 0..i
  OBVIOUS
<1> HIDE DEF more
<1>3. LastImports(more, last, i)
  BY <1>1, <1>2 DEF LastImports
<1>4. ModelsOf(more, last) = ModelsOf(lines, last)
  BY <1>1, <1>2 DEF ModelsOf
<1> QED BY <1>3, <1>4 DEF more

LEMMA RightStays ==
  ASSUME NEW lines \in Seq(Lines), NEW line \in Lines, NEW answer,
         answer.to \in 1..Len(lines), Right(lines, answer)
  PROVE  Right(Append(lines, line), answer)
<1> DEFINE i == answer.to - 1
<1>1. i \in 0..Len(lines) /\ Append(lines, line)[answer.to] = lines[answer.to]
  OBVIOUS
<1>2. PICK last \in [ModelNames -> 0..i] :
        /\ LastImports(lines, last, i)
        /\ answer.says = Says(ModelsOf(lines, last), lines[answer.to])
  BY DEF Right
<1>3. /\ LastImports(Append(lines, line), last, i)
      /\ ModelsOf(Append(lines, line), last) = ModelsOf(lines, last)
  BY <1>1, <1>2, LastStays
<1>4. Owed(lines[answer.to])
  BY DEF Right
<1> QED BY <1>1, <1>2, <1>3, <1>4 DEF Right

\* Handling line i takes the models of the lines before it to those up to it.
LEMMA LastExtends ==
  ASSUME NEW lines \in Seq(Lines), NEW i \in 1..Len(lines),
         NEW last \in [ModelNames -> 0..(i - 1)],
         LastImports(lines, last, i - 1)
  PROVE  \E next \in [ModelNames -> 0..i] :
           /\ LastImports(lines, next, i)
           /\ ModelsOf(lines, next) = Registered(ModelsOf(lines, last), lines[i])
<1> DEFINE doc  == DocumentOf(lines[i].arguments)
           next == [last EXCEPT ![doc.name] = i]
<1>0. lines[i] \in Lines /\ i \in Nat \ {0}
  OBVIOUS
<1>1. CASE Imports(lines[i])
  <2>1. doc.name \in ModelNames
    BY <1>0, <1>1, McpAssumption
  <2>2. /\ next \in [ModelNames -> 0..i] /\ next[doc.name] = i
        /\ \A n \in ModelNames : n # doc.name => next[n] = last[n]
    BY <1>0, <2>1
  <2>3. ASSUME NEW n \in ModelNames
        PROVE  /\ next[n] # 0 => ImportsModel(lines[next[n]], n)
               /\ \A k \in (next[n] + 1)..i : ~ImportsModel(lines[k], n)
    <3>1. CASE n = doc.name
      <4>1. next[n] = i /\ ImportsModel(lines[i], n)
        BY <1>1, <2>2, <3>1 DEF ImportsModel
      <4> HIDE DEF next
      <4> QED BY <1>0, <4>1
    <3>2. CASE n # doc.name
      <4>1. next[n] = last[n] /\ last[n] \in 0..(i - 1)
        BY <2>2, <3>2
      <4>2. ~ImportsModel(lines[i], n)
        BY <3>2 DEF ImportsModel
      <4>3. /\ last[n] # 0 => ImportsModel(lines[last[n]], n)
            /\ \A k \in (last[n] + 1)..(i - 1) : ~ImportsModel(lines[k], n)
        BY DEF LastImports
      <4> HIDE DEF next
      <4> QED BY <1>0, <4>1, <4>2, <4>3
    <3> QED BY <3>1, <3>2
  <2>4. ModelsOf(lines, next) = Registered(ModelsOf(lines, last), lines[i])
    <3>1. Registered(ModelsOf(lines, last), lines[i])
            = [ModelsOf(lines, last) EXCEPT ![doc.name] = doc]
      BY <1>1 DEF Registered
    <3>2. ASSUME NEW n \in ModelNames
          PROVE  ModelsOf(lines, next)[n]
                   = [ModelsOf(lines, last) EXCEPT ![doc.name] = doc][n]
      <4>1. CASE n = doc.name
        BY <1>0, <2>2, <4>1 DEF ModelsOf
      <4>2. CASE n # doc.name
        <5>1. next[n] = last[n]
          BY <2>2, <4>2
        <5> HIDE DEF next, doc
        <5> QED BY <4>2, <5>1 DEF ModelsOf
      <4> QED BY <4>1, <4>2
    <3> HIDE DEF next, doc
    <3> QED BY <3>1, <3>2 DEF ModelsOf
  <2>5. LastImports(lines, next, i)
    <3> HIDE DEF next
    <3> QED BY <2>3 DEF LastImports
  <2> QED BY <2>2, <2>4, <2>5
<1>2. CASE ~Imports(lines[i])
  <2>1. /\ Registered(ModelsOf(lines, last), lines[i]) = ModelsOf(lines, last)
        /\ last \in [ModelNames -> 0..i]
    BY <1>0, <1>2 DEF Registered
  <2>2. LastImports(lines, last, i)
    <3>1. \A n \in ModelNames : last[n] \in 0..(i - 1) /\ ~ImportsModel(lines[i], n)
      BY <1>2 DEF ImportsModel
    <3> QED BY <1>0, <3>1 DEF LastImports
  <2> QED BY <2>1, <2>2
<1> QED BY <1>1, <1>2

-----------------------------------------------------------------------------
(* Answers follow requests *)

\* How many lines the registry accounts for.
Counted == IF pc = "handle" THEN taken - 1 ELSE taken

\* The registry holds, for each name, the model of the last import counted.
RegistryInv ==
  \E last \in [ModelNames -> 0..Counted] :
    /\ LastImports(sent, last, Counted)
    /\ registry = ModelsOf(sent, last)

\* The answer in hand is right, and no other one to its line was written.
ResponseInv ==
  /\ pc = "write" => Right(sent, response)
  /\ pc \in {"handle", "write"} =>
       \A j \in 1..Len(answers) : answers[j].to < taken

SessionInv ==
  /\ TypeInv
  /\ RegistryInv
  /\ ResponseInv
  /\ AnswersFollowRequests

LEMMA SessionInit == Init => SessionInv
<1> SUFFICES ASSUME Init PROVE SessionInv
  OBVIOUS
<1>1. TypeInv
  BY TypeInit
<1>2. taken = 0 /\ pc = "read" /\ Len(answers) = 0
  BY DEF Init
<1>3. RegistryInv
  <2> DEFINE last == [n \in ModelNames |-> 0]
  <2>1. last \in [ModelNames -> 0..0]
    OBVIOUS
  <2>2. LastImports(sent, last, 0)
    BY DEF LastImports
  <2>3. registry = ModelsOf(sent, last)
    BY DEF Init, ModelsOf
  <2> QED BY <1>2, <2>1, <2>2, <2>3 DEF RegistryInv, Counted
<1>4. ResponseInv
  BY <1>2 DEF ResponseInv
<1>5. AnswersFollowRequests
  BY <1>2 DEF AnswersFollowRequests, HandledLines
<1> QED BY <1>1, <1>3, <1>4, <1>5 DEF SessionInv

\* A line that is not owed an answer imports nothing.
LEMMA ImportsAreOwed ==
  ASSUME NEW line, Imports(line)
  PROVE  Owed(line)
BY DEF Imports, IsCall, Owed

LEMMA SessionStep == SessionInv /\ [Next]_vars => SessionInv'
<1> SUFFICES ASSUME SessionInv, [Next]_vars PROVE SessionInv'
  OBVIOUS
<1>0. TypeInv /\ TypeInv' /\ MTypeOK
  BY TypeStep DEF SessionInv, TypeInv
<1>1. ASSUME NEW line \in Lines, ClientWrites(line) PROVE SessionInv'
  <2>1. /\ sent' = Append(sent, line) /\ sent \in Seq(Lines)
        /\ UNCHANGED <<taken, pc, registry, response, answers>>
        /\ taken \in 0..Len(sent) /\ Len(sent) \in Nat
    BY <1>0, <1>1 DEF ClientWrites, MTypeOK
  <2>2. RegistryInv'
    <3>1. PICK last \in [ModelNames -> 0..Counted] :
            LastImports(sent, last, Counted) /\ registry = ModelsOf(sent, last)
      BY DEF SessionInv, RegistryInv
    <3>2. Counted \in 0..Len(sent) /\ Counted' = Counted
      BY <1>0, <2>1 DEF Counted, TypeInv
    <3>3. /\ LastImports(Append(sent, line), last, Counted)
          /\ ModelsOf(Append(sent, line), last) = ModelsOf(sent, last)
      BY <2>1, <3>1, <3>2, LastStays
    <3> QED BY <2>1, <3>1, <3>2, <3>3 DEF RegistryInv
  <2>3. ResponseInv'
    <3>1. ASSUME pc = "write" PROVE Right(Append(sent, line), response)
      <4>1. response.to \in 1..Len(sent)
        BY <1>0, <2>1, <3>1 DEF TypeInv, MTypeOK
      <4>2. Right(sent, response)
        BY <3>1 DEF SessionInv, ResponseInv
      <4> QED BY <2>1, <4>1, <4>2, RightStays
    <3> QED BY <2>1, <3>1 DEF SessionInv, ResponseInv
  <2>4. AnswersFollowRequests'
    <3>1. ASSUME NEW j \in 1..Len(answers)
          PROVE  Right(Append(sent, line), answers[j])
      <4>1. answers[j].to \in 1..Len(sent) /\ Right(sent, answers[j])
        BY <2>1 DEF SessionInv, AnswersFollowRequests
      <4> QED BY <2>1, <4>1, RightStays
    <3>2. \A i \in HandledLines : sent'[i] = sent[i]
      BY <2>1 DEF HandledLines
    <3>3. HandledLines' = HandledLines
      BY <2>1 DEF HandledLines
    <3> QED BY <2>1, <3>1, <3>2, <3>3 DEF SessionInv, AnswersFollowRequests
  <2> QED BY <1>0, <2>2, <2>3, <2>4 DEF SessionInv
\* Steps of the client that touch neither lines nor answers, and stuttering.
<1>2. ASSUME UNCHANGED <<sent, taken, pc, registry, response, answers>>
      PROVE  SessionInv'
  <2>1. RegistryInv'
    BY <1>2 DEF SessionInv, RegistryInv, Counted
  <2>2. ResponseInv'
    BY <1>2 DEF SessionInv, ResponseInv
  <2>3. AnswersFollowRequests'
    BY <1>2 DEF SessionInv, AnswersFollowRequests, HandledLines
  <2> QED BY <1>0, <2>1, <2>2, <2>3 DEF SessionInv
<1>3. CASE ReadLine
  <2> DEFINE line == sent[taken + 1]
  <2>1. /\ pc = "read" /\ taken < Len(sent) /\ taken' = taken + 1
        /\ UNCHANGED <<sent, registry, response, answers>>
        /\ taken \in 0..Len(sent) /\ Len(sent) \in Nat /\ sent \in Seq(Lines)
    BY <1>0, <1>3 DEF ReadLine, MTypeOK, client
  <2>2. \/ pc' = "read" /\ line = Blank
        \/ pc' = "failed" /\ line = NotUtf8
        \/ pc' = "handle"
    BY <1>3 DEF ReadLine
  <2>3. pc' # "handle" => ~Owed(line)
    BY <2>2, McpAssumption DEF Owed, IsMessage
  <2>4. RegistryInv'
    <3>1. PICK last \in [ModelNames -> 0..taken] :
            LastImports(sent, last, taken) /\ registry = ModelsOf(sent, last)
      BY <2>1 DEF SessionInv, RegistryInv, Counted
    <3>2. CASE pc' = "handle"
      <4>1. Counted' = taken
        BY <2>1, <3>2 DEF Counted
      <4> QED BY <2>1, <3>1, <4>1 DEF RegistryInv
    <3>3. CASE pc' # "handle"
      <4>1. Counted' = taken + 1 /\ taken + 1 \in 1..Len(sent)
        BY <2>1, <3>3 DEF Counted
      <4>2. (taken + 1) - 1 = taken
        BY <2>1
      <4>3. PICK next \in [ModelNames -> 0..(taken + 1)] :
              /\ LastImports(sent, next, taken + 1)
              /\ ModelsOf(sent, next) = Registered(registry, line)
        BY <2>1, <3>1, <4>1, <4>2, LastExtends
      <4>4. Registered(registry, line) = registry
        BY <2>3, <3>3, ImportsAreOwed DEF Registered
      <4> QED BY <2>1, <4>1, <4>3, <4>4 DEF RegistryInv
    <3> QED BY <3>2, <3>3
  <2>5. ResponseInv'
    BY <2>1, <2>2 DEF SessionInv, ResponseInv, AnswersFollowRequests
  <2>6. AnswersFollowRequests'
    <3>1. \A i \in HandledLines' : i \in HandledLines \/ ~Owed(sent[i])
      BY <2>1, <2>2, <2>3 DEF HandledLines
    <3>2. pc # "failed"
      BY <2>1
    <3> QED BY <2>1, <3>1, <3>2 DEF SessionInv, AnswersFollowRequests
  <2> QED BY <1>0, <2>4, <2>5, <2>6 DEF SessionInv
<1>4. CASE ReadEof
  <2>1. /\ pc = "read" /\ pc' = "ended"
        /\ UNCHANGED <<sent, taken, registry, response, answers>>
    BY <1>4 DEF ReadEof, client
  <2>2. RegistryInv'
    BY <2>1 DEF SessionInv, RegistryInv, Counted
  <2>3. ResponseInv'
    BY <2>1 DEF ResponseInv
  <2>4. AnswersFollowRequests'
    BY <2>1 DEF SessionInv, AnswersFollowRequests, HandledLines
  <2> QED BY <1>0, <2>2, <2>3, <2>4 DEF SessionInv
<1>5. CASE Handle
  <2> DEFINE line == sent[taken]
  <2>1. /\ pc = "handle" /\ UNCHANGED <<sent, taken, answers>>
        /\ taken \in 1..Len(sent) /\ sent \in Seq(Lines)
        /\ Len(sent) \in Nat /\ Len(answers) \in Nat
    BY <1>0, <1>5 DEF Handle, MTypeOK, TypeInv, client
  <2>2. PICK last \in [ModelNames -> 0..(taken - 1)] :
          /\ LastImports(sent, last, taken - 1)
          /\ registry = ModelsOf(sent, last)
    BY <2>1 DEF SessionInv, RegistryInv, Counted
  <2>3. PICK next \in [ModelNames -> 0..taken] :
          /\ LastImports(sent, next, taken)
          /\ ModelsOf(sent, next) = Registered(registry, line)
    BY <2>1, <2>2, LastExtends
  <2>4. \/ /\ Owed(line) /\ pc' = "write"
           /\ response' = [to |-> taken, says |-> Says(registry, line)]
           /\ registry' = Registered(registry, line)
        \/ /\ ~Owed(line) /\ pc' = "read" /\ registry' = registry
    BY <1>5 DEF Handle
  <2>5. registry' = Registered(registry, line)
    BY <2>4, ImportsAreOwed DEF Registered
  <2>6. RegistryInv'
    <3>1. Counted' = taken
      BY <2>1, <2>4 DEF Counted
    <3> QED BY <2>1, <2>3, <2>5, <3>1 DEF RegistryInv
  <2>7. ResponseInv'
    <3>1. ASSUME pc' = "write" PROVE Right(sent, response')
      <4>1. /\ response'.to = taken /\ Owed(line)
            /\ response'.says = Says(registry, line)
        BY <2>4, <3>1
      <4> QED BY <2>1, <2>2, <4>1 DEF Right
    <3> QED BY <2>1, <3>1 DEF SessionInv, ResponseInv
  <2>8. AnswersFollowRequests'
    <3>1. \A i \in HandledLines' : i \in HandledLines \/ ~Owed(sent[i])
      BY <2>1, <2>4 DEF HandledLines
    <3>2. pc # "failed"
      BY <2>1
    <3> QED BY <2>1, <3>1, <3>2 DEF SessionInv, AnswersFollowRequests
  <2> QED BY <1>0, <2>6, <2>7, <2>8 DEF SessionInv
<1>6. CASE WriteResponse
  <2>1. /\ pc = "write" /\ pc' = "read" /\ UNCHANGED <<sent, taken, registry>>
        /\ answers' = Append(answers, response)
        /\ taken \in 1..Len(sent) /\ Len(sent) \in Nat
    BY <1>0, <1>6 DEF WriteResponse, MTypeOK, TypeInv, client
  <2>2. /\ Len(answers) \in Nat /\ Len(answers') = Len(answers) + 1
        /\ answers'[Len(answers) + 1] = response
        /\ \A j \in 1..Len(answers) : answers'[j] = answers[j]
    <3>1. PICK S : answers \in Seq(S)
      BY <1>0 DEF TypeInv
    <3> QED BY <2>1, <3>1
  <2>3. response.to = taken /\ Right(sent, response)
    BY <1>0, <2>1 DEF SessionInv, ResponseInv, MTypeOK
  <2>4. RegistryInv'
    BY <2>1 DEF SessionInv, RegistryInv, Counted
  <2>5. ResponseInv'
    BY <2>1 DEF ResponseInv
  <2>6. AnswersFollowRequests'
    <3>1. \A j \in 1..Len(answers') : /\ answers'[j].to \in 1..taken
                                     /\ Right(sent, answers'[j])
      BY <2>1, <2>2, <2>3 DEF SessionInv, AnswersFollowRequests
    <3>2. ASSUME NEW j \in 1..Len(answers'), NEW k \in 1..Len(answers'), j < k
          PROVE  answers'[j].to < answers'[k].to
      <4>1. j \in 1..Len(answers)
        BY <2>2, <3>2
      <4>2. answers[j].to < taken
        BY <2>1, <4>1 DEF SessionInv, ResponseInv
      <4>3. answers'[j].to < taken
        BY <2>2, <4>1, <4>2
      <4>4. CASE k = Len(answers) + 1
        <5>1. answers'[k].to = taken
          BY <2>2, <2>3, <4>4
        <5> QED BY <4>3, <5>1
      <4>5. CASE k \in 1..Len(answers)
        <5>1. answers[j].to < answers[k].to
          BY <3>2, <4>1, <4>5 DEF SessionInv, AnswersFollowRequests
        <5> QED BY <2>2, <4>1, <4>5, <5>1
      <4> QED BY <2>2, <3>2, <4>4, <4>5
    <3>3. ASSUME NEW i \in HandledLines', Owed(sent[i])
          PROVE  \E j \in 1..Len(answers') : answers'[j].to = i
      <4>1. i = taken \/ i \in HandledLines
        BY <2>1 DEF HandledLines
      <4>2. CASE i = taken
        BY <2>2, <2>3, <4>2
      <4>3. CASE i \in HandledLines
        <5>1. PICK j \in 1..Len(answers) : answers[j].to = i
          BY <2>1, <3>3, <4>3 DEF SessionInv, AnswersFollowRequests
        <5> QED BY <2>2, <5>1
      <4> QED BY <4>1, <4>2, <4>3
    <3> QED BY <2>1, <3>1, <3>2, <3>3 DEF AnswersFollowRequests
  <2> QED BY <1>0, <2>4, <2>5, <2>6 DEF SessionInv
<1>7. CASE WriteFails
  <2>1. /\ pc = "write" /\ pc' = "failed"
        /\ UNCHANGED <<sent, taken, registry, answers>>
    BY <1>7 DEF WriteFails, client
  <2>2. RegistryInv'
    BY <2>1 DEF SessionInv, RegistryInv, Counted
  <2>3. ResponseInv'
    BY <2>1 DEF ResponseInv
  <2>4. AnswersFollowRequests'
    BY <2>1 DEF SessionInv, AnswersFollowRequests
  <2> QED BY <1>0, <2>2, <2>3, <2>4 DEF SessionInv
<1>8. CASE ClientCloses
  BY <1>2, <1>8 DEF ClientCloses
<1>9. CASE ClientReads
  BY <1>2, <1>9 DEF ClientReads
<1>10. CASE ClientHangsUp
  BY <1>2, <1>10 DEF ClientHangsUp
<1>11. CASE UNCHANGED vars
  BY <1>2, <1>11 DEF vars, client
<1> QED BY <1>1, <1>3, <1>4, <1>5, <1>6, <1>7, <1>8, <1>9, <1>10, <1>11
        DEF Next, Serve

\* However the client writes its lines: every request that was handled has one
\* answer, in order, made of exactly the imports before it, and a notification
\* has neither answer nor effect.
THEOREM AnswersAreRight == Spec => []AnswersFollowRequests
<1>1. Spec => []SessionInv
  BY SessionInit, SessionStep, PTL DEF Spec
<1>2. SessionInv => AnswersFollowRequests
  BY DEF SessionInv
<1> QED BY <1>1, <1>2, PTL

-----------------------------------------------------------------------------
(* Stories *)

\* An answer with a story is that of run_qglake_story.
LEMMA StoryOfAnswer ==
  ASSUME NEW m, NEW line, "story" \in DOMAIN Says(m, line)
  PROVE  Says(m, line).story = Story(Specs)
<1>1. CASE line = Garbage
  BY <1>1 DEF Says
<1>2. CASE line # Garbage /\ line.method # "tools/call"
  BY <1>2 DEF Says
<1>3. CASE line # Garbage /\ line.method = "tools/call"
  <2>1. Says(m, line) = CallTool(m, line.tool, line.arguments)
    BY <1>3 DEF Says
  <2>2. CASE line.tool = "run_qglake_story"
    BY <2>1, <2>2 DEF CallTool, run_qglake_story
  <2>3. CASE line.tool # "run_qglake_story"
    <3> SUFFICES "story" \notin DOMAIN CallTool(m, line.tool, line.arguments)
      BY <2>1
    <3>1. CASE line.tool = "build_navigator_bundle"
      BY <3>1 DEF CallTool
    <3>2. CASE line.tool = "verify_envelope"
      BY <3>2 DEF CallTool
    <3>3. CASE line.tool = "import_semantic_model"
      BY <3>3 DEF CallTool
    <3>4. CASE line.tool = "search_semantic_models"
      BY <3>4 DEF CallTool
    <3>5. CASE line.tool = "answer_question"
      BY <3>5 DEF CallTool
    <3>6. CASE line.tool \notin Tools
      BY <3>6 DEF CallTool, Tools
    <3> QED BY <2>3, <3>1, <3>2, <3>3, <3>4, <3>5, <3>6 DEF Tools
  <2> QED BY <2>2, <2>3
<1> QED BY <1>1, <1>2, <1>3

\* Every story told is governed: its receipts stand under the policy published
\* with it, no agent may touch another one's compartment, and restricted data
\* contributes a denial only.
THEOREM StoriesAreGoverned == Spec => []StoriesGoverned
<1>1. Governed(Specs, Story(Specs))
  <2>1. \A a, b, c, d, e, f : <<a, b, c, d, e, f>> \in Seq({a, b, c, d, e, f})
    OBVIOUS
  <2>2. \E S : Specs \in Seq(S)
    BY <2>1 DEF Specs
  <2> QED BY <2>2, StoryIsGoverned
<1>2. AnswersFollowRequests => StoriesGoverned
  <2> SUFFICES ASSUME AnswersFollowRequests,
                      NEW j \in 1..Len(answers),
                      "story" \in DOMAIN answers[j].says
               PROVE  Governed(Specs, answers[j].says.story)
    BY DEF StoriesGoverned
  <2>1. PICK m, line : answers[j].says = Says(m, line)
    BY DEF AnswersFollowRequests, Right
  <2>2. answers[j].says.story = Story(Specs)
    BY <2>1, StoryOfAnswer
  <2> QED BY <1>1, <2>2
<1> QED BY <1>2, AnswersAreRight, PTL

-----------------------------------------------------------------------------
(* The session implements the registry *)

\* What the registry sees of the session follows from these four.
LEMMA SameView ==
  ASSUME UNCHANGED registry, Calling' = Calling, StageNow' = StageNow,
         Calling => CallOf(sent[taken])' = CallOf(sent[taken])
  PROVE  UNCHANGED Registry!vars
<1>1. SeenNow' = SeenNow
  <2>1. StageNow = "applied" => Calling
    BY DEF StageNow
  <2> QED BY <2>1 DEF SeenNow
<1> QED BY <1>1 DEF Registry!vars

LEMMA RegistryInit == Init => Registry!Init
<1> SUFFICES ASSUME Init PROVE Registry!Init
  OBVIOUS
<1>1. ~Calling /\ StageNow = "idle"
  BY DEF Init, Calling, StageNow
<1>2. SeenNow = Null
  BY <1>1 DEF SeenNow
<1> QED BY <1>1, <1>2 DEF Init, Registry!Init

\* A call is over, or never began.
LEMMA NoCall ==
  ASSUME UNCHANGED registry, ~Calling'
  PROVE  Registry!Next \/ UNCHANGED Registry!vars
<1>1. StageNow' = "idle" /\ SeenNow' = Null
  BY DEF StageNow, SeenNow
<1>2. CASE Calling
  <2>1. StageNow # "idle"
    BY <1>2 DEF StageNow
  <2>2. Registry!End("session")
    BY <1>1, <1>2, <2>1 DEF Registry!End
  <2> QED BY <2>2 DEF Registry!Next
<1>3. CASE ~Calling
  <2>1. StageNow = "idle" /\ SeenNow = Null
    BY <1>3 DEF StageNow, SeenNow
  <2> QED BY <1>1, <1>3, <2>1 DEF Registry!vars
<1> QED BY <1>2, <1>3

LEMMA RegistryStep ==
  TypeInv /\ [Next]_vars => Registry!Next \/ UNCHANGED Registry!vars
<1> SUFFICES ASSUME TypeInv, [Next]_vars
             PROVE  Registry!Next \/ UNCHANGED Registry!vars
  OBVIOUS
<1>0. /\ taken \in 0..Len(sent) /\ sent \in Seq(Lines) /\ Len(sent) \in Nat
      /\ registry = [n \in ModelNames |-> registry[n]]
      /\ pc = "handle" => taken \in 1..Len(sent)
      /\ pc = "write" => taken \in 1..Len(sent)
  <2>1. \E S : answers \in Seq(S)
    BY DEF TypeInv
  <2> QED BY <2>1 DEF TypeInv, MTypeOK
<1>1. ASSUME UNCHANGED <<pc, taken, registry>>,
             pc \in {"handle", "write"} => sent'[taken] = sent[taken]
      PROVE  UNCHANGED Registry!vars
  <2>1. Calling' = Calling
    BY <1>1 DEF Calling
  <2>2. Calling => CallOf(sent[taken])' = CallOf(sent[taken])
    BY <1>1 DEF CallOf, Calling
  <2>3. StageNow' = StageNow
    BY <1>1, <2>1, <2>2 DEF StageNow
  <2> QED BY <1>1, <2>1, <2>2, <2>3, SameView
<1>2. ASSUME NEW line \in Lines, ClientWrites(line)
      PROVE  UNCHANGED Registry!vars
  <2>1. pc \in {"handle", "write"} => sent'[taken] = sent[taken]
    BY <1>0, <1>2 DEF ClientWrites
  <2> QED BY <1>1, <1>2, <2>1 DEF ClientWrites
<1>3. CASE ClientCloses \/ ClientReads \/ ClientHangsUp
  BY <1>1, <1>3 DEF ClientCloses, ClientReads, ClientHangsUp
<1>4. CASE ReadLine
  <2> DEFINE line == sent[taken + 1]
  <2>1. /\ pc = "read" /\ taken' = taken + 1 /\ taken + 1 \in 1..Len(sent)
        /\ UNCHANGED <<sent, registry>> /\ line \in Lines
    BY <1>0, <1>4 DEF ReadLine, client
  <2>2. CASE ~Calling'
    BY <2>1, <2>2, NoCall
  <2>3. CASE Calling'
    <3>1. ~Calling /\ pc' = "handle" /\ OnRegistry(line)
      BY <1>4, <2>1, <2>3 DEF Calling, ReadLine
    <3>2. StageNow = "idle" /\ StageNow' = "called"
      BY <2>3, <3>1 DEF StageNow
    <3>3. SeenNow = Null /\ SeenNow' = Null
      BY <3>2 DEF SeenNow
    <3>4. CallOf(sent[taken])' = CallOf(line)
      BY <2>1
    <3>5. Registry!Invoke("session")
      BY <2>1, <2>3, <3>1, <3>2, <3>3, <3>4 DEF Registry!Invoke
    <3> QED BY <3>5 DEF Registry!Next
  <2> QED BY <2>2, <2>3
<1>5. CASE ReadEof \/ WriteResponse \/ WriteFails
  <2>1. ~Calling' /\ UNCHANGED registry
    BY <1>5 DEF ReadEof, WriteResponse, WriteFails, Calling, client
  <2> QED BY <2>1, NoCall
<1>6. CASE Handle
  <2> DEFINE line == sent[taken]
             c    == CallOf(line)
  <2>1. /\ pc = "handle" /\ UNCHANGED <<sent, taken>>
        /\ line \in Lines
        /\ IF Owed(line) THEN pc' = "write" ELSE pc' = "read"
        /\ registry' = Registered(registry, line)
    <3>1. Owed(line) \/ registry' = registry
      BY <1>6 DEF Handle
    <3> QED BY <1>0, <1>6, <3>1, ImportsAreOwed DEF Handle, client, Registered
  <2>2. Imports(line) => /\ OnRegistry(line)
                         /\ c = [kind |-> "import",
                                 name |-> DocumentOf(line.arguments).name,
                                 doc  |-> DocumentOf(line.arguments)]
    BY DEF Imports, OnRegistry, CallOf
  <2>3. CASE ~OnRegistry(line)
    <3>1. UNCHANGED registry /\ ~Calling'
      BY <2>1, <2>2, <2>3 DEF Registered, Calling
    <3> QED BY <3>1, NoCall
  <2>4. CASE OnRegistry(line)
    <3>1. Owed(line)
      BY <2>1, <2>4 DEF OnRegistry, IsCall, Owed
    <3>2. Calling /\ Calling' /\ CallOf(sent[taken])' = c
      BY <2>1, <2>4, <3>1 DEF Calling
    <3>3. StageNow = "called"
      BY <2>1, <3>2 DEF StageNow
    <3>4. CASE c.kind = "malformed"
      <4>1. StageNow' = "refused"
        BY <2>1, <3>1, <3>2, <3>4 DEF StageNow
      <4>2. ~Imports(line)
        BY <2>2, <3>4
      <4>3. UNCHANGED registry /\ SeenNow = Null /\ SeenNow' = Null
        BY <2>1, <3>3, <4>1, <4>2 DEF Registered, SeenNow
      <4>4. Registry!Refuse("session")
        BY <3>2, <3>3, <4>1, <4>3 DEF Registry!Refuse
      <4> QED BY <4>4 DEF Registry!Next
    <3>5. CASE c.kind # "malformed"
      <4>1. StageNow' = "applied"
        BY <2>1, <3>1, <3>2, <3>5 DEF StageNow
      <4>2. CASE Imports(line)
        <5>1. c.kind = "import" /\ SeenNow' = [n \in {} |-> Null]
          BY <2>2, <3>2, <4>1, <4>2 DEF SeenNow
        <5>2. registry' = [registry EXCEPT ![c.name] = c.doc]
          <6>1. /\ c.name = DocumentOf(line.arguments).name
                /\ c.doc = DocumentOf(line.arguments)
            BY <2>2, <4>2
          <6> HIDE DEF c, line
          <6> QED BY <2>1, <4>2, <6>1 DEF Registered
        <5>3. [n \in Registry!Visible(c) |-> registry[n]] = [n \in {} |-> Null]
          BY <5>1 DEF Registry!Visible
        <5>4. Registry!Apply("session")
          BY <3>2, <3>3, <3>5, <4>1, <5>1, <5>2, <5>3 DEF Registry!Apply
        <5> QED BY <5>4 DEF Registry!Next
      <4>3. CASE ~Imports(line)
        <5>1. c.kind = "all"
          BY <2>4, <3>5, <4>3 DEF CallOf, Imports, OnRegistry
        <5>2. registry' = registry
          BY <2>1, <4>3 DEF Registered
        <5>3. SeenNow' = registry
          BY <3>2, <4>1, <5>1, <5>2 DEF SeenNow
        <5>4. [n \in Registry!Visible(c) |-> registry[n]] = registry
          BY <1>0, <5>1 DEF Registry!Visible
        <5>5. Registry!Apply("session")
          BY <3>2, <3>3, <3>5, <4>1, <5>1, <5>2, <5>3, <5>4
             DEF Registry!Apply
        <5> QED BY <5>5 DEF Registry!Next
      <4> QED BY <4>2, <4>3
    <3> QED BY <3>4, <3>5
  <2> QED BY <2>3, <2>4
<1>7. CASE UNCHANGED vars
  BY <1>1, <1>7 DEF vars, client
<1> QED BY <1>2, <1>3, <1>4, <1>5, <1>6, <1>7 DEF Next, Serve

\* For any lines and any documents, the session is a registry: every call takes
\* effect at one instant, and nothing but an import sets a model.
THEOREM SessionIsRegistry == Spec => RegistrySpec
<1>1. Spec => []TypeInv
  BY TypeInit, TypeStep, PTL DEF Spec
<1>2. TypeInv /\ [Next]_vars => [Registry!Next]_(Registry!vars)
  BY RegistryStep
<1> QED BY <1>1, <1>2, RegistryInit, PTL DEF Spec, RegistrySpec, Registry!Spec

-----------------------------------------------------------------------------
(* Answers to questions *)

\* The parts of what a search finds are told apart by their kind.
LEMMA SearchParts ==
  ASSUME NEW model, NEW word, NEW h
  PROVE  /\ h \in Search(model, word) /\ h.kind = "dataset"
              <=> h \in DatasetMatches(model, word)
         /\ h \in Search(model, word) /\ h.kind = "field"
              <=> (\E d \in model.datasets : h \in FieldMatches(model, d, word))
<1>1. h \in Search(model, word)
        <=> \/ h \in DatasetMatches(model, word)
            \/ \E d \in model.datasets : h \in FieldMatches(model, d, word)
            \/ h \in MetricMatches(model, word)
            \/ h \in TermMatches(model, word)
  BY DEF Search
<1>2. /\ h \in DatasetMatches(model, word) => h.kind = "dataset"
      /\ \A d : h \in FieldMatches(model, d, word) => h.kind = "field"
      /\ h \in MetricMatches(model, word) => h.kind = "metric"
      /\ h \in TermMatches(model, word) => h.kind = "ontologyTerm"
  BY DEF DatasetMatches, FieldMatches, MetricMatches, TermMatches, Match
<1> QED BY <1>1, <1>2

\* A search finds a dataset exactly if the word is in it.
LEMMA DatasetsFound ==
  ASSUME NEW model, NEW word, NEW name
  PROVE  (\E h \in Search(model, word) : h.kind = "dataset" /\ h.name = name)
           <=> (\E d \in model.datasets : Hit(d, word) /\ d.name = name)
<1>1. (\E h \in Search(model, word) : h.kind = "dataset" /\ h.name = name)
        <=> \E h \in DatasetMatches(model, word) : h.name = name
  BY SearchParts
<1>2. \A d : Match(model, "dataset", d.name, Null).name = d.name
  BY DEF Match
<1>3. (\E h \in DatasetMatches(model, word) : h.name = name)
        <=> \E d \in model.datasets : Hit(d, word) /\ d.name = name
  BY <1>2, Zenon DEF DatasetMatches
<1> QED BY <1>1, <1>3

FieldHit(dataset, word) == \E f \in dataset.fields : Hit(f, word)

\* A search finds a field of a dataset exactly if the word is in one.
LEMMA FieldsFound ==
  ASSUME NEW model, NEW word
  PROVE  /\ \A h \in Search(model, word) : h.kind = "field" =>
              \E d \in model.datasets : FieldHit(d, word) /\ d.name = h.of
         /\ \A d \in model.datasets : FieldHit(d, word) =>
              \E h \in Search(model, word) : h.kind = "field" /\ h.of = d.name
<1>1. \A d : \A h \in FieldMatches(model, d, word) :
               FieldHit(d, word) /\ d.name = h.of
  BY DEF FieldMatches, FieldHit, Match
<1>2. \A h \in Search(model, word) : h.kind = "field" =>
        \E d \in model.datasets : FieldHit(d, word) /\ d.name = h.of
  BY <1>1, SearchParts
<1>3. ASSUME NEW d \in model.datasets, FieldHit(d, word)
      PROVE  \E h \in Search(model, word) : h.kind = "field" /\ h.of = d.name
  <2>1. PICK f \in d.fields : Hit(f, word)
    BY <1>3 DEF FieldHit
  <2> DEFINE h == Match(model, "field", f.name, d.name)
  <2>2. h \in FieldMatches(model, d, word)
    BY <2>1 DEF FieldMatches
  <2>3. h.of = d.name
    BY DEF Match
  <2> HIDE DEF h
  <2>4. h \in Search(model, word) /\ h.kind = "field"
    BY <2>2, SearchParts
  <2> QED BY <2>3, <2>4
<1> QED BY <1>2, <1>3

\* The datasets hit by a question are those it is about.
LEMMA HitDatasetsExact ==
  ASSUME NEW model, NEW question
  PROVE  HitDatasets(model, question)
           = {d.name : d \in {x \in model.datasets : About(question, x)}}
<1> DEFINE words == question \ ShortWords
           hits  == ModelMatches(model, question)
<1>1. \A h : h \in hits <=> \E word \in words : h \in Search(model, word)
  BY DEF ModelMatches
<1> HIDE DEF hits
<1>2. \A name : name \in HitDatasets(model, question)
        <=> \/ \E h \in hits : h.kind = "dataset" /\ h.name = name
            \/ \E h \in hits : h.kind = "field" /\ h.of = name
  BY DEF HitDatasets, hits
<1>3. ASSUME NEW name
      PROVE  (\E h \in hits : h.kind = "dataset" /\ h.name = name)
        <=> \E word \in words :
              \E d \in model.datasets : Hit(d, word) /\ d.name = name
  <2>1. ASSUME NEW word
        PROVE (\E h \in Search(model, word) : h.kind = "dataset" /\ h.name = name)
            <=> \E d \in model.datasets : Hit(d, word) /\ d.name = name
    BY DatasetsFound
  <2>2. (\E h \in hits : h.kind = "dataset" /\ h.name = name)
        <=> \E word \in words : \E h \in Search(model, word) :
              h.kind = "dataset" /\ h.name = name
    BY <1>1
  <2> QED BY <2>1, <2>2
<1>4. ASSUME NEW name
      PROVE  (\E h \in hits : h.kind = "field" /\ h.of = name)
        <=> \E word \in words :
              \E d \in model.datasets : FieldHit(d, word) /\ d.name = name
  <2>1. ASSUME NEW word
        PROVE (\E h \in Search(model, word) : h.kind = "field" /\ h.of = name)
            <=> \E d \in model.datasets : FieldHit(d, word) /\ d.name = name
    BY FieldsFound
  <2>2. (\E h \in hits : h.kind = "field" /\ h.of = name)
        <=> \E word \in words : \E h \in Search(model, word) :
              h.kind = "field" /\ h.of = name
    BY <1>1
  <2> QED BY <2>1, <2>2
<1>5. \A name : name \in HitDatasets(model, question)
        <=> \E d \in model.datasets : About(question, d) /\ d.name = name
  BY <1>2, <1>3, <1>4 DEF About, FieldHit
<1> QED BY <1>5

\* The models that an answer counts are those that stand.
LEMMA ModelsThatStand ==
  ASSUME NEW i \in 1..Len(sent), sent \in Seq(Lines),
         NEW last \in [ModelNames -> 0..(i - 1)], LastImports(sent, last, i - 1)
  PROVE  Models(ModelsOf(sent, last)) = Standing(i)
<1> DEFINE doc(k) == DocumentOf(sent[k].arguments)
           newest(k) == /\ Imports(sent[k])
                        /\ \A m \in (k + 1)..(i - 1) :
                             Imports(sent[m]) => doc(m).name # doc(k).name
<1>1. \A k \in 1..(i - 1) : Imports(sent[k]) => /\ doc(k).name \in ModelNames
                                                /\ doc(k) # Null
  BY McpAssumption DEF Imports
<1>2. \A n \in ModelNames : last[n] # 0 =>
        /\ last[n] \in 1..(i - 1) /\ newest(last[n]) /\ doc(last[n]).name = n
  BY DEF LastImports, ImportsModel
<1>3. \A k \in 1..(i - 1) : newest(k) => last[doc(k).name] = k
  <2> SUFFICES ASSUME NEW k \in 1..(i - 1), newest(k)
               PROVE  last[doc(k).name] = k
    OBVIOUS
  <2> DEFINE n == doc(k).name
  <2>1. n \in ModelNames /\ ImportsModel(sent[k], n)
    BY <1>1 DEF ImportsModel
  <2>2. last[n] \in 0..(i - 1) /\ ~(k \in (last[n] + 1)..(i - 1))
    BY <2>1 DEF LastImports
  <2>3. k <= last[n]
    BY <2>2
  <2>4. ASSUME k < last[n] PROVE FALSE
    <3>1. last[n] \in (k + 1)..(i - 1) /\ last[n] # 0
      BY <2>2, <2>4
    <3>2. Imports(sent[last[n]]) /\ doc(last[n]).name = n
      BY <1>2, <2>1, <3>1
    <3> QED BY <3>1, <3>2
  <2> QED BY <2>2, <2>3, <2>4
<1>4. \A d : d \in Models(ModelsOf(sent, last))
        <=> \E n \in ModelNames : last[n] # 0 /\ d = doc(last[n])
  BY <1>1, <1>2 DEF Models, ModelsOf
<1>5. \A d : d \in Standing(i) <=> \E k \in 1..(i - 1) : newest(k) /\ d = doc(k)
  BY DEF Standing
<1> HIDE DEF doc, newest
<1>6. \A k \in 1..(i - 1) : newest(k) => doc(k).name \in ModelNames
  BY <1>1 DEF newest
<1>7. ASSUME NEW d
      PROVE  d \in Models(ModelsOf(sent, last)) <=> d \in Standing(i)
  <2>1. d \in Models(ModelsOf(sent, last)) => d \in Standing(i)
    BY <1>2, <1>4, <1>5
  <2>2. ASSUME NEW k \in 1..(i - 1), newest(k), d = doc(k)
        PROVE  d \in Models(ModelsOf(sent, last))
    <3>1. last[doc(k).name] = k /\ k # 0
      BY <1>3, <2>2
    <3> QED BY <1>4, <1>6, <2>2, <3>1
  <2> QED BY <1>5, <2>1, <2>2
<1> QED BY <1>7

\* An answer to a question is that of answer_over_models.
LEMMA AnswerOfAnswer ==
  ASSUME NEW m, NEW line, "answer" \in DOMAIN Says(m, line)
  PROVE  \E question : Says(m, line).answer = Answer(Models(m), question)
<1>1. CASE line = Garbage
  BY <1>1 DEF Says
<1>2. CASE line # Garbage /\ line.method # "tools/call"
  BY <1>2 DEF Says
<1>3. CASE line # Garbage /\ line.method = "tools/call"
  <2>1. Says(m, line) = CallTool(m, line.tool, line.arguments)
    BY <1>3 DEF Says
  <2>2. CASE line.tool = "answer_question"
    BY <2>1, <2>2 DEF CallTool
  <2>3. CASE line.tool # "answer_question"
    <3> SUFFICES "answer" \notin DOMAIN CallTool(m, line.tool, line.arguments)
      BY <2>1
    <3>1. CASE line.tool = "build_navigator_bundle"
      BY <3>1 DEF CallTool
    <3>2. CASE line.tool = "verify_envelope"
      BY <3>2 DEF CallTool
    <3>3. CASE line.tool = "import_semantic_model"
      BY <3>3 DEF CallTool
    <3>4. CASE line.tool = "search_semantic_models"
      BY <3>4 DEF CallTool
    <3>5. CASE line.tool = "run_qglake_story"
      BY <3>5 DEF CallTool
    <3>6. CASE line.tool \notin Tools
      BY <3>6 DEF CallTool, Tools
    <3> QED BY <2>3, <3>1, <3>2, <3>3, <3>4, <3>5, <3>6 DEF Tools
  <2> QED BY <2>2, <2>3
<1> QED BY <1>1, <1>2, <1>3

\* The plans made over some models are for the datasets the question is about.
LEMMA PlansExact ==
  ASSUME NEW models, NEW question
  PROVE  /\ {<<p.dataset, p.source>> : p \in Plans(models, question)}
              = {<<d.name, d.source>> :
                   d \in UNION {Relevant(m, question) : m \in models}}
         /\ {p.source : p \in Plans(models, question)}
              = {d.source : d \in UNION {Relevant(m, question) : m \in models}}
<1> DEFINE relevant == UNION {Relevant(m, question) : m \in models}
           plan(d)  == [dataset |-> d.name, source |-> d.source,
                        columns |-> {f.name : f \in d.fields}]
<1>1. \A m \in models : Relevant(m, question)
        = {x \in m.datasets : x.name \in HitDatasets(m, question)}
  BY HitDatasetsExact DEF Relevant
<1>2. Plans(models, question)
        = UNION {{plan(d) : d \in Relevant(m, question)} : m \in models}
  BY <1>1 DEF Plans
<1>3. Plans(models, question) = {plan(d) : d \in relevant}
  BY <1>2
<1>4. \A d : plan(d).dataset = d.name /\ plan(d).source = d.source
  OBVIOUS
<1> HIDE DEF relevant, plan
<1>5. {<<p.dataset, p.source>> : p \in Plans(models, question)}
        = {<<d.name, d.source>> : d \in relevant}
  BY <1>3, <1>4
<1>6. {p.source : p \in Plans(models, question)} = {d.source : d \in relevant}
  BY <1>3, <1>4
<1> QED BY <1>5, <1>6 DEF relevant

\* Whatever was imported and however lines were pipelined: an answer plans for,
\* signs and reports as consulted exactly the datasets that its question is
\* about, in the models that stand when it is asked.
THEOREM PlansAreGrounded == Spec => []PlansGrounded
<1>1. TypeInv /\ AnswersFollowRequests => PlansGrounded
  <2> SUFFICES ASSUME TypeInv, AnswersFollowRequests,
                      NEW j \in 1..Len(answers),
                      "answer" \in DOMAIN answers[j].says
               PROVE  LET a == answers[j].says.answer
                          relevant == UNION {Relevant(m, a.question) :
                                               m \in Standing(answers[j].to)}
                      IN  /\ {<<p.dataset, p.source>> : p \in a.plans}
                               = {<<d.name, d.source>> : d \in relevant}
                          /\ a.signed.plans = a.plans
                          /\ a.inputs = {d.source : d \in relevant}
    BY DEF PlansGrounded
  <2> DEFINE i == answers[j].to
             a == answers[j].says.answer
  <2>1. i \in 1..Len(sent) /\ sent \in Seq(Lines)
    BY DEF TypeInv, MTypeOK, AnswersFollowRequests
  <2>2. PICK last \in [ModelNames -> 0..(i - 1)] :
          /\ LastImports(sent, last, i - 1)
          /\ answers[j].says = Says(ModelsOf(sent, last), sent[i])
    BY DEF AnswersFollowRequests, Right
  <2>3. PICK question : a = Answer(Models(ModelsOf(sent, last)), question)
    BY <2>2, AnswerOfAnswer
  <2>4. Models(ModelsOf(sent, last)) = Standing(i)
    BY <2>1, <2>2, ModelsThatStand
  <2>5. /\ a.question = question /\ a.signed.plans = a.plans
        /\ a.plans = Plans(Standing(i), question)
        /\ a.inputs = {p.source : p \in Plans(Standing(i), question)}
    BY <2>3, <2>4 DEF Answer
  <2> HIDE DEF a, i
  <2>6. /\ {<<p.dataset, p.source>> : p \in a.plans}
             = {<<d.name, d.source>> :
                  d \in UNION {Relevant(m, a.question) : m \in Standing(i)}}
        /\ a.inputs = {d.source : d \in
                         UNION {Relevant(m, a.question) : m \in Standing(i)}}
    <3>1. /\ {<<p.dataset, p.source>> : p \in Plans(Standing(i), question)}
               = {<<d.name, d.source>> :
                    d \in UNION {Relevant(m, question) : m \in Standing(i)}}
          /\ {p.source : p \in Plans(Standing(i), question)}
               = {d.source : d \in
                    UNION {Relevant(m, question) : m \in Standing(i)}}
      BY PlansExact
    <3> QED BY <2>5, <3>1, Zenon
  <2> QED BY <2>5, <2>6 DEF a, i
<1>2. Spec => []TypeInv
  BY TypeInit, TypeStep, PTL DEF Spec
<1> QED BY <1>1, <1>2, AnswersAreRight, PTL
=============================================================================
