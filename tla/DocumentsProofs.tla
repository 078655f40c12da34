-------------------------- MODULE DocumentsProofs --------------------------
(***************************************************************************)
(* Proofs about Documents, for every set of uploads and readers, every     *)
(* input, size and overlap of the chunks, and combination of faults.       *)
(***************************************************************************)
EXTENDS Documents, TLAPS

-----------------------------------------------------------------------------
(* Chunks *)

LEMMA Division ==
  ASSUME NEW a \in Nat, NEW d \in Nat, d > 0
  PROVE  /\ a \div d \in Nat
         /\ (a \div d) * d <= a
         /\ a < ((a \div d) + 1) * d
  OBVIOUS

LEMMA StridePositive == Stride \in Nat /\ Stride > 0 /\ CharsPerChunk \in Nat /\ Stride <= CharsPerChunk
  BY ChunkAssumption DEF Stride, CharsPerChunk, CharsPerToken

\* Multiplication is monotone: q and n count strides.
LEMMA Monotone ==
  ASSUME NEW q \in Int, NEW n \in Int, NEW d \in Nat, d > 0, q * d < n * d
  PROVE  q < n
  OBVIOUS

LEMMA CountBounds ==
  ASSUME NEW length \in Nat
  PROVE  /\ ChunkCount(length) \in Nat
         /\ length - 1 < ChunkCount(length) * Stride
         /\ length > 0 <=> ChunkCount(length) > 0
<1> DEFINE a == length + Stride - 1
           c == ChunkCount(length)
<1>1. a \in Nat /\ Stride \in Nat /\ Stride > 0
  BY StridePositive
<1>2. c \in Nat /\ c * Stride <= a /\ a < (c + 1) * Stride
  <2> HIDE DEF a
  <2>1. a \div Stride \in Nat /\ (a \div Stride) * Stride <= a /\ a < ((a \div Stride) + 1) * Stride
    BY <1>1, Division
  <2> QED
    BY <2>1 DEF a, ChunkCount
<1> HIDE DEF c
<1>3. (c + 1) * Stride = c * Stride + Stride
  BY <1>1, <1>2
<1>4. length - 1 < c * Stride
  BY <1>1, <1>2, <1>3
<1>5. c = 0 => c * Stride = 0
  BY <1>1
<1>6. c > 0 => c * Stride >= Stride
  BY <1>1, <1>2
<1> QED
  BY <1>1, <1>2, <1>4, <1>5, <1>6 DEF c

\* The pieces chunk_text cuts hold every character of the text and no other,
\* for every size, every smaller overlap and every length.
THEOREM PiecesCoverText ==
  ASSUME NEW length \in Nat
  PROVE  UNION { Piece(length, i) : i \in 0..(ChunkCount(length) - 1) } = 0..(length - 1)
<1> SUFFICES ASSUME NEW p \in 0..(length - 1)
             PROVE  \E i \in 0..(ChunkCount(length) - 1) : p \in Piece(length, i)
  BY DEF Piece
<1> DEFINE k == p \div Stride
<1>1. Stride \in Nat /\ Stride > 0 /\ CharsPerChunk \in Nat /\ Stride <= CharsPerChunk
  BY StridePositive
<1>2. k \in Nat /\ k * Stride <= p /\ p < (k + 1) * Stride
  BY <1>1, Division
<1>3. ChunkCount(length) \in Nat /\ length - 1 < ChunkCount(length) * Stride
  BY CountBounds
<1> HIDE DEF k
<1>4. (k + 1) * Stride = k * Stride + Stride
  BY <1>1, <1>2
<1>5. k * Stride < ChunkCount(length) * Stride
  BY <1>1, <1>2, <1>3
<1>6. k < ChunkCount(length)
  <2> DEFINE n == ChunkCount(length)
  <2> HIDE DEF n
  <2>1. n \in Int /\ k * Stride < n * Stride
    BY <1>3, <1>5 DEF n
  <2>2. k < n
    BY <1>1, <1>2, <2>1, Monotone
  <2> QED
    BY <2>2 DEF n
<1>7. k * Stride <= p /\ p < k * Stride + CharsPerChunk
  BY <1>1, <1>2, <1>4
<1>8. k \in 0..(ChunkCount(length) - 1)
  BY <1>2, <1>3, <1>6
<1> QED
  BY <1>7, <1>8 DEF Piece

-----------------------------------------------------------------------------
(* One upload at a time *)

UploadInv(u) == Placed(u) /\ RowsRight(u) /\ EventRight(u)

\* What a step leaves alone of an upload.
Untouched(u) ==
  /\ UNCHANGED <<pc[u], input[u], attempt[u], rows[u], embedded[u], session[u], outcome[u],
                 event[u], told[u]>>
  /\ u \in stored' <=> u \in stored

LEMMA UntouchedKeeps ==
  ASSUME NEW u \in Uploads, UploadInv(u), Untouched(u)
  PROVE  UploadInv(u)'
  BY DEF UploadInv, Untouched, Placed, RowsRight, EventRight, Alive, Settled, Unusable, WantsIndex,
         InWorkflow, Input, Row, Count

Step(u) == (\E q \in Inputs[u] : Receive(u, q)) \/ Serve(u) \/ ProcessDies(u)

LEMMA CountNat ==
  ASSUME TypeOK, NEW u \in Uploads, input[u] # Absent
  PROVE  /\ input[u] \in InputSet /\ Input(u).length \in Nat /\ Count(u) \in Nat
         /\ 0..(Count(u) - 1) \in SUBSET ChunkIndexes
<1>1. input[u] \in InputSet
  BY DEF TypeOK
<1>2. Input(u).length \in Lengths
  BY <1>1 DEF InputSet, Input
<1>3. Count(u) \in Nat
  BY <1>2, CountBounds, LengthsAssumption DEF Count
<1>4. \A i \in 0..(Count(u) - 1) : i \in Nat /\ i < ChunkCount(Input(u).length)
  BY <1>3 DEF Count
<1>5. 0..(Count(u) - 1) \subseteq ChunkIndexes
  BY <1>2, <1>4 DEF ChunkIndexes
<1> QED
  BY <1>1, <1>2, <1>3, <1>5, LengthsAssumption

ControlType ==
  /\ pc' \in [Uploads -> InFlight \cup {"idle", "done"}]
  /\ attempt' \in [Uploads -> Attempts]
  /\ outcome' \in [Uploads -> {"none", "indexed", "index_failed", "failure"}]
  /\ told' \in [Uploads -> Answers]

LEMMA RaiseType ==
  ASSUME TypeOK, NEW u \in Uploads, NEW code \in Answers, Raise(u, code)
  PROVE  ControlType
<1>1. CASE ~InWorkflow(u)
  BY <1>1 DEF Raise, Refuse, Tell, Goto, InFlight, TypeOK, ControlType
<1>2. CASE InWorkflow(u) /\ attempt[u] < MaxAttempts
  <2>1. attempt[u] + 1 \in Attempts
    BY <1>2, AttemptsAssumption DEF TypeOK, Attempts
  <2>2. attempt' = [attempt EXCEPT ![u] = attempt[u] + 1]
    BY <1>2 DEF Raise
  <2> QED
    BY <1>2, <2>1, <2>2 DEF Raise, Comes, Goto, InFlight, TypeOK, ControlType
<1>3. CASE InWorkflow(u) /\ ~(attempt[u] < MaxAttempts)
  BY <1>3 DEF Raise, StepFails, Comes, Goto, InFlight, TypeOK, ControlType
<1> QED
  BY <1>1, <1>2, <1>3

LEMMA ThrowType ==
  ASSUME TypeOK, NEW u \in Uploads, Throw(u)
  PROVE  ControlType
<1>1. CASE Input(u).door \in RagDoors
  BY <1>1, RaiseType DEF Throw, Answers
<1>2. CASE Input(u).door \notin RagDoors
  BY <1>2 DEF Throw, Comes, Goto, InFlight, TypeOK, ControlType
<1> QED
  BY <1>1, <1>2

LEMMA FailType ==
  ASSUME TypeOK, NEW u \in Uploads, NEW code \in Answers, Fail(u, code), UNCHANGED attempt
  PROVE  ControlType
<1>1. CASE Input(u).door = "upload"
  BY <1>1 DEF Fail, Refuse, Tell, Goto, InFlight, TypeOK, ControlType
<1>2. CASE Input(u).door = "rag_index"
  BY <1>2 DEF Fail, StepFails, Comes, Goto, InFlight, TypeOK, ControlType
<1>3. CASE Input(u).door \notin {"upload", "rag_index"}
  BY <1>3 DEF Fail, Comes, Goto, InFlight, TypeOK, ControlType
<1> QED
  BY <1>1, <1>2, <1>3

LEMMA StepType ==
  ASSUME TypeOK, NEW u \in Uploads, UploadInv(u), Step(u)
  PROVE  TypeOK'
<1> USE AttemptsAssumption DEF Goto, Tell, Comes, Answers, InFlight, Refuse, StepFails
<1>1. ASSUME NEW q \in Inputs[u], Receive(u, q) PROVE TypeOK'
  BY <1>1, InputsAssumption DEF Receive, TypeOK
<1>2. CASE ValidateFile(u) \/ Analyze(u) \/ AnalyzeFails(u)
  <2>1. ControlType
    <3>1. CASE \E code \in Answers : Raise(u, code)
      BY <3>1, RaiseType
    <3>2. CASE Proceed(u) /\ UNCHANGED <<attempt, outcome, told>>
      BY <3>2 DEF Proceed, TypeOK, ControlType
    <3>3. CASE StepFails(u) /\ UNCHANGED attempt
      BY <3>3 DEF TypeOK, ControlType
    <3>4. CASE (\E code \in Answers : Refuse(u, code)) /\ UNCHANGED attempt
      BY <3>4 DEF TypeOK, ControlType
    <3>5. CASE Goto(u, "provider") /\ UNCHANGED <<attempt, outcome, told>>
      BY <3>5 DEF TypeOK, ControlType
    <3> HIDE DEF Refuse, StepFails, Goto
    <3> QED
      BY <1>2, <3>1, <3>2, <3>3, <3>4, <3>5 DEF ValidateFile, Analyze, AnalyzeFails
  <2> QED
    BY <1>2, <2>1 DEF ValidateFile, Analyze, AnalyzeFails, ControlType, TypeOK
<1>3. CASE ParseFails(u)
  <2>1. FailureCode(Input(u)) \in Answers
    BY DEF FailureCode
  <2>2. ControlType
    BY <1>3, <2>1, FailType DEF ParseFails
  <2> QED
    BY <1>3, <2>2 DEF ParseFails, ControlType, TypeOK
<1>4. CASE EmbedChunk(u)
  BY <1>4 DEF EmbedChunk, TypeOK
<1>5. CASE EmbedFails(u)
  <2>1. ControlType
    <3>1. CASE Throw(u)
      BY <3>1, ThrowType
    <3>2. CASE Goto(u, "mark_failed") /\ UNCHANGED <<attempt, outcome, told>>
      BY <3>2 DEF TypeOK, ControlType
    <3> QED
      BY <1>5, <3>1, <3>2 DEF EmbedFails
  <2> QED
    BY <1>5, <2>1 DEF EmbedFails, ControlType, TypeOK
<1>6. CASE StatementFails(u)
  <2>1. ControlType
    BY <1>6, RaiseType, ThrowType DEF StatementFails
  <2> QED
    BY <1>6, <2>1 DEF StatementFails, ControlType, TypeOK
<1>7. CASE LogEvent(u) \/ Respond(u) \/ RecordStep(u)
  <2>1. CASE LogEvent(u)
    BY <2>1 DEF LogEvent, TypeOK
  <2>2. CASE Respond(u)
    BY <2>2 DEF Respond, TypeOK
  <2>3. CASE RecordStep(u)
    BY <2>3 DEF RecordStep, TypeOK
  <2> QED
    BY <1>7, <2>1, <2>2, <2>3
<1>8. CASE Commit(u) \/ Rollback(u) \/ ProcessDies(u)
  <2>1. CASE Commit(u)
    BY <2>1 DEF Commit, TypeOK
  <2>2. CASE Rollback(u)
    BY <2>2 DEF Rollback, TypeOK
  <2>3. CASE ProcessDies(u)
    BY <2>3 DEF ProcessDies, TypeOK
  <2> QED
    BY <1>8, <2>1, <2>2, <2>3
<1>9. ASSUME NEW row \in DocumentRows
      PROVE  [rows EXCEPT ![u][attempt[u]] = row] \in [Uploads -> [Attempts -> DocumentRows]]
  BY DEF TypeOK
<1>10. rows[u][attempt[u]] \in DocumentRows
  BY DEF TypeOK
<1>11. CASE CreateDocument(u)
  <2>1. [status |-> "pending", chunks |-> {}] \in DocumentRows
    BY DEF DocumentRows
  <2> QED
    BY <1>9, <1>11, <2>1 DEF CreateDocument, TypeOK
<1>12. CASE MarkFailed(u)
  <2>1. [rows[u][attempt[u]] EXCEPT !.status = "failed"] \in DocumentRows
    BY <1>10 DEF DocumentRows
  <2>2. rows' = [rows EXCEPT ![u][attempt[u]] = [rows[u][attempt[u]] EXCEPT !.status = "failed"]]
    BY <1>12 DEF MarkFailed
  <2>3. ControlType
    BY <1>12, FailType DEF MarkFailed
  <2>4. rows' \in [Uploads -> [Attempts -> DocumentRows]]
    BY <1>9, <2>1, <2>2
  <2>5. UNCHANGED <<input, embedded, session, event, stored, query, found>>
    BY <1>12 DEF MarkFailed
  <2> HIDE DEF InFlight, Answers
  <2> QED
    BY <2>3, <2>4, <2>5 DEF ControlType, TypeOK
<1>13. CASE StoreChunks(u)
  <2>1. [rows[u][attempt[u]] EXCEPT !.chunks = 0..(Count(u) - 1)] \in DocumentRows
    <3>1. input[u] # Absent
      BY <1>13 DEF StoreChunks, UploadInv, Placed
    <3> QED
      BY <1>10, <3>1, CountNat DEF DocumentRows
  <2>2. rows' = [rows EXCEPT ![u][attempt[u]] = [rows[u][attempt[u]] EXCEPT !.chunks = 0..(Count(u) - 1)]]
    BY <1>13 DEF StoreChunks
  <2> QED
    BY <1>9, <1>13, <2>1, <2>2 DEF StoreChunks, TypeOK
<1>14. CASE MarkIndexed(u)
  <2>1. [rows[u][attempt[u]] EXCEPT !.status = "indexed"] \in DocumentRows
    BY <1>10 DEF DocumentRows
  <2>2. rows' = [rows EXCEPT ![u][attempt[u]] = [rows[u][attempt[u]] EXCEPT !.status = "indexed"]]
    BY <1>14 DEF MarkIndexed
  <2> QED
    BY <1>9, <1>14, <2>1, <2>2 DEF MarkIndexed, TypeOK
<1> QED
  BY <1>1, <1>2, <1>3, <1>4, <1>5, <1>6, <1>7, <1>8, <1>11, <1>12, <1>13, <1>14 DEF Step, Serve
-----------------------------------------------------------------------------
(* What the upload's own step keeps *)

LEMMA ToRollback ==
  ASSUME NEW u \in Uploads, UploadInv(u), pc[u] # "done",
         pc'[u] = "rollback", input'[u] # Absent, u \notin stored',
         outcome'[u] = "none" \/ (outcome'[u] = outcome[u] /\ input'[u] = input[u])
  PROVE  UploadInv(u)'
  BY DEF UploadInv, Placed, RowsRight, EventRight, Alive, InFlight, Uploading, Unusable, WantsIndex,
         InWorkflow, Input

\* The rows are left alone.
RowsKept(u) == UNCHANGED <<rows[u], input[u], event[u]>> /\ (u \in stored' <=> u \in stored)

LEMMA ToRecord ==
  ASSUME NEW u \in Uploads, TypeOK, UploadInv(u), RowsKept(u), attempt'[u] = attempt[u],
         session'[u] \in {"active", "invalid"}, pc[u] \in InFlight \ {"rollback", "commit"},
         pc'[u] = "record", outcome'[u] = "failure", told'[u] = told[u],
         session'[u] = "active" => session[u] = "active" /\
           (\/ pc[u] \in {"validate", "provider"}
            \/ pc[u] \in {"parse", "embed"} /\ Input(u).door = "rag_index")
  PROVE  UploadInv(u)'
<1>1. Placed(u)'
  BY DEF UploadInv, Placed, RowsKept, InFlight, Uploading, Input, InWorkflow, Unusable, WantsIndex
<1>2. RowsRight(u)' /\ EventRight(u)'
  <2>1. CASE session'[u] = "invalid"
    BY <2>1 DEF UploadInv, Placed, RowsKept, RowsRight, EventRight, Alive, InFlight
  <2>2. CASE session'[u] = "active"
    <3>1. Alive(u) /\ u \notin stored /\ event[u] = "none"
      BY <2>2 DEF UploadInv, Placed, EventRight, Alive
    <3>2. \A a \in Attempts : Settled(u, a) /\ rows[u][a].status # "indexed"
      <4>1. CASE pc[u] = "embed"
        <5>1. Row(u) = [status |-> "pending", chunks |-> {}] /\ Input(u).door # "upload"
          BY <2>2, <3>1, <4>1 DEF UploadInv, RowsRight
        <5>2. \A a \in Attempts \ {attempt[u]} : Settled(u, a)
          BY <3>1 DEF UploadInv, RowsRight
        <5> QED
          BY <5>1, <5>2 DEF Settled, Row, NoRow
      <4>2. CASE pc[u] # "embed"
        BY <2>2, <3>1, <4>2 DEF UploadInv, RowsRight, Settled, Row, NoRow
      <4> QED
        BY <4>1, <4>2
    <3>3. Input(u).door \in VisionDoors => \A a \in Attempts : rows[u][a] = NoRow
      <4>1. Input(u).door = "rag_index" => Input(u).door \notin VisionDoors
        BY DEF VisionDoors, AnalyzeDoors, ExtractDoors
      <4> QED
        BY <2>2, <3>1, <4>1 DEF UploadInv, RowsRight, EventRight, Row
    <3>4. \A a \in Attempts : Settled(u, a)'
      BY <3>2 DEF Settled, RowsKept, Input, Count
    <3>5. attempt[u] \in Attempts
      BY DEF TypeOK
    <3>6. RowsRight(u)'
      BY <2>2, <3>1, <3>2, <3>4, <3>5 DEF RowsRight, UploadInv, RowsKept, Alive, Row, Uploading
    <3> QED
      BY <2>2, <3>1, <3>3, <3>6 DEF EventRight, RowsKept, Input
  <2> QED
    BY <2>1, <2>2
<1> QED
  BY <1>1, <1>2 DEF UploadInv

\* The attempt that raised is over; the next one begins with no row of its own.
LEMMA ToRetry ==
  ASSUME NEW u \in Uploads, TypeOK, UploadInv(u), RowsKept(u), attempt'[u] = attempt[u] + 1,
         attempt'[u] \in Attempts, session'[u] \in {"active", "invalid"},
         pc[u] \in InFlight \ {"rollback", "commit"},
         outcome'[u] = "none", told'[u] = told[u],
         IF Input(u).door = "rag_index"
           THEN pc'[u] = "parse" /\ Input(u).project \in Projects
           ELSE pc'[u] = "validate" /\ Input(u).door \in VisionDoors,
         session'[u] = "active" => session[u] = "active" /\
           (\/ pc[u] \in {"validate", "provider"}
            \/ pc[u] \in {"parse", "embed"} /\ Input(u).door = "rag_index")
  PROVE  UploadInv(u)'
<1>1. Placed(u)'
  BY DEF UploadInv, Placed, RowsKept, InFlight, Uploading, Input, InWorkflow, Unusable, WantsIndex,
         VisionDoors, AnalyzeDoors, ExtractDoors
<1>2. RowsRight(u)' /\ EventRight(u)'
  <2>1. CASE session'[u] = "invalid"
    BY <2>1 DEF UploadInv, Placed, RowsKept, RowsRight, EventRight, Alive, InFlight
  <2>2. CASE session'[u] = "active"
    <3>1. Alive(u) /\ u \notin stored /\ u \notin stored' /\ event[u] = "none"
      BY <2>2 DEF UploadInv, Placed, EventRight, Alive, RowsKept
    <3>2. attempt[u] \in Attempts /\ attempt[u] \in Nat /\ Attempts \subseteq Nat
      BY DEF TypeOK, Attempts
    <3>3. \A a \in Attempts : Settled(u, a) /\ rows[u][a].status # "indexed"
      <4>1. CASE pc[u] = "embed"
        <5>1. Row(u) = [status |-> "pending", chunks |-> {}] /\ Input(u).door # "upload"
          BY <2>2, <3>1, <4>1 DEF UploadInv, RowsRight
        <5>2. \A a \in Attempts \ {attempt[u]} : Settled(u, a)
          BY <3>1 DEF UploadInv, RowsRight
        <5> QED
          BY <5>1, <5>2 DEF Settled, Row, NoRow
      <4>2. CASE pc[u] # "embed"
        BY <2>2, <3>1, <4>2 DEF UploadInv, RowsRight, Settled, Row, NoRow
      <4> QED
        BY <4>1, <4>2
    <3>4. \A a \in Attempts : Settled(u, a)'
      BY <3>3 DEF Settled, RowsKept, Input, Count, NoRow
    <3>5. \A a \in Attempts : a > attempt[u] => rows[u][a] = NoRow
      BY <3>1 DEF UploadInv, RowsRight
    <3>6. rows'[u][attempt'[u]] = NoRow /\ \A a \in Attempts : a > attempt'[u] => rows'[u][a] = NoRow
      BY <3>2, <3>5 DEF RowsKept
    <3>7. pc'[u] \in {"validate", "parse"}
      OBVIOUS
    <3>8. RowsRight(u)'
      BY <3>1, <3>4, <3>6, <3>7 DEF RowsRight, Row
    <3>9. Input(u).door \in VisionDoors => \A a \in Attempts : rows[u][a] = NoRow
      <4>1. Input(u).door = "rag_index" => Input(u).door \notin VisionDoors
        BY DEF VisionDoors, AnalyzeDoors, ExtractDoors
      <4> QED
        BY <2>2, <3>1, <4>1 DEF UploadInv, RowsRight, EventRight, Row
    <3>10. EventRight(u)'
      BY <3>1, <3>7, <3>9 DEF EventRight, RowsKept, Input
    <3> QED
      BY <3>8, <3>10
  <2> QED
    BY <2>1, <2>2
<1> QED
  BY <1>1, <1>2 DEF UploadInv

LEMMA AfterRaise ==
  ASSUME NEW u \in Uploads, TypeOK, UploadInv(u), RowsKept(u), NEW code \in Answers, Raise(u, code),
         session'[u] \in {"active", "invalid"}, pc[u] \in InFlight \ {"rollback", "commit"},
         Input(u).door = "rag_index" => pc[u] \in Uploading,
         Input(u).door \notin RagDoors => Input(u).door \in VisionDoors,
         session'[u] = "active" => session[u] = "active" /\
           (\/ pc[u] \in {"validate", "provider"}
            \/ pc[u] \in {"parse", "embed"} /\ Input(u).door \in RagDoors)
  PROVE  UploadInv(u)'
<1> USE DEF Goto, Tell, Comes
<1>1. CASE ~InWorkflow(u)
  <2>1. pc'[u] = "rollback" /\ outcome'[u] = outcome[u] /\ input'[u] = input[u] /\ u \notin stored'
    BY <1>1 DEF Raise, Refuse, TypeOK, RowsKept, UploadInv, Placed, InFlight
  <2>2. pc[u] # "done" /\ input[u] # Absent
    BY DEF UploadInv, Placed, InFlight
  <2> QED
    BY <2>1, <2>2, ToRollback
<1>2. Input(u).door \in Workflows => Input(u).door # "upload"
  BY DEF Workflows
<1>3. CASE InWorkflow(u) /\ attempt[u] < MaxAttempts
  <2>1. attempt[u] + 1 \in Attempts /\ attempt' = [attempt EXCEPT ![u] = attempt[u] + 1]
    BY <1>3, AttemptsAssumption DEF TypeOK, Attempts, Raise
  <2>2. /\ attempt'[u] = attempt[u] + 1 /\ outcome'[u] = "none" /\ told'[u] = told[u]
        /\ pc'[u] = IF Input(u).door = "rag_index" THEN "parse" ELSE "validate"
    BY <1>3, <2>1 DEF TypeOK, Raise
  <2>3. Input(u).door = "rag_index" => Input(u).project \in Projects
    BY DEF UploadInv, Placed
  <2>4. Input(u).door # "rag_index" => Input(u).door \in VisionDoors
    BY <1>2, <1>3 DEF InWorkflow, RagDoors
  <2>5. Input(u).door \in RagDoors => Input(u).door = "rag_index"
    BY <1>2, <1>3 DEF InWorkflow, RagDoors
  <2> QED
    BY <2>1, <2>2, <2>3, <2>4, <2>5, ToRetry
<1>4. CASE InWorkflow(u) /\ ~(attempt[u] < MaxAttempts)
  <2>1. /\ pc'[u] = "record" /\ outcome'[u] = "failure" /\ told'[u] = told[u]
        /\ attempt'[u] = attempt[u]
    BY <1>4 DEF Raise, StepFails, TypeOK
  <2>2. Input(u).door \in RagDoors => Input(u).door = "rag_index"
    BY <1>2, <1>4 DEF InWorkflow, RagDoors
  <2> QED
    BY <2>1, <2>2, ToRecord
<1> QED
  BY <1>1, <1>3, <1>4

\* Vision goes on to its event whatever became of the indexing.
LEMMA ToLog ==
  ASSUME NEW u \in Uploads, TypeOK, UploadInv(u), UNCHANGED <<input[u], event[u]>>,
         u \in stored' <=> u \in stored, attempt'[u] = attempt[u],
         pc[u] \in Uploading \cup {"validate", "provider"}, Input(u).door \in VisionDoors,
         pc'[u] = "log", outcome'[u] \in {"none", "index_failed"}, told'[u] = told[u],
         session'[u] \in {"active", "invalid"},
         session'[u] = "active" => session[u] = "active" /\ rows'[u][attempt[u]].status # "indexed"
           /\ (rows'[u][attempt[u]] = NoRow
               \/ (rows'[u][attempt[u]].status \in {"pending", "failed"} /\ rows'[u][attempt[u]].chunks = {})),
         \A a \in Attempts \ {attempt[u]} : rows'[u][a] = rows[u][a]
  PROVE  UploadInv(u)'
<1>1. Input(u).door # "upload" /\ Input(u).door # "rag_index"
  BY DEF VisionDoors, AnalyzeDoors, ExtractDoors
<1>2. Placed(u)'
  BY DEF UploadInv, Placed, InFlight, Uploading, Input, InWorkflow, Unusable, WantsIndex
<1>3. RowsRight(u)' /\ EventRight(u)'
  <2>1. CASE session'[u] = "invalid"
    BY <2>1 DEF UploadInv, Placed, RowsRight, EventRight, Alive, InFlight, Uploading
  <2>2. CASE session'[u] = "active"
    <3>1. Alive(u) /\ u \notin stored /\ u \notin stored' /\ event[u] = "none"
      BY <2>2 DEF UploadInv, Placed, EventRight, Alive, InFlight, Uploading
    <3>2. \A a \in Attempts \ {attempt[u]} : rows'[u][a] = NoRow
      BY <3>1 DEF UploadInv, EventRight, Uploading
    <3>3. attempt[u] \in Attempts /\ Attempts \subseteq Nat
      BY DEF TypeOK, Attempts
    <3>4. \A a \in Attempts : Settled(u, a)'
      BY <1>1, <2>2, <3>2 DEF Settled, Input
    <3>5. RowsRight(u)'
      BY <2>2, <3>1, <3>2, <3>3, <3>4 DEF RowsRight, Row, Uploading
    <3> QED
      BY <3>1, <3>2, <3>5 DEF EventRight
  <2> QED
    BY <2>1, <2>2
<1> QED
  BY <1>2, <1>3 DEF UploadInv

LEMMA AfterThrow ==
  ASSUME NEW u \in Uploads, TypeOK, UploadInv(u), RowsKept(u), Throw(u),
         session'[u] \in {"active", "invalid"},
         session'[u] = "active" => session[u] = "active" /\ pc[u] = "embed",
         pc[u] \in Uploading
  PROVE  UploadInv(u)'
<1>1. CASE Input(u).door \in RagDoors
  BY <1>1, AfterRaise DEF Throw, Answers, InFlight, Uploading
<1>2. CASE Input(u).door \notin RagDoors
  <2>1. Input(u).door \in VisionDoors
    BY <1>2, CountNat DEF UploadInv, Placed, Uploading, InputSet, Input
  <2>2. pc'[u] = "log" /\ outcome'[u] = "index_failed" /\ told'[u] = told[u] /\ attempt'[u] = attempt[u]
    BY <1>2 DEF Throw, Comes, Goto, TypeOK
  <2>3. session'[u] = "active" => Row(u) = [status |-> "pending", chunks |-> {}]
    BY DEF UploadInv, RowsRight, Alive, InFlight
  <2> QED
    BY <2>1, <2>2, <2>3, ToLog DEF RowsKept, Row
<1> QED
  BY <1>1, <1>2

LEMMA AfterFail ==
  ASSUME NEW u \in Uploads, TypeOK, UploadInv(u), UNCHANGED <<input[u], event[u], session[u], attempt[u]>>,
         u \in stored' <=> u \in stored, NEW code \in Answers, Fail(u, code),
         \/ pc[u] = "parse" /\ rows'[u] = rows[u]
         \/ pc[u] = "mark_failed" /\ session[u] = "active"
            /\ rows'[u][attempt[u]] = [status |-> "failed", chunks |-> {}]
            /\ \A a \in Attempts \ {attempt[u]} : rows'[u][a] = rows[u][a]
  PROVE  UploadInv(u)'
<1> USE DEF Goto, Tell, Comes
<1>1. pc[u] \in Uploading /\ input[u] # Absent /\ u \notin stored'
  BY DEF Uploading, UploadInv, Placed
<1>2. CASE Input(u).door = "upload"
  BY <1>1, <1>2, ToRollback DEF Fail, Refuse, TypeOK, UploadInv, Placed, Uploading
<1>3. CASE Input(u).door = "rag_index"
  <2>1. pc'[u] = "record" /\ outcome'[u] = "failure" /\ told'[u] = told[u]
    BY <1>3 DEF Fail, StepFails, TypeOK
  <2>2. session[u] \in {"active", "invalid"}
    BY DEF TypeOK
  <2>3. CASE pc[u] = "parse"
    <3>1. RowsKept(u)
      BY <2>3 DEF RowsKept
    <3>2. session'[u] \in {"active", "invalid"} /\ session'[u] = session[u] /\ attempt'[u] = attempt[u]
      BY <2>2
    <3>3. pc[u] \in InFlight \ {"rollback", "commit"}
      BY <2>3 DEF InFlight
    <3>4. session'[u] = "active" => session[u] = "active" /\ pc[u] \in {"parse", "embed"}
      BY <2>3, <3>2
    <3> QED
      BY <1>3, <2>1, <3>1, <3>2, <3>3, <3>4, ToRecord
  <2>4. CASE pc[u] = "mark_failed"
    <3>1. Input(u).door \notin VisionDoors
      BY <1>3 DEF VisionDoors, AnalyzeDoors, ExtractDoors
    <3>2. Placed(u)'
      BY <1>1, <1>3, <2>1, <2>4, <3>1
      DEF UploadInv, Placed, InFlight, Uploading, Input, InWorkflow, Unusable, WantsIndex
    <3>3. Alive(u) /\ event[u] = "none"
      BY <2>4 DEF UploadInv, EventRight, Alive, InFlight
    <3>4. \A a \in Attempts : Settled(u, a)' /\ rows'[u][a].status # "indexed"
      <4>1. \A a \in Attempts \ {attempt[u]} : Settled(u, a)
        BY <3>3 DEF UploadInv, RowsRight
      <4>2. \A a \in Attempts \ {attempt[u]} : Settled(u, a)' /\ rows'[u][a].status # "indexed"
        BY <2>4, <4>1 DEF Settled, NoRow, Input, Count
      <4>3. Settled(u, attempt[u])' /\ rows'[u][attempt[u]].status # "indexed"
        BY <1>3, <2>4 DEF Settled, Input
      <4> QED
        BY <4>2, <4>3
    <3>5. attempt[u] \in Attempts /\ Attempts \subseteq Nat
      BY DEF TypeOK, Attempts
    <3>6. \A a \in Attempts : a > attempt'[u] => rows'[u][a] = NoRow
      BY <2>4, <3>3, <3>5 DEF UploadInv, RowsRight
    <3>7. RowsRight(u)'
      BY <1>1, <2>1, <2>4, <3>4, <3>5, <3>6 DEF RowsRight, Row
    <3>8. EventRight(u)'
      BY <1>1, <2>1, <3>1, <3>3 DEF EventRight, Input
    <3> QED
      BY <3>2, <3>7, <3>8 DEF UploadInv
  <2> QED
    BY <2>3, <2>4
<1>4. CASE Input(u).door \notin RagDoors
  <2>1. Input(u).door \in VisionDoors
    BY <1>1, <1>4, CountNat DEF InputSet, Input
  <2>2. pc'[u] = "log" /\ outcome'[u] = "index_failed" /\ told'[u] = told[u]
    BY <1>4 DEF Fail, RagDoors, TypeOK
  <2>3. session[u] = "active" /\ pc[u] = "parse" => Row(u) = NoRow
    BY DEF UploadInv, RowsRight, Alive, InFlight
  <2>4. session[u] \in {"active", "invalid"} /\ NoRow.status # "indexed"
    BY DEF TypeOK, NoRow
  <2>5. session'[u] = "active" => session[u] = "active" /\ rows'[u][attempt[u]].status # "indexed"
           /\ (rows'[u][attempt[u]] = NoRow
               \/ (rows'[u][attempt[u]].status \in {"pending", "failed"} /\ rows'[u][attempt[u]].chunks = {}))
    <3>1. CASE pc[u] = "parse" /\ rows'[u] = rows[u]
      <4>1. session'[u] = session[u]
        OBVIOUS
      <4>2. session[u] = "active" => rows[u][attempt[u]] = NoRow
        BY <2>3, <3>1 DEF Row
      <4> QED
        BY <3>1, <4>1, <4>2 DEF NoRow
    <3>2. CASE session[u] = "active" /\ rows'[u][attempt[u]] = [status |-> "failed", chunks |-> {}]
      BY <3>2
    <3> QED
      BY <3>1, <3>2
  <2>6. (\A a \in Attempts \ {attempt[u]} : rows'[u][a] = rows[u][a]) /\ session'[u] \in {"active", "invalid"}
    BY <2>4
  <2>7. UNCHANGED <<input[u], event[u]>> /\ attempt'[u] = attempt[u]
    OBVIOUS
  <2> HIDE DEF Goto, Tell, Comes
  <2> QED
    BY <1>1, <2>1, <2>2, <2>5, <2>6, <2>7, ToLog
<1> QED
  BY <1>2, <1>3, <1>4 DEF RagDoors

LEMMA RowUpdate ==
  ASSUME TypeOK, NEW u \in Uploads, NEW row, rows' = [rows EXCEPT ![u][attempt[u]] = row]
  PROVE  /\ rows'[u][attempt[u]] = row
         /\ \A a \in Attempts \ {attempt[u]} : rows'[u][a] = rows[u][a]
         /\ \A q \in Uploads \ {u} : rows'[q] = rows[q]
  BY DEF TypeOK

LEMMA Received ==
  ASSUME TypeOK, NEW u \in Uploads, UploadInv(u), NEW q \in Inputs[u], Receive(u, q)
  PROVE  UploadInv(u)'
<1> USE DEF Goto, Tell, Comes
<1>1. q \in InputSet /\ q # Absent
  BY InputsAssumption, AbsentAssumption
<1>2. /\ input'[u] = q /\ u \notin stored' /\ pc[u] = "idle" /\ outcome[u] = "none"
      /\ told[u] = "none" /\ (\A a \in Attempts : rows[u][a] = NoRow)
      /\ UNCHANGED <<attempt, rows, embedded, session, event, stored>>
  BY DEF Receive, TypeOK, UploadInv, Placed
<1>3. CASE \E code \in Answers : Refuse(u, code)
  BY <1>1, <1>2, <1>3, ToRollback DEF Refuse, TypeOK
<1>4. attempt[u] \in Attempts /\ (\A a \in Attempts : Settled(u, a)') /\ NoRow.status # "indexed"
  BY <1>2 DEF TypeOK, Settled, NoRow
<1>5. event[u] = "none"
  BY <1>2 DEF UploadInv, Placed
<1>6. CASE StepFails(u) /\ UNCHANGED told
  <2>1. pc'[u] = "record" /\ outcome'[u] = "failure" /\ told'[u] = "none"
    BY <1>2, <1>6 DEF StepFails, TypeOK
  <2>2. Placed(u)'
    BY <1>1, <1>2, <2>1 DEF Placed, Uploading, InFlight, Input
  <2>3. RowsRight(u)'
    BY <1>2, <1>4, <2>1 DEF RowsRight, Row, Uploading
  <2>4. EventRight(u)'
    BY <1>2, <1>5, <2>1 DEF EventRight, Input
  <2> QED
    BY <2>2, <2>3, <2>4 DEF UploadInv
<1>7. CASE /\ ~Incomplete(q) /\ ~Unprocessable(q)
           /\ Goto(u, IF q.door \in RagDoors THEN "parse" ELSE "validate")
           /\ UNCHANGED <<told, outcome>>
  <2>1. pc'[u] = (IF q.door \in RagDoors THEN "parse" ELSE "validate") /\ told'[u] = "none"
        /\ outcome'[u] = "none"
    BY <1>2, <1>7 DEF TypeOK
  <2>2. q.door \notin RagDoors => q.door \in VisionDoors
    BY <1>1 DEF InputSet
  <2>3. q.door \in RagDoors => q.door \notin VisionDoors /\ q.project \in Projects
    <3>1. q.project \in Projects \cup {NoProject, BadProject}
      BY <1>1 DEF InputSet
    <3> QED
      BY <1>7, <3>1 DEF VisionDoors, AnalyzeDoors, ExtractDoors, RagDoors, Unprocessable, Incomplete
  <2>4. Placed(u)'
    BY <1>1, <1>2, <2>1, <2>2, <2>3 DEF Placed, Uploading, InFlight, Input
  <2>5. RowsRight(u)'
    BY <1>2, <1>4, <2>1 DEF RowsRight, Row, Uploading
  <2>6. EventRight(u)'
    BY <1>2, <1>5, <2>1, <2>2, <2>3 DEF EventRight, Input
  <2> QED
    BY <2>4, <2>5, <2>6 DEF UploadInv
<1> HIDE DEF Goto, Tell, Comes
<1>8. "403" \in Answers /\ "422" \in Answers
  BY DEF Answers
<1>9. CASE Incomplete(q) \/ Forbidden(q)
  BY <1>3, <1>8, <1>9 DEF Receive
<1>10. CASE ~Incomplete(q) /\ ~Forbidden(q) /\ Unprocessable(q)
  <2>1. StepFails(u) \/ Refuse(u, "422")
    BY <1>10 DEF Receive
  <2> QED
    BY <1>3, <1>6, <1>8, <2>1 DEF StepFails
<1>11. CASE ~Incomplete(q) /\ ~Forbidden(q) /\ ~Unprocessable(q)
  BY <1>7, <1>11 DEF Receive
<1> QED
  BY <1>9, <1>10, <1>11

\* Proceed: to the upload, or straight to the event.
LEMMA Proceeded ==
  ASSUME TypeOK, NEW u \in Uploads, UploadInv(u), pc[u] \in {"validate", "provider"}, Proceed(u),
         UNCHANGED <<attempt, outcome, told, input, rows, embedded, session, event, stored>>
  PROVE  UploadInv(u)'
<1>1. Input(u).door \in VisionDoors /\ input[u] # Absent /\ outcome[u] = "none" /\ told[u] = "none"
      /\ u \notin stored
  BY DEF UploadInv, Placed, InFlight
<1>2. session[u] = "active" =>
        Alive(u) /\ Row(u) = NoRow /\ event[u] = "none"
        /\ \A a \in Attempts \ {attempt[u]} : Settled(u, a) /\ rows[u][a] = NoRow
  BY <1>1 DEF UploadInv, RowsRight, EventRight, Alive, InFlight, Uploading
<1>3. CASE WantsIndex(u)
  <2>1. pc'[u] = "parse"
    BY <1>3 DEF Proceed, Goto, TypeOK
  <2>2. Placed(u)'
    BY <1>1, <1>3, <2>1 DEF Placed, WantsIndex, Input, InFlight, Uploading
  <2>3. RowsRight(u)'
    BY <1>1, <1>2, <2>1 DEF UploadInv, RowsRight, Alive, Row, Settled, Input, Count
  <2>4. session'[u] = "active" =>
          event'[u] = "none" /\ \A a \in Attempts \ {attempt'[u]} : rows'[u][a] = NoRow
    <3>1. session' = session /\ event' = event /\ attempt' = attempt /\ rows' = rows
      OBVIOUS
    <3> QED
      BY <1>2, <3>1
  <2>5. u \notin stored'
    BY <1>1
  <2>6. EventRight(u)'
    BY <2>1, <2>4, <2>5 DEF EventRight, Alive
  <2> QED
    BY <2>2, <2>3, <2>6 DEF UploadInv
<1>4. CASE ~WantsIndex(u)
  <2>1. pc'[u] = "log"
    BY <1>4 DEF Proceed, Goto, TypeOK
  <2>2. session'[u] \in {"active", "invalid"} /\ NoRow.status # "indexed"
    BY DEF TypeOK, NoRow
  <2>3. session'[u] = "active" => session[u] = "active" /\ rows'[u][attempt[u]] = NoRow
    BY <1>2 DEF Row
  <2>4. /\ UNCHANGED <<input[u], event[u]>> /\ (u \in stored' <=> u \in stored)
        /\ attempt'[u] = attempt[u] /\ told'[u] = told[u] /\ outcome'[u] \in {"none", "index_failed"}
        /\ \A a \in Attempts \ {attempt[u]} : rows'[u][a] = rows[u][a]
    BY <1>1
  <2>5. session'[u] = "active" => session[u] = "active" /\ rows'[u][attempt[u]].status # "indexed"
           /\ (rows'[u][attempt[u]] = NoRow
               \/ (rows'[u][attempt[u]].status \in {"pending", "failed"} /\ rows'[u][attempt[u]].chunks = {}))
    <3>1. rows' = rows /\ session' = session
      OBVIOUS
    <3> QED
      BY <1>2, <3>1 DEF Row, NoRow
  <2>6. pc[u] \in Uploading \cup {"validate", "provider"}
    OBVIOUS
  <2> QED
    BY <1>1, <2>1, <2>2, <2>4, <2>5, <2>6, ToLog
<1> QED
  BY <1>3, <1>4

LEMMA Entered ==
  ASSUME TypeOK, NEW u \in Uploads, UploadInv(u), ValidateFile(u) \/ Analyze(u) \/ AnalyzeFails(u)
  PROVE  UploadInv(u)'
<1>1. /\ Input(u).door \in VisionDoors /\ input[u] # Absent /\ outcome[u] = "none"
      /\ u \notin stored /\ pc[u] \in {"validate", "provider"} /\ session[u] \in {"active", "invalid"}
      /\ told[u] = "none"
  BY DEF UploadInv, Placed, ValidateFile, Analyze, AnalyzeFails, TypeOK, InFlight
<1>2. UNCHANGED <<input, rows, embedded, session, event, stored>>
  BY DEF ValidateFile, Analyze, AnalyzeFails
<1>3. RowsKept(u)
  BY <1>2 DEF RowsKept
<1>4. Input(u).door # "rag_index" /\ Input(u).door \notin RagDoors
  BY <1>1 DEF VisionDoors, AnalyzeDoors, ExtractDoors, RagDoors
<1>5. CASE Proceed(u) /\ UNCHANGED <<attempt, outcome, told>>
  BY <1>1, <1>2, <1>5, Proceeded
<1>6. CASE \E code \in Answers : Raise(u, code)
  BY <1>1, <1>2, <1>3, <1>4, <1>6, AfterRaise DEF InFlight
<1>7. CASE StepFails(u) /\ UNCHANGED attempt
  <2>1. pc'[u] = "record" /\ outcome'[u] = "failure" /\ told'[u] = told[u]
    BY <1>7 DEF StepFails, Goto, Comes, TypeOK
  <2> QED
    BY <1>1, <1>2, <1>3, <1>7, <2>1, ToRecord DEF InFlight
<1>8. CASE \E code \in Answers : Refuse(u, code)
  BY <1>1, <1>2, <1>8, ToRollback DEF Refuse, Goto, TypeOK
<1>9. CASE Goto(u, "provider") /\ UNCHANGED <<attempt, outcome, told>>
  <2>1. pc'[u] = "provider" /\ pc[u] # "done"
    BY <1>1, <1>9 DEF Goto, TypeOK
  <2>2. Placed(u)'
    BY <1>1, <1>2, <1>9, <2>1 DEF Placed, Input, InFlight, Uploading
  <2>3. session[u] = "active" => Alive(u)
    BY <1>1 DEF Alive, InFlight
  <2>4. RowsRight(u)'
    BY <1>1, <1>2, <1>9, <2>1, <2>3 DEF UploadInv, RowsRight, Alive, Row, Settled, Input, Count
  <2>5. EventRight(u)'
    BY <1>1, <1>2, <1>9, <2>1, <2>3 DEF UploadInv, EventRight, Alive, Input
  <2> QED
    BY <2>2, <2>4, <2>5 DEF UploadInv
<1>10. "413" \in Answers /\ "415" \in Answers /\ "500" \in Answers /\ "503" \in Answers
  BY DEF Answers
<1> QED
  BY <1>5, <1>6, <1>7, <1>8, <1>9, <1>10 DEF ValidateFile, Analyze, AnalyzeFails

\* A row of the attempt is written, or the upload goes on without writing.
LEMMA Writing ==
  ASSUME TypeOK, NEW u \in Uploads, UploadInv(u), session[u] = "active", pc[u] \in Uploading,
         UNCHANGED <<input[u], attempt[u], session[u], outcome[u], event[u], told[u], stored>>,
         ~Unusable(Input(u)),
         \A a \in Attempts \ {attempt[u]} : rows'[u][a] = rows[u][a],
         \/ /\ pc'[u] \in {"embed", "mark_failed", "store_chunks"}
            /\ pc'[u] = "embed" => embedded'[u] < Count(u)
            /\ rows'[u][attempt[u]] = [status |-> "pending", chunks |-> {}]
         \/ /\ pc'[u] = "mark_indexed"
            /\ rows'[u][attempt[u]] = [status |-> "pending", chunks |-> 0..(Count(u) - 1)]
  PROVE  UploadInv(u)'
<1>1. Alive(u) /\ event[u] = "none" /\ outcome[u] = "none" /\ u \notin stored /\ input[u] # Absent
      /\ told[u] = "none"
  BY DEF UploadInv, Placed, EventRight, Alive, InFlight, Uploading
<1>2. Placed(u)'
  BY <1>1 DEF UploadInv, Placed, Uploading, InFlight, Input, Count, Unusable, WantsIndex
<1>3. \A a \in Attempts \ {attempt[u]} : Settled(u, a)'
  BY <1>1 DEF UploadInv, RowsRight, Settled, Input, Count
<1>4. \A a \in Attempts : a > attempt[u] => rows'[u][a] = NoRow
  <2>1. attempt[u] \in Nat /\ Attempts \subseteq Nat
    BY DEF TypeOK, Attempts
  <2>2. \A a \in Attempts : a > attempt[u] => rows[u][a] = NoRow
    BY <1>1 DEF UploadInv, RowsRight
  <2> QED
    BY <2>1, <2>2
<1>5. RowsRight(u)'
  BY <1>1, <1>3, <1>4 DEF RowsRight, Row, Count, Input
<1>6. Input(u).door \in VisionDoors => \A a \in Attempts \ {attempt[u]} : rows'[u][a] = NoRow
  BY <1>1 DEF UploadInv, EventRight, Uploading
<1>7. EventRight(u)'
  BY <1>1, <1>6 DEF EventRight, Input
<1> QED
  BY <1>2, <1>5, <1>7 DEF UploadInv

LEMMA Uploaded ==
  ASSUME TypeOK, NEW u \in Uploads, UploadInv(u),
         CreateDocument(u) \/ EmbedChunk(u) \/ StoreChunks(u) \/ EmbedFails(u)
  PROVE  UploadInv(u)'
<1> USE DEF Goto
<1>1. pc[u] \in Uploading /\ input[u] # Absent /\ session[u] \in {"active", "invalid"}
  BY DEF CreateDocument, EmbedChunk, StoreChunks, EmbedFails, Uploading, UploadInv, Placed, TypeOK
<1>2. /\ Count(u) \in Nat /\ embedded[u] \in Nat
      /\ ~Unusable(Input(u)) => Count(u) > 0
  <2>1. Count(u) \in Nat /\ Input(u).length \in Nat
    BY <1>1, CountNat
  <2> QED
    BY <2>1, CountBounds DEF TypeOK, Unusable, Count
<1>3. CASE CreateDocument(u)
  <2>1. /\ rows'[u][attempt[u]] = [status |-> "pending", chunks |-> {}]
        /\ \A a \in Attempts \ {attempt[u]} : rows'[u][a] = rows[u][a]
    BY <1>3, RowUpdate DEF CreateDocument
  <2> QED
    BY <1>1, <1>2, <1>3, <2>1, Writing DEF CreateDocument, TypeOK
<1>4. ASSUME session[u] = "active", pc[u] \in {"embed", "store_chunks", "mark_failed"}
      PROVE  Row(u) = [status |-> "pending", chunks |-> {}] /\ ~Unusable(Input(u))
  BY <1>4 DEF UploadInv, Placed, RowsRight, Alive, InFlight, Uploading
<1>5. pc[u] \in Uploading \ {"parse"} => session[u] = "active"
  BY DEF UploadInv, Placed
<1>6. CASE EmbedChunk(u)
  BY <1>1, <1>2, <1>4, <1>5, <1>6, Writing DEF EmbedChunk, TypeOK, Row, Uploading
<1>7. CASE StoreChunks(u)
  <2>1. rows' = [rows EXCEPT ![u][attempt[u]] = [Row(u) EXCEPT !.chunks = 0..(Count(u) - 1)]]
    BY <1>7 DEF StoreChunks, Row
  <2>2. /\ rows'[u][attempt[u]] = [Row(u) EXCEPT !.chunks = 0..(Count(u) - 1)]
        /\ \A a \in Attempts \ {attempt[u]} : rows'[u][a] = rows[u][a]
    <3> DEFINE row == [Row(u) EXCEPT !.chunks = 0..(Count(u) - 1)]
    <3> HIDE DEF row
    <3>1. rows' = [rows EXCEPT ![u][attempt[u]] = row]
      BY <2>1 DEF row
    <3>2. rows'[u][attempt[u]] = row /\ \A a \in Attempts \ {attempt[u]} : rows'[u][a] = rows[u][a]
      BY <3>1, RowUpdate
    <3> QED
      BY <3>2 DEF row
  <2>3. rows'[u][attempt[u]] = [status |-> "pending", chunks |-> 0..(Count(u) - 1)]
    BY <1>4, <1>7, <2>2 DEF StoreChunks
  <2> QED
    BY <1>1, <1>4, <1>7, <2>2, <2>3, Writing DEF StoreChunks, TypeOK
<1>8. CASE EmbedFails(u)
  <2>1. CASE Throw(u)
    <3>1. RowsKept(u) /\ session'[u] = session[u] /\ pc[u] = "embed"
      BY <1>8 DEF EmbedFails, RowsKept
    <3> QED
      BY <1>1, <2>1, <3>1, AfterThrow
  <2>2. CASE Goto(u, "mark_failed") /\ UNCHANGED <<attempt, outcome, told>>
    BY <1>1, <1>2, <1>4, <1>5, <1>8, <2>2, Writing DEF EmbedFails, TypeOK, Row, Uploading
  <2> QED
    BY <1>8, <2>1, <2>2 DEF EmbedFails
<1> QED
  BY <1>3, <1>6, <1>7, <1>8

LEMMA Indexes ==
  ASSUME TypeOK, NEW u \in Uploads, UploadInv(u), MarkIndexed(u)
  PROVE  UploadInv(u)'
<1>1. /\ pc[u] = "mark_indexed" /\ session[u] = "active" /\ input[u] # Absent /\ told[u] = "none"
      /\ u \notin stored /\ ~Unusable(Input(u)) /\ Input(u).project \in Projects
      /\ UNCHANGED <<input, attempt, session, event, told, stored>>
  BY DEF MarkIndexed, UploadInv, Placed, InFlight, Uploading
<1>2. input[u] \in InputSet
  BY <1>1, CountNat
<1>3. /\ outcome'[u] = "indexed"
      /\ pc'[u] = CASE Input(u).door = "upload" -> "respond"
                    [] Input(u).door = "rag_index" -> "record"
                    [] OTHER -> "log"
  BY DEF MarkIndexed, Comes, Goto, TypeOK
<1>4. Alive(u) /\ event[u] = "none" /\ Row(u) = [status |-> "pending", chunks |-> 0..(Count(u) - 1)]
  BY <1>1 DEF UploadInv, RowsRight, EventRight, Alive, InFlight
<1>5. rows' = [rows EXCEPT ![u][attempt[u]] = [Row(u) EXCEPT !.status = "indexed"]]
  BY DEF MarkIndexed, Row
<1>6. /\ rows'[u][attempt[u]] = [Row(u) EXCEPT !.status = "indexed"]
      /\ \A a \in Attempts \ {attempt[u]} : rows'[u][a] = rows[u][a]
  BY <1>5, RowUpdate
<1>7. rows'[u][attempt[u]] = [status |-> "indexed", chunks |-> 0..(Count(u) - 1)]
  BY <1>4, <1>6
<1>8. \A a \in Attempts : Settled(u, a)'
  <2>1. \A a \in Attempts \ {attempt[u]} : Settled(u, a)
    BY <1>4 DEF UploadInv, RowsRight
  <2>2. \A a \in Attempts \ {attempt[u]} : Settled(u, a)'
    BY <1>1, <1>6, <2>1 DEF Settled, Input, Count
  <2>3. \A a \in Attempts : a = attempt[u] => Settled(u, a)'
    BY <1>1, <1>3, <1>7 DEF Settled, Input, Count
  <2> QED
    BY <2>2, <2>3
<1>9. \A a \in Attempts : a > attempt'[u] => rows'[u][a] = NoRow
  <2>1. attempt[u] \in Nat /\ Attempts \subseteq Nat /\ attempt'[u] = attempt[u]
    BY <1>1 DEF TypeOK, Attempts
  <2>2. \A a \in Attempts : a > attempt[u] => rows[u][a] = NoRow
    BY <1>4 DEF UploadInv, RowsRight
  <2> QED
    BY <1>6, <2>1, <2>2
<1>10. RowsRight(u)'
  BY <1>1, <1>3, <1>7, <1>8, <1>9 DEF RowsRight, Row
<1>11. Input(u).door \notin {"upload", "rag_index"} <=> Input(u).door \in VisionDoors
  BY <1>2 DEF InputSet, Input, RagDoors, VisionDoors, AnalyzeDoors, ExtractDoors
<1>12. EventRight(u)'
  <2>1. Input(u).door \in VisionDoors => \A a \in Attempts \ {attempt[u]} : rows[u][a] = NoRow
    BY <1>1, <1>4 DEF UploadInv, EventRight
  <2>2. Input(u)' = Input(u) /\ attempt'[u] = attempt[u]
    BY <1>1 DEF Input
  <2> QED
    BY <1>1, <1>3, <1>4, <1>6, <1>11, <2>1, <2>2 DEF EventRight
<1>13. Placed(u)'
  <2>1. Input(u).door \in VisionDoors => WantsIndex(u)
    BY <1>1 DEF UploadInv, Placed, Uploading
  <2>2. WantsIndex(u)' <=> WantsIndex(u)
    BY <1>1 DEF WantsIndex, Input
  <2>3. Input(u)' = Input(u)
    BY <1>1 DEF Input
  <2>4. Input(u).door = "upload" => ~InWorkflow(u)
    BY DEF InWorkflow, Workflows
  <2> QED
    BY <1>1, <1>3, <1>11, <2>1, <2>2, <2>3, <2>4 DEF Placed, Uploading, InFlight, InWorkflow
<1> QED
  BY <1>10, <1>12, <1>13 DEF UploadInv

LEMMA Answering ==
  ASSUME TypeOK, NEW u \in Uploads, UploadInv(u), LogEvent(u) \/ Respond(u) \/ RecordStep(u)
  PROVE  UploadInv(u)'
<1> USE DEF Goto, Tell
<1>1. /\ pc[u] \in {"log", "respond", "record"} /\ input[u] # Absent /\ told[u] = "none"
      /\ u \notin stored
      /\ UNCHANGED <<input, attempt, rows, embedded, session, outcome, stored>>
  BY DEF LogEvent, Respond, RecordStep, UploadInv, Placed, InFlight
<1>2. session[u] = "active" => Alive(u)
  BY <1>1 DEF Alive, InFlight
<1>3. session[u] = "active" =>
        /\ \A a \in Attempts : a > attempt[u] => rows[u][a] = NoRow
        /\ \A a \in Attempts : Settled(u, a)
        /\ outcome[u] = "indexed" <=> Row(u).status = "indexed"
  BY <1>1, <1>2 DEF UploadInv, RowsRight
<1>4. \A a \in Attempts : Settled(u, a) => Settled(u, a)'
  BY <1>1 DEF Settled, Input, Count
<1>5. ASSUME pc'[u] \in {"log", "respond", "record", "commit"}
      PROVE  RowsRight(u)'
  <2>1. session'[u] = session[u] /\ attempt'[u] = attempt[u] /\ rows'[u] = rows[u]
        /\ outcome'[u] = outcome[u] /\ u \notin stored'
    BY <1>1
  <2>2. Row(u)' = Row(u)
    BY <2>1 DEF Row
  <2>3. CASE session[u] = "active"
    <3>1. \A a \in Attempts : Settled(u, a)'
      BY <1>3, <1>4, <2>3
    <3> QED
      BY <1>3, <1>5, <2>1, <2>2, <2>3, <3>1 DEF RowsRight
  <2>4. CASE session[u] # "active"
    BY <2>1, <2>4 DEF RowsRight, Alive
  <2> QED
    BY <2>3, <2>4
<1>6. CASE LogEvent(u)
  <2>1. /\ pc[u] = "log" /\ session[u] = "active"
        /\ pc'[u] = (IF InWorkflow(u) THEN "record" ELSE "respond")
        /\ told' = told /\ event'[u] = (IF Flag(u) THEN "indexed" ELSE "plain")
    BY <1>6 DEF LogEvent, TypeOK
  <2>2. Input(u).door \in VisionDoors
    BY <2>1 DEF UploadInv, Placed
  <2>3. Placed(u)'
    <3>1. Input(u).door # "upload"
      BY <2>2 DEF VisionDoors, AnalyzeDoors, ExtractDoors
    <3> QED
      BY <1>1, <2>1, <2>2, <3>1
      DEF UploadInv, Placed, InFlight, Uploading, Input, InWorkflow, Unusable, WantsIndex
  <2>4. RowsRight(u)'
    BY <1>5, <2>1
  <2>5. event'[u] # "none" /\ (outcome[u] = "indexed" => event'[u] = "indexed")
    <3>1. outcome[u] = "indexed" => WantsIndex(u)
      BY <2>2 DEF UploadInv, Placed
    <3> QED
      BY <2>1, <3>1 DEF Flag
  <2>6. event'[u] = "indexed" /\ Input(u).door # "ocr" => outcome[u] = "indexed"
    BY <2>1 DEF Flag
  <2>7. outcome[u] # "failure"
    BY <2>1 DEF UploadInv, Placed
  <2>8. EventRight(u)'
    BY <1>1, <2>1, <2>5, <2>6, <2>7 DEF EventRight, Input
  <2> QED
    BY <2>3, <2>4, <2>8 DEF UploadInv
<1>7. ASSUME pc[u] \in {"respond", "record"}, pc'[u] = "commit", event' = event
      PROVE  EventRight(u)'
  <2>1. CASE session[u] = "active"
    <3>1. /\ Input(u).door \in VisionDoors /\ event[u] = "none" => \A a \in Attempts : rows[u][a] = NoRow
          /\ Input(u).door \in VisionDoors => (event[u] = "none" <=> outcome[u] = "failure")
          /\ outcome[u] = "indexed" /\ event[u] # "none" => event[u] = "indexed"
          /\ event[u] = "indexed" /\ Input(u).door # "ocr" => outcome[u] = "indexed"
      BY <1>2, <1>7, <2>1 DEF UploadInv, EventRight
    <3> QED
      BY <1>1, <1>7, <3>1 DEF EventRight, Input
  <2>2. CASE session[u] # "active"
    BY <1>1, <2>2 DEF EventRight, Alive
  <2> QED
    BY <2>1, <2>2
<1>8. CASE Respond(u)
  <2>1. /\ pc[u] = "respond" /\ pc'[u] = "commit" /\ event' = event
        /\ told'[u] = CASE Input(u).door # "ocr" /\ outcome[u] \in {"indexed", "index_failed"} -> outcome[u]
                         [] OTHER -> "ok"
    BY <1>8 DEF Respond, TypeOK
  <2>2. told'[u] \in Answered /\ (outcome[u] = "indexed" => told'[u] \in Promises)
    BY <2>1 DEF Answered, Promises
  <2>3. outcome[u] # "failure" /\ told'[u] # "failed"
    BY <2>1 DEF UploadInv, Placed
  <2>4. Placed(u)'
    BY <1>1, <2>1, <2>2, <2>3
    DEF UploadInv, Placed, InFlight, Uploading, Input, InWorkflow, Unusable, WantsIndex
  <2> QED
    BY <1>5, <1>7, <2>1, <2>4 DEF UploadInv
<1>9. CASE RecordStep(u)
  <2>1. pc[u] = "record" /\ event' = event
    BY <1>9 DEF RecordStep
  <2>2. CASE session[u] = "invalid" /\ Goto(u, "rollback")
    <3>1. pc'[u] = "rollback" /\ input'[u] # Absent /\ u \notin stored' /\ pc[u] # "done"
          /\ outcome'[u] = outcome[u] /\ input'[u] = input[u]
      BY <1>1, <2>1, <2>2 DEF TypeOK
    <3> QED
      BY <3>1, ToRollback
  <2>3. CASE session[u] = "active"
    <3>1. pc'[u] = "commit" /\ told'[u] = (IF outcome[u] = "failure" THEN "failed" ELSE "completed")
      BY <1>9, <2>3 DEF RecordStep, TypeOK
    <3>2. told'[u] \in Answered /\ (outcome[u] = "indexed" => told'[u] \in Promises)
      BY <3>1 DEF Answered, Promises
    <3>3. Placed(u)'
      BY <1>1, <2>1, <2>3, <3>1, <3>2
      DEF UploadInv, Placed, InFlight, Uploading, Input, InWorkflow, Unusable, WantsIndex
    <3> QED
      BY <1>5, <1>7, <2>1, <3>1, <3>3 DEF UploadInv
  <2> QED
    BY <1>9, <2>2, <2>3 DEF RecordStep
<1> QED
  BY <1>6, <1>8, <1>9

LEMMA Over ==
  ASSUME TypeOK, NEW u \in Uploads, UploadInv(u), Commit(u) \/ Rollback(u) \/ ProcessDies(u)
  PROVE  UploadInv(u)'
<1>1. /\ pc[u] \in InFlight /\ pc'[u] = "done" /\ input[u] # Absent /\ u \notin stored
      /\ UNCHANGED <<input, attempt, rows, session, outcome, event, told>>
  BY DEF Commit, Rollback, ProcessDies, Goto, TypeOK, UploadInv, Placed, InFlight
<1>2. u \in stored' => pc[u] = "commit" /\ Alive(u)
  BY <1>1 DEF Commit, Rollback, ProcessDies, Alive, UploadInv, Placed
<1>3. Placed(u)'
  BY <1>1, <1>2 DEF UploadInv, Placed, InFlight, Uploading, Input, Unusable, WantsIndex
<1>4. ~Alive(u)'
  BY <1>1 DEF Alive, InFlight
<1>5. CASE u \notin stored'
  BY <1>3, <1>4, <1>5 DEF RowsRight, EventRight, UploadInv
<1>6. CASE u \in stored'
  <2>1. /\ \A a \in Attempts : Settled(u, a)
        /\ outcome[u] = "indexed" <=> Row(u).status = "indexed"
    BY <1>2, <1>6 DEF UploadInv, RowsRight
  <2>2. \A a \in Attempts : Settled(u, a)'
    BY <1>1, <2>1 DEF Settled, Input, Count
  <2>3. Row(u)' = Row(u)
    BY <1>1 DEF Row
  <2>4. RowsRight(u)'
    BY <1>1, <1>4, <2>1, <2>2, <2>3 DEF RowsRight
  <2>5. /\ Input(u).door \in VisionDoors /\ event[u] = "none" => \A a \in Attempts : rows[u][a] = NoRow
        /\ Input(u).door \in VisionDoors => (event[u] = "none" <=> outcome[u] = "failure")
        /\ outcome[u] = "indexed" /\ event[u] # "none" => event[u] = "indexed"
        /\ event[u] = "indexed" /\ Input(u).door # "ocr" => outcome[u] = "indexed"
    BY <1>2, <1>6 DEF UploadInv, EventRight
  <2>6. EventRight(u)'
    BY <1>1, <1>4, <2>5 DEF EventRight, Input
  <2> QED
    BY <1>3, <2>4, <2>6 DEF UploadInv
<1> QED
  BY <1>5, <1>6

LEMMA Failing ==
  ASSUME TypeOK, NEW u \in Uploads, UploadInv(u), StatementFails(u) \/ ParseFails(u) \/ MarkFailed(u)
  PROVE  UploadInv(u)'
<1>1. input[u] # Absent /\ u \notin stored /\ pc[u] \in Uploading \cup {"log"}
  BY DEF StatementFails, ParseFails, MarkFailed, UploadInv, Placed, Uploading
<1>2. CASE ParseFails(u)
  <2>1. FailureCode(Input(u)) \in Answers
    BY DEF FailureCode, Answers
  <2>2. /\ Fail(u, FailureCode(Input(u))) /\ pc[u] = "parse" /\ rows'[u] = rows[u]
        /\ UNCHANGED <<input[u], event[u], session[u], attempt[u]>> /\ (u \in stored' <=> u \in stored)
    BY <1>2 DEF ParseFails
  <2> QED
    BY <2>1, <2>2, AfterFail
<1>3. CASE MarkFailed(u)
  <2>1. /\ pc[u] = "mark_failed" /\ session[u] = "active"
        /\ Fail(u, "503") /\ "503" \in Answers
        /\ UNCHANGED <<input[u], event[u], session[u], attempt[u]>> /\ (u \in stored' <=> u \in stored)
    BY <1>3 DEF MarkFailed, Answers
  <2>2. Row(u) = [status |-> "pending", chunks |-> {}]
    BY <2>1 DEF UploadInv, RowsRight, Alive, InFlight
  <2>3. rows' = [rows EXCEPT ![u][attempt[u]] = [status |-> "failed", chunks |-> {}]]
    <3>1. rows' = [rows EXCEPT ![u][attempt[u]] = [Row(u) EXCEPT !.status = "failed"]]
      BY <1>3 DEF MarkFailed, Row
    <3>2. [Row(u) EXCEPT !.status = "failed"] = [status |-> "failed", chunks |-> {}]
      BY <2>2
    <3> QED
      BY <3>1, <3>2
  <2>4. /\ rows'[u][attempt[u]] = [status |-> "failed", chunks |-> {}]
        /\ \A a \in Attempts \ {attempt[u]} : rows'[u][a] = rows[u][a]
    BY <2>3, RowUpdate
  <2> QED
    BY <2>1, <2>4, AfterFail
<1>4. CASE StatementFails(u)
  <2>1. /\ session'[u] = "invalid" /\ RowsKept(u) /\ pc[u] \in InFlight \ {"rollback", "commit"}
        /\ UNCHANGED <<input, event>>
    BY <1>4 DEF StatementFails, RowsKept, TypeOK, InFlight
  <2>2. CASE pc[u] = "log"
    <3>1. Raise(u, "500") /\ "500" \in Answers
      BY <1>4, <2>2 DEF StatementFails, Answers
    <3>2. Input(u).door \in VisionDoors /\ Input(u).door # "rag_index"
      BY <2>2 DEF UploadInv, Placed, VisionDoors, AnalyzeDoors, ExtractDoors
    <3> QED
      BY <2>1, <3>1, <3>2, AfterRaise
  <2>3. CASE pc[u] # "log"
    <3>1. Throw(u) /\ pc[u] \in Uploading
      BY <1>1, <1>4, <2>3 DEF StatementFails
    <3> QED
      BY <2>1, <3>1, AfterThrow
  <2> QED
    BY <2>2, <2>3
<1> QED
  BY <1>2, <1>3, <1>4

LEMMA OwnStep ==
  ASSUME TypeOK, NEW u \in Uploads, UploadInv(u), Step(u)
  PROVE  UploadInv(u)'
<1>1. CASE \E q \in Inputs[u] : Receive(u, q)
  BY <1>1, Received
<1>2. CASE ValidateFile(u) \/ Analyze(u) \/ AnalyzeFails(u)
  BY <1>2, Entered
<1>3. CASE CreateDocument(u) \/ EmbedChunk(u) \/ StoreChunks(u) \/ EmbedFails(u)
  BY <1>3, Uploaded
<1>4. CASE MarkIndexed(u)
  BY <1>4, Indexes
<1>5. CASE LogEvent(u) \/ Respond(u) \/ RecordStep(u)
  BY <1>5, Answering
<1>6. CASE Commit(u) \/ Rollback(u) \/ ProcessDies(u)
  BY <1>6, Over
<1>7. CASE StatementFails(u) \/ ParseFails(u) \/ MarkFailed(u)
  BY <1>7, Failing
<1> QED
  BY <1>1, <1>2, <1>3, <1>4, <1>5, <1>6, <1>7 DEF Step, Serve

\* A function of the uploads that a step changes at most at u.
ChangedAt(f, g, u) == \A v \in Uploads \ {u} : g[v] = f[v]

LEMMA ControlElsewhere ==
  ASSUME TypeOK, NEW u \in Uploads,
         \/ \E code \in Answers : Raise(u, code) \/ (Refuse(u, code) /\ UNCHANGED attempt)
                                  \/ (Fail(u, code) /\ UNCHANGED attempt)
         \/ Throw(u)
         \/ StepFails(u) /\ UNCHANGED attempt
         \/ (Proceed(u) \/ Goto(u, "provider") \/ Goto(u, "mark_failed"))
            /\ UNCHANGED <<attempt, outcome, told>>
  PROVE  /\ ChangedAt(pc, pc', u) /\ ChangedAt(attempt, attempt', u)
         /\ ChangedAt(outcome, outcome', u) /\ ChangedAt(told, told', u)
<1> USE DEF Goto, Tell, Comes, Refuse, StepFails, ChangedAt, TypeOK
<1>1. ASSUME NEW code \in Answers, Raise(u, code)
      PROVE  /\ ChangedAt(pc, pc', u) /\ ChangedAt(attempt, attempt', u)
             /\ ChangedAt(outcome, outcome', u) /\ ChangedAt(told, told', u)
  BY <1>1 DEF Raise
<1>2. CASE Throw(u)
  <2>1. CASE Input(u).door \in RagDoors
    <3> HIDE DEF ChangedAt, TypeOK, Goto, Tell, Comes, Refuse, StepFails
    <3> QED
      BY <1>1, <1>2, <2>1 DEF Throw, Answers
  <2>2. CASE Input(u).door \notin RagDoors
    BY <1>2, <2>2 DEF Throw
  <2> QED
    BY <2>1, <2>2
<1>3. CASE \E code \in Answers : Refuse(u, code) /\ UNCHANGED attempt
  BY <1>3
<1>4. CASE \E code \in Answers : Fail(u, code) /\ UNCHANGED attempt
  BY <1>4 DEF Fail
<1>5. CASE StepFails(u) /\ UNCHANGED attempt
  BY <1>5
<1>6. CASE (Proceed(u) \/ Goto(u, "provider") \/ Goto(u, "mark_failed"))
            /\ UNCHANGED <<attempt, outcome, told>>
  BY <1>6 DEF Proceed
<1> HIDE DEF ChangedAt, TypeOK, Goto, Tell, Comes, Refuse, StepFails
<1> QED
  BY <1>1, <1>2, <1>3, <1>4, <1>5, <1>6

LEMMA Elsewhere ==
  ASSUME TypeOK, NEW u \in Uploads, UploadInv(u), Step(u), NEW v \in Uploads \ {u}
  PROVE  Untouched(v)
<1>1. ASSUME NEW q \in Inputs[u], Receive(u, q) PROVE Untouched(v)
  BY <1>1 DEF Receive, Refuse, StepFails, Goto, Tell, Comes, TypeOK, Untouched
<1>2. CASE ValidateFile(u) \/ Analyze(u) \/ AnalyzeFails(u)
  <2>1. "413" \in Answers /\ "415" \in Answers /\ "500" \in Answers /\ "503" \in Answers
    BY DEF Answers
  <2>2. /\ ChangedAt(pc, pc', u) /\ ChangedAt(attempt, attempt', u)
        /\ ChangedAt(outcome, outcome', u) /\ ChangedAt(told, told', u)
    BY <1>2, <2>1, ControlElsewhere DEF ValidateFile, Analyze, AnalyzeFails
  <2> QED
    BY <1>2, <2>2 DEF ChangedAt, ValidateFile, Analyze, AnalyzeFails, Untouched
<1>3. CASE ParseFails(u)
  <2>1. FailureCode(Input(u)) \in Answers
    BY DEF FailureCode, Answers
  <2> QED
    BY <1>3, <2>1, ControlElsewhere DEF ParseFails, Untouched, ChangedAt
<1>4. CASE EmbedFails(u)
  BY <1>4, ControlElsewhere DEF EmbedFails, Untouched, ChangedAt
<1>5. CASE StatementFails(u)
  <2>1. session'[v] = session[v]
    BY <1>5 DEF StatementFails, TypeOK
  <2>2. "500" \in Answers
    BY DEF Answers
  <2> QED
    BY <1>5, <2>1, <2>2, ControlElsewhere DEF StatementFails, Untouched, ChangedAt
<1>6. CASE MarkFailed(u)
  <2>1. rows'[v] = rows[v]
    BY <1>6 DEF MarkFailed, TypeOK
  <2>2. "503" \in Answers
    BY DEF Answers
  <2> QED
    BY <1>6, <2>1, <2>2, ControlElsewhere DEF MarkFailed, Untouched, ChangedAt
<1>7. CASE CreateDocument(u) \/ EmbedChunk(u) \/ StoreChunks(u)
  BY <1>7 DEF CreateDocument, EmbedChunk, StoreChunks, Goto, Untouched, TypeOK
<1>8. CASE MarkIndexed(u)
  BY <1>8 DEF MarkIndexed, Goto, Comes, Untouched, TypeOK
<1>9. CASE LogEvent(u)
  BY <1>9 DEF LogEvent, Goto, Untouched, TypeOK
<1>10. CASE Respond(u) \/ RecordStep(u)
  BY <1>10 DEF Respond, RecordStep, Goto, Tell, Untouched, TypeOK
<1>11. CASE Commit(u) \/ Rollback(u) \/ ProcessDies(u)
  BY <1>11 DEF Commit, Rollback, ProcessDies, Goto, Untouched, TypeOK
<1> QED
  BY <1>1, <1>2, <1>3, <1>4, <1>5, <1>6, <1>7, <1>8, <1>9, <1>10, <1>11 DEF Step, Serve

-----------------------------------------------------------------------------
(* The inductive invariant *)

ReaderStep(s) ==
  (\E t \in Tenants, p \in Projects : Ask(s, t, p)) \/ Search(s) \/ SearchFails(s)

LEMMA MatchingType ==
  ASSUME TypeOK, NEW t, NEW p
  PROVE  Matching(t, p) \subseteq Uploads \X Attempts \X Nat
<1> SUFFICES ASSUME NEW u \in stored, NEW a \in Attempts, NEW i \in rows[u][a].chunks
             PROVE  <<u, a, i>> \in Uploads \X Attempts \X Nat
  BY DEF Matching, Pieces
<1>1. u \in Uploads /\ rows[u][a] \in DocumentRows
  BY DEF TypeOK
<1>2. i \in Nat
  BY <1>1 DEF DocumentRows, ChunkIndexes
<1> QED
  BY <1>1, <1>2

LEMMA ReaderKeepsType ==
  ASSUME TypeOK, NEW s \in Readers, ReaderStep(s)
  PROVE  TypeOK'
<1>1. ASSUME NEW t \in Tenants, NEW p \in Projects, Ask(s, t, p)
      PROVE  TypeOK'
  BY <1>1 DEF Ask, docVars, TypeOK, InFlight
<1>2. CASE Search(s)
  <2>1. PICK best : /\ best \in SUBSET Matching(query[s].tenant, query[s].project)
                    /\ found' = [found EXCEPT ![s] = best]
    BY <1>2 DEF Search
  <2>2. best \in SUBSET (Uploads \X Attempts \X Nat)
    BY <2>1, MatchingType
  <2>3. found' \in [Readers -> SUBSET (Uploads \X Attempts \X Nat)]
    BY <2>1, <2>2 DEF TypeOK
  <2>4. query' \in [Readers -> [ tenant : Tenants, project : Projects ] \cup {Absent}]
    BY <1>2 DEF Search, TypeOK
  <2>5. UNCHANGED docVars
    BY <1>2 DEF Search
  <2> QED
    BY <2>3, <2>4, <2>5 DEF docVars, TypeOK, InFlight
<1>3. CASE SearchFails(s)
  BY <1>3 DEF SearchFails, docVars, TypeOK, InFlight
<1> QED
  BY <1>1, <1>2, <1>3 DEF ReaderStep

LEMMA AllUntouched ==
  ASSUME UNCHANGED docVars, NEW u \in Uploads
  PROVE  Untouched(u)
  BY DEF docVars, Untouched

LEMMA InitInv == Init => IInv
<1> SUFFICES ASSUME Init PROVE IInv
  OBVIOUS
<1>1. TypeOK
  <2>1. NoRow \in DocumentRows
    BY DEF NoRow, DocumentRows
  <2>2. 1 \in Attempts
    BY AttemptsAssumption DEF Attempts
  <2> QED
    BY <2>1, <2>2 DEF Init, TypeOK, Answers
<1>2. ASSUME NEW u \in Uploads PROVE UploadInv(u)
  <2>1. /\ pc[u] = "idle" /\ input[u] = Absent /\ told[u] = "none" /\ event[u] = "none"
        /\ outcome[u] = "none" /\ u \notin stored /\ \A a \in Attempts : rows[u][a] = NoRow
    BY DEF Init
  <2>2. Placed(u)
    BY <2>1 DEF Placed, InFlight, Uploading
  <2>3. ~Alive(u)
    BY <2>1 DEF Alive, InFlight
  <2> QED
    BY <2>1, <2>2, <2>3 DEF UploadInv, RowsRight, EventRight
<1> QED
  BY <1>1, <1>2 DEF IInv, UploadInv

LEMMA NextInv == IInv /\ [Next]_vars => IInv'
<1> SUFFICES ASSUME IInv, [Next]_vars PROVE IInv'
  OBVIOUS
<1>1. TypeOK /\ \A u \in Uploads : UploadInv(u)
  BY DEF IInv, UploadInv
<1>2. ASSUME NEW u \in Uploads, Step(u) PROVE IInv'
  <2>1. TypeOK'
    BY <1>1, <1>2, StepType
  <2>2. UploadInv(u)'
    BY <1>1, <1>2, OwnStep
  <2>3. ASSUME NEW v \in Uploads \ {u} PROVE UploadInv(v)'
    BY <1>1, <1>2, Elsewhere, UntouchedKeeps
  <2> QED
    BY <2>1, <2>2, <2>3 DEF IInv, UploadInv
<1>3. ASSUME NEW s \in Readers, ReaderStep(s) PROVE IInv'
  <2>1. TypeOK'
    BY <1>1, <1>3, ReaderKeepsType
  <2>2. UNCHANGED docVars
    BY <1>3 DEF ReaderStep, Ask, Search, SearchFails
  <2>3. \A u \in Uploads : UploadInv(u)'
    BY <1>1, <2>2, AllUntouched, UntouchedKeeps
  <2> QED
    BY <2>1, <2>3 DEF IInv, UploadInv
<1>4. CASE UNCHANGED vars
  <2>1. TypeOK'
    BY <1>1, <1>4 DEF vars, docVars, TypeOK
  <2>2. \A u \in Uploads : UploadInv(u)'
    BY <1>1, <1>4, AllUntouched, UntouchedKeeps DEF vars
  <2> QED
    BY <2>1, <2>2 DEF IInv, UploadInv
<1>5. Next => (\E u \in Uploads : Step(u)) \/ (\E s \in Readers : ReaderStep(s))
  BY DEF Next, Step, ReaderStep
<1> QED
  BY <1>2, <1>3, <1>4, <1>5

\* IInv: what the transaction of an upload holds, wherever its coroutine is, for
\* every combination of faults and every number of attempts.
THEOREM InvHolds == Spec => []IInv
<1>1. Init => IInv
  BY InitInv
<1>2. IInv /\ [Next]_vars => IInv'
  BY NextInv
<1> QED
  BY <1>1, <1>2, PTL DEF Spec

LEMMA Whole == IInv => SearchableWhole
<1> SUFFICES ASSUME IInv PROVE SearchableWhole
  OBVIOUS
<1>1. ASSUME NEW t \in Tenants, NEW p \in Projects, NEW d \in Listed(t, p)
      PROVE  UNION { Piece(Input(d[1]).length, i) : i \in rows[d[1]][d[2]].chunks } =
               IF rows[d[1]][d[2]].status = "indexed" THEN 0..(Input(d[1]).length - 1) ELSE {}
  <2> DEFINE u == d[1]
             a == d[2]
  <2>1. u \in stored /\ u \in Uploads /\ a \in Attempts /\ rows[u][a].status # "none"
    BY DEF Listed, IInv, TypeOK
  <2>2. Settled(u, a) /\ input[u] # Absent
    BY <2>1 DEF IInv, RowsRight, Placed
  <2>3. Input(u).length \in Nat
    BY <2>1, <2>2, CountNat DEF IInv
  <2>4. CASE rows[u][a].status = "indexed"
    <3>1. rows[u][a].chunks = 0..(ChunkCount(Input(u).length) - 1)
      BY <2>2, <2>4 DEF Settled, NoRow, Count
    <3> QED
      BY <2>3, <2>4, <3>1, PiecesCoverText
  <2>5. CASE rows[u][a].status # "indexed"
    <3>1. rows[u][a].chunks = {}
      BY <2>1, <2>2, <2>5 DEF Settled, NoRow
    <3> QED
      BY <2>5, <3>1
  <2> QED
    BY <2>4, <2>5
<1>2. ASSUME NEW t \in Tenants, NEW p \in Projects, NEW piece \in Matching(t, p)
      PROVE  <<piece[1], piece[2]>> \in Listed(t, p)
  <2>1. PICK u \in stored, a \in Attempts :
          /\ Input(u).tenant = t /\ Input(u).project = p
          /\ \E i \in rows[u][a].chunks : piece = <<u, a, i>>
    BY DEF Matching, Pieces
  <2>2. Settled(u, a)
    BY <2>1 DEF IInv, TypeOK, RowsRight
  <2>3. rows[u][a].status # "none"
    BY <2>1, <2>2 DEF Settled, NoRow
  <2> QED
    BY <2>1, <2>3 DEF Listed
<1> QED
  BY <1>1, <1>2 DEF SearchableWhole

\* SearchableWhole: a document a project's list shows is within reach of its
\* searches from its first character to its last, or not at all.
THEOREM SearchableWholeHolds == Spec => []SearchableWhole
  BY InvHolds, Whole, PTL

LEMMA EventsTrue == IInv => EventTruth
<1> SUFFICES ASSUME IInv, NEW u \in stored, Input(u).door \in VisionDoors
             PROVE  /\ event[u] = "none" <=> told[u] = "failed"
                    /\ event[u] = "none" => \A a \in Attempts : rows[u][a] = NoRow
                    /\ Indexed(u) => event[u] = "indexed"
                    /\ event[u] = "indexed" /\ Input(u).door # "ocr" => Indexed(u)
  BY DEF EventTruth
<1>1. /\ u \in Uploads /\ attempt[u] \in Attempts
      /\ \A a \in Attempts : Settled(u, a)
      /\ outcome[u] = "indexed" <=> Row(u).status = "indexed"
      /\ told[u] = "failed" <=> outcome[u] = "failure"
  BY DEF IInv, TypeOK, RowsRight, Placed
<1>2. Indexed(u) <=> outcome[u] = "indexed"
  BY <1>1 DEF Indexed, Settled, Row, NoRow
<1> QED
  BY <1>1, <1>2 DEF IInv, EventRight, NoRow

\* EventTruth: vision's audit events say of a document what became of it.
THEOREM EventTruthHolds == Spec => []EventTruth
  BY InvHolds, EventsTrue, PTL

-----------------------------------------------------------------------------
(* The refinement *)

Shelved(u) == u \in stored /\ Row(u).status = "indexed"
Book(u) == [ tenant |-> Input(u).tenant, project |-> Input(u).project,
             copy |-> attempt[u], length |-> Input(u).length ]

LEMMA BookType ==
  ASSUME IInv, NEW u \in Uploads, outcome[u] = "indexed", input[u] # Absent
  PROVE  Book(u) \in Library!Books /\ Book(u) # Absent
<1>1. Input(u).project \in Projects /\ ~Unusable(Input(u)) /\ attempt[u] \in Attempts
  BY DEF IInv, Placed, TypeOK
<1>2. input[u] \in InputSet
  BY CountNat DEF IInv
<1>3. /\ Input(u).tenant \in Tenants /\ Input(u).project \in Projects
      /\ Input(u).length \in Lengths \ {0}
  BY <1>1, <1>2 DEF InputSet, Input, Unusable
<1> QED
  BY <1>1, <1>3, AbsentAssumption DEF Book, Library!Books

LEMMA ShelfIs ==
  ASSUME IInv, NEW u \in Uploads
  PROVE  /\ Shelf[u] = IF Shelved(u) THEN Book(u) ELSE Absent
         /\ Shelved(u) => Book(u) \in Library!Books /\ Book(u) # Absent
                          /\ rows[u][attempt[u]].chunks = 0..(Count(u) - 1)
                          /\ outcome[u] = "indexed"
         /\ u \in stored => \A a \in Attempts \ {attempt[u]} : rows[u][a].chunks = {}
         /\ u \in stored /\ ~Shelved(u) => \A a \in Attempts : rows[u][a].chunks = {}
<1>1. Shelf[u] = IF Shelved(u) THEN Book(u) ELSE Absent
  BY DEF Shelf, Shelved, Book
<1>2. ASSUME u \in stored
      PROVE  /\ \A a \in Attempts : Settled(u, a)
             /\ outcome[u] = "indexed" <=> Row(u).status = "indexed"
             /\ attempt[u] \in Attempts /\ input[u] # Absent
  BY <1>2 DEF IInv, TypeOK, RowsRight, Placed
<1>3. ASSUME Shelved(u)
      PROVE  Book(u) \in Library!Books /\ Book(u) # Absent /\ outcome[u] = "indexed"
             /\ rows[u][attempt[u]].chunks = 0..(Count(u) - 1)
  <2>1. outcome[u] = "indexed" /\ input[u] # Absent /\ attempt[u] \in Attempts /\ Settled(u, attempt[u])
    BY <1>2, <1>3 DEF Shelved
  <2>2. Book(u) \in Library!Books /\ Book(u) # Absent
    BY <2>1, BookType
  <2>3. rows[u][attempt[u]].chunks = 0..(Count(u) - 1)
    BY <1>3, <2>1 DEF Shelved, Settled, Row, NoRow
  <2> QED
    BY <2>1, <2>2, <2>3
<1>4. ASSUME u \in stored, NEW a \in Attempts, a # attempt[u] \/ ~Shelved(u)
      PROVE  rows[u][a].chunks = {}
  <2>1. Settled(u, a)
    BY <1>2, <1>4
  <2>2. rows[u][a].status = "indexed" => Shelved(u)
    BY <1>2, <1>4, <2>1 DEF Settled, NoRow, Shelved
  <2> QED
    BY <1>4, <2>1, <2>2 DEF Settled, NoRow
<1> QED
  BY <1>1, <1>3, <1>4

\* What a search may find are the pages of the books within its reach.
LEMMA MatchingIsReach ==
  ASSUME IInv, NEW t, NEW p
  PROVE  Matching(t, p) = Library!Reach(t, p)
<1> DEFINE mine == { v \in stored : Input(v).tenant = t /\ Input(v).project = p }
           books == { v \in Uploads : Shelf[v] # Absent /\ Shelf[v].tenant = t /\ Shelf[v].project = p }
<1>1. stored \subseteq Uploads /\ \A u \in Uploads : attempt[u] \in Attempts
  BY DEF IInv, TypeOK
<1>2. ASSUME NEW u \in Uploads
      PROVE  u \in books <=> u \in mine /\ Shelved(u)
  <2>1. Shelf[u] = IF Shelved(u) THEN Book(u) ELSE Absent
    BY ShelfIs
  <2>2. Shelved(u) => Book(u) # Absent /\ u \in stored
    BY ShelfIs DEF Shelved
  <2> QED
    BY <2>1, <2>2 DEF Book
<1>3. ASSUME NEW u \in Uploads, Shelved(u)
      PROVE  Library!Pages(u) = Pieces(u, attempt[u])
  <2>1. Shelf[u] = Book(u) /\ rows[u][attempt[u]].chunks = 0..(Count(u) - 1)
    BY <1>3, ShelfIs
  <2>2. Library!Pages(u) = { <<u, Shelf[u].copy, i>> : i \in 0..(ChunkCount(Shelf[u].length) - 1) }
    BY DEF Library!Pages, Library!ChunkCount, ChunkCount, Library!Stride, Stride,
           Library!CharsPerChunk, CharsPerChunk, Library!CharsPerToken, CharsPerToken
  <2> QED
    BY <2>1, <2>2 DEF Pieces, Book, Count
<1>4. ASSUME NEW x \in Matching(t, p)
      PROVE  x \in Library!Reach(t, p)
  <2>1. PICK u \in mine, a \in Attempts : x \in Pieces(u, a)
    BY <1>4 DEF Matching
  <2>2. u \in Uploads /\ u \in stored /\ rows[u][a].chunks # {}
    BY <1>1, <2>1 DEF Pieces
  <2>3. Shelved(u) /\ a = attempt[u]
    BY <2>2, ShelfIs
  <2> QED
    BY <1>2, <1>3, <2>1, <2>2, <2>3 DEF Library!Reach
<1>5. ASSUME NEW x \in Library!Reach(t, p)
      PROVE  x \in Matching(t, p)
  <2>1. PICK u \in books : x \in Library!Pages(u)
    BY <1>5 DEF Library!Reach
  <2>2. u \in mine /\ Shelved(u) /\ attempt[u] \in Attempts
    BY <1>1, <1>2, <2>1
  <2>3. x \in Pieces(u, attempt[u])
    BY <1>3, <2>1, <2>2
  <2> QED
    BY <2>2, <2>3 DEF Matching
<1> QED
  BY <1>4, <1>5

\* What a step of the upload does to its answer.
Tells(u) ==
  \/ told' = told
  \/ \E answer \in Library!Promises \cup Library!Regrets : told' = [told EXCEPT ![u] = answer]

LEMMA ControlTells ==
  ASSUME NEW u \in Uploads,
         \/ \E code \in Library!Regrets : Raise(u, code) \/ Refuse(u, code) \/ Fail(u, code)
         \/ Throw(u)
  PROVE  Tells(u)
<1> USE DEF Tell, Refuse, StepFails, Tells
<1>1. ASSUME NEW code \in Library!Regrets, Raise(u, code) PROVE Tells(u)
  BY <1>1 DEF Raise
<1>2. ASSUME NEW code \in Library!Regrets, Refuse(u, code) PROVE Tells(u)
  BY <1>2
<1>3. ASSUME NEW code \in Library!Regrets, Fail(u, code) PROVE Tells(u)
  BY <1>3 DEF Fail
<1>4. CASE Throw(u)
  BY <1>1, <1>4 DEF Throw, Library!Regrets
<1> QED
  BY <1>1, <1>2, <1>3, <1>4

LEMMA StepTells ==
  ASSUME NEW u \in Uploads, Step(u)
  PROVE  Tells(u)
<1>1. /\ {"400", "403", "413", "415", "422", "500", "503", "failed"} \subseteq Library!Regrets
      /\ {"ok", "indexed", "completed"} \subseteq Library!Promises
      /\ "index_failed" \in Library!Regrets
  BY DEF Library!Regrets, Library!Promises
<1>2. ASSUME NEW q \in Inputs[u], Receive(u, q) PROVE Tells(u)
  BY <1>1, <1>2 DEF Receive, Refuse, StepFails, Tell, Tells
<1>3. CASE ValidateFile(u) \/ Analyze(u) \/ AnalyzeFails(u)
  <2>1. CASE \E code \in Library!Regrets : Raise(u, code) \/ Refuse(u, code)
    BY <2>1, ControlTells
  <2>2. CASE told' = told
    BY <2>2 DEF Tells
  <2> QED
    BY <1>1, <1>3, <2>1, <2>2 DEF ValidateFile, Analyze, AnalyzeFails, StepFails
<1>4. CASE ParseFails(u)
  <2>1. FailureCode(Input(u)) \in Library!Regrets
    BY <1>1 DEF FailureCode
  <2> QED
    BY <1>4, <2>1, ControlTells DEF ParseFails
<1>5. CASE EmbedFails(u) \/ StatementFails(u) \/ MarkFailed(u)
  <2>1. CASE told' = told
    BY <2>1 DEF Tells
  <2> QED
    BY <1>1, <1>5, <2>1, ControlTells DEF EmbedFails, StatementFails, MarkFailed
<1>6. CASE Respond(u) \/ RecordStep(u)
  BY <1>1, <1>6 DEF Respond, RecordStep, Tell, Tells
<1>7. CASE \/ CreateDocument(u) \/ EmbedChunk(u) \/ StoreChunks(u) \/ MarkIndexed(u)
           \/ LogEvent(u) \/ Commit(u) \/ Rollback(u) \/ ProcessDies(u)
  BY <1>7 DEF CreateDocument, EmbedChunk, StoreChunks, MarkIndexed, LogEvent, Commit, Rollback,
              ProcessDies, Tells
<1> QED
  BY <1>2, <1>3, <1>4, <1>5, <1>6, <1>7 DEF Step, Serve

\* A step begins before the upload is over, and only Commit stores it; a step
\* that answers finds no answer.
LEMMA StepStarts ==
  ASSUME IInv, NEW u \in Uploads, Step(u)
  PROVE  /\ pc[u] # "done" /\ u \notin stored
         /\ u \in stored' => Commit(u)
         /\ told' = told \/ told[u] = "none"
<1>1. pc[u] # "done" /\ (u \in stored' => u \in stored \/ Commit(u))
  BY DEF Step, Serve, Receive, ValidateFile, Analyze, AnalyzeFails, ParseFails, CreateDocument, EmbedChunk, EmbedFails,
         MarkFailed, StoreChunks, MarkIndexed, StatementFails, LogEvent, Respond, RecordStep, Commit,
         Rollback, ProcessDies, InFlight
<1>2. u \notin stored
  BY <1>1 DEF IInv, Placed
<1>3. CASE pc[u] \in {"commit", "rollback"}
  <2>1. Commit(u) \/ Rollback(u) \/ ProcessDies(u)
    BY <1>3 DEF Step, Serve, Receive, ValidateFile, Analyze, AnalyzeFails, ParseFails, CreateDocument, EmbedChunk,
           EmbedFails, MarkFailed, StoreChunks, MarkIndexed, StatementFails, LogEvent, Respond, RecordStep
  <2>2. told' = told
    BY <2>1 DEF Commit, Rollback, ProcessDies
  <2> QED
    BY <1>1, <1>2, <2>2
<1>4. CASE pc[u] \notin {"commit", "rollback"}
  BY <1>1, <1>4 DEF IInv, Placed, TypeOK
<1> QED
  BY <1>1, <1>2, <1>3, <1>4

LEMMA StepRefines ==
  ASSUME IInv, NEW u \in Uploads, Step(u)
  PROVE  [Library!LibraryNext]_(Library!libraryVars)
<1>1. found' = found
  BY DEF Step, Serve, Receive, ValidateFile, Analyze, AnalyzeFails, ParseFails, CreateDocument, EmbedChunk, EmbedFails,
         MarkFailed, StoreChunks, MarkIndexed, StatementFails, LogEvent, Respond, RecordStep, Commit,
         Rollback, ProcessDies
<1>2. ASSUME NEW v \in Uploads \ {u}
      PROVE  Shelf'[v] = Shelf[v]
  <2>1. Untouched(v)
    BY Elsewhere DEF IInv, UploadInv
  <2> QED
    BY <2>1 DEF Untouched, Shelf, Row, Input
<1>3. u \notin stored /\ Shelf[u] = Absent
  BY StepStarts DEF Shelf
<1>4. CASE u \in stored'
  <2>1. Commit(u) /\ pc[u] = "commit" /\ told' = told
    BY <1>4, StepStarts DEF Commit
  <2>2. /\ Shelf'[u] = IF Shelved(u)' THEN Book(u) ELSE Absent
        /\ Shelved(u)' => Book(u) \in Library!Books /\ outcome[u] = "indexed"
    <3>1. Row(u)' = Row(u) /\ Book(u)' = Book(u)
      BY <2>1 DEF Commit, Row, Book, Input
    <3>2. Shelf'[u] = IF Shelved(u)' THEN Book(u)' ELSE Absent
      BY DEF Shelf, Shelved, Book
    <3>3. Alive(u) /\ input[u] # Absent
      BY <2>1 DEF Alive, InFlight, IInv, Placed
    <3>4. Row(u).status = "indexed" => outcome[u] = "indexed"
      BY <2>1, <3>3 DEF IInv, RowsRight
    <3>5. Shelved(u)' => outcome[u] = "indexed"
      BY <3>1, <3>4 DEF Shelved
    <3> QED
      BY <3>1, <3>2, <3>3, <3>5, BookType
  <2>3. CASE Shelved(u)'
    <3>1. outcome[u] = "indexed"
      BY <2>1, <2>2, <2>3 DEF Commit
    <3>2. told[u] \in Library!Promises
      BY <2>1, <3>1 DEF IInv, Placed, Promises, Library!Promises
    <3>3. Shelf' = [Shelf EXCEPT ![u] = Book(u)]
      BY <1>2, <2>2, <2>3 DEF Shelf
    <3>4. Library!Shelve(u, Book(u))
      BY <1>1, <1>3, <2>1, <3>2, <3>3 DEF Library!Shelve
    <3> QED
      BY <2>2, <2>3, <3>4 DEF Library!LibraryNext
  <2>4. CASE ~Shelved(u)'
    <3>1. Shelf' = Shelf
      BY <1>2, <1>3, <2>2, <2>4 DEF Shelf
    <3> QED
      BY <1>1, <2>1, <3>1 DEF Library!libraryVars
  <2> QED
    BY <2>3, <2>4
<1>5. CASE u \notin stored'
  <2>1. Shelf'[u] = Absent
    BY <1>5 DEF Shelf
  <2>2. Shelf' = Shelf
    BY <1>2, <1>3, <2>1 DEF Shelf
  <2>3. CASE told' = told
    BY <1>1, <2>2, <2>3 DEF Library!libraryVars
  <2>4. CASE told' # told
    <3>1. told[u] = "none" /\ Tells(u)
      BY <2>4, StepStarts, StepTells
    <3> QED
      BY <1>1, <2>2, <2>4, <3>1 DEF Tells, Library!Tell, Library!LibraryNext
  <2> QED
    BY <2>3, <2>4
<1> QED
  BY <1>4, <1>5

LEMMA ReaderRefines ==
  ASSUME IInv, NEW s \in Readers, ReaderStep(s)
  PROVE  [Library!LibraryNext]_(Library!libraryVars)
<1>1. told' = told /\ Shelf' = Shelf
  BY DEF ReaderStep, Ask, Search, SearchFails, docVars, Shelf, Row, Input
<1>2. CASE found' = found
  BY <1>1, <1>2 DEF Library!libraryVars
<1>3. CASE Search(s)
  <2>1. query[s] \in [ tenant : Tenants, project : Projects ]
    BY <1>3 DEF Search, IInv, TypeOK
  <2>2. PICK t \in Tenants, p \in Projects : query[s].tenant = t /\ query[s].project = p
    BY <2>1
  <2>3. Library!Look(s, t, p)
    <3>1. Matching(t, p) = Library!Reach(t, p)
      BY MatchingIsReach
    <3>2. PICK pages \in SUBSET Matching(t, p) :
            /\ Cardinality(pages) <= TopK
            /\ pages = Matching(t, p) \/ Cardinality(pages) = TopK
            /\ found' = [found EXCEPT ![s] = pages]
      BY <1>3, <2>2 DEF Search
    <3>3. Library!Cardinality(pages) = Cardinality(pages)
      BY DEF Cardinality, Library!Cardinality
    <3> QED
      BY <1>1, <3>1, <3>2, <3>3 DEF Library!Look
  <2> QED
    BY <2>2, <2>3 DEF Library!LibraryNext
<1> QED
  BY <1>2, <1>3 DEF ReaderStep, Ask, SearchFails

\* LibrarySpec: searches see a library in which every upload, whatever failed
\* on its way, has put one whole document or none.
THEOREM LibraryRefined == Spec => LibrarySpec
<1>1. Init => Library!LibraryInit
  BY DEF Init, Library!LibraryInit, Shelf
<1>2. IInv /\ [Next]_vars => [Library!LibraryNext]_(Library!libraryVars)
  <2> SUFFICES ASSUME IInv, [Next]_vars
               PROVE  [Library!LibraryNext]_(Library!libraryVars)
    OBVIOUS
  <2>1. ASSUME NEW u \in Uploads, Step(u) PROVE [Library!LibraryNext]_(Library!libraryVars)
    BY <2>1, StepRefines
  <2>2. ASSUME NEW s \in Readers, ReaderStep(s) PROVE [Library!LibraryNext]_(Library!libraryVars)
    BY <2>2, ReaderRefines
  <2>3. CASE UNCHANGED vars
    BY <2>3 DEF vars, docVars, Library!libraryVars, Shelf, Row, Input
  <2>4. Next => (\E u \in Uploads : Step(u)) \/ (\E s \in Readers : ReaderStep(s))
    BY DEF Next, Step, ReaderStep
  <2> QED
    BY <2>1, <2>2, <2>3, <2>4
<1> QED
  BY <1>1, <1>2, InvHolds, PTL DEF Spec, LibrarySpec, Library!LibrarySpec
=============================================================================
