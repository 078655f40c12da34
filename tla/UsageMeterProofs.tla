-------------------------- MODULE UsageMeterProofs --------------------------
(***************************************************************************)
(* Proofs about UsageMeter, for every set of calls and projects, every     *)
(* limit and load, and every combination of faults.                        *)
(***************************************************************************)
EXTENDS UsageMeter, FiniteSetTheorems, TLAPS

USE CallsAssumption, LimitAssumption, FaultsAssumption, NoProjectAssumption, AbsentAssumption

Rows == [ project : Keys, ai_call_count : Nat ]

-----------------------------------------------------------------------------
(* Types *)

LEMMA InitType == Init => TypeOK
<1> SUFFICES ASSUME Init PROVE TypeOK
  OBVIOUS
<1>1. overlapped \in BOOLEAN /\ quota_enabled \in BOOLEAN /\ metered \subseteq Calls
  BY DEF Init
<1>2. /\ usage_records \in [Calls -> Rows \cup {Absent}]
      /\ record \in [Calls -> Calls \cup {Absent}]
      /\ project \in [Calls -> Keys \cup {Absent}]
  BY DEF Init
<1> QED
  BY <1>1, <1>2 DEF Init, TypeOK, Rows, InFlight

LEMMA CallType ==
  ASSUME TypeOK, NEW c \in Calls, NEW k \in Keys,
         NEW label \in {"check", "search"}, Receive(c, k, label)
  PROVE  TypeOK'
  BY DEF TypeOK, Receive, Goto, Answer, InFlight

LEMMA CommitType ==
  ASSUME TypeOK, LockInv, CallInv, KeyInv, NEW c \in Calls, Commit(c)
  PROVE  TypeOK'
<1>1. usage_records' \in [Calls -> Rows \cup {Absent}]
  <2>1. CASE updated[c]
    <3>1. record[c] \in Calls
      BY <2>1 DEF LockInv, KeyInv, Matching, TypeOK
    <3>2. project[c] \in Keys /\ ai_call_count[c] \in Nat
      BY DEF Commit, CallInv, TypeOK
    <3> QED
      BY <2>1, <3>1, <3>2 DEF Commit, TypeOK, Rows
  <2> QED
    BY <2>1 DEF Commit, TypeOK, Rows
<1>2. metered' \subseteq Calls
  BY DEF Commit, TypeOK
<1> QED
  BY <1>1, <1>2 DEF Commit, Release, Goto, TypeOK, InFlight, Rows

LEMMA FetchType ==
  ASSUME TypeOK, NEW c \in Calls, FetchRecord(c)
  PROVE  TypeOK'
<1>1. record' \in [Calls -> Calls \cup {Absent}] /\ ai_call_count' \in [Calls -> Nat]
  <2>1. ASSUME NEW i \in Matching(project[c])
        PROVE  i \in Calls /\ usage_records[i].ai_call_count \in Nat
    BY DEF Matching, TypeOK
  <2> QED
    BY <2>1 DEF FetchRecord, TypeOK
<1> QED
  BY <1>1 DEF FetchRecord, Goto, Answer, TypeOK, InFlight

LEMMA StepType ==
  ASSUME TypeOK, LockInv, CallInv, KeyInv, [Next]_vars
  PROVE  TypeOK'
<1>1. ASSUME NEW c \in Calls, NEW k \in Keys, CallGenerate(c, k) \/ CallAsk(c, k) PROVE TypeOK'
  BY <1>1, CallType DEF CallGenerate, CallAsk
<1>2. ASSUME NEW c \in Calls, CheckQuota(c) PROVE TypeOK'
  BY <1>2 DEF CheckQuota, Goto, Answer, TypeOK, InFlight
<1>3. ASSUME NEW c \in Calls, CheckRaises(c) PROVE TypeOK'
  BY <1>3 DEF CheckRaises, Goto, Answer, TypeOK, InFlight
<1>4. ASSUME NEW c \in Calls, Search(c) PROVE TypeOK'
  BY <1>4 DEF Search, Goto, Answer, TypeOK, InFlight
<1>5. ASSUME NEW c \in Calls, Generate(c) PROVE TypeOK'
  BY <1>5 DEF Generate, Goto, Answer, TypeOK, InFlight
<1>6. ASSUME NEW c \in Calls, AnswerQuestion(c) PROVE TypeOK'
  BY <1>6 DEF AnswerQuestion, Goto, Answer, TypeOK, InFlight
<1>7. ASSUME NEW c \in Calls, FetchRecord(c) PROVE TypeOK'
  BY <1>7, FetchType
<1>8. ASSUME NEW c \in Calls, InsertRecord(c) PROVE TypeOK'
  BY <1>8 DEF InsertRecord, Goto, TypeOK, InFlight
<1>9. ASSUME NEW c \in Calls, InsertCollides(c) PROVE TypeOK'
  BY <1>9 DEF InsertCollides, Goto, Answer, TypeOK, InFlight
<1>10. ASSUME NEW c \in Calls, UpdateRecord(c) PROVE TypeOK'
  BY <1>10 DEF UpdateRecord, Goto, Answer, TypeOK, InFlight
<1>11. ASSUME NEW c \in Calls, StatementFails(c) PROVE TypeOK'
  BY <1>11 DEF StatementFails, Release, Goto, Answer, TypeOK, InFlight
<1>12. ASSUME NEW c \in Calls, Commit(c) PROVE TypeOK'
  BY <1>12, CommitType
<1>13. ASSUME NEW c \in Calls, CommitFails(c) PROVE TypeOK'
  BY <1>13 DEF CommitFails, Goto, TypeOK, InFlight
<1>14. ASSUME NEW c \in Calls, Rollback(c) PROVE TypeOK'
  BY <1>14 DEF Rollback, Release, Goto, TypeOK, InFlight
<1>15. ASSUME NEW c \in Calls, ProcessDies(c) PROVE TypeOK'
  BY <1>15 DEF ProcessDies, Release, Goto, TypeOK, InFlight
<1>16. CASE UNCHANGED vars
  BY <1>16 DEF TypeOK, vars
<1> QED
  BY <1>1, <1>2, <1>3, <1>4, <1>5, <1>7, <1>8, <1>9, <1>10, <1>11, <1>12, <1>13, <1>14, <1>15,
     <1>16, <1>6 DEF Next, Serve, Increment

-----------------------------------------------------------------------------
(* The conjuncts of IInv but the types *)

Rest == RowInv /\ KeyInv /\ LockInv /\ CallInv /\ OneRecordPerProject

LEMMA InitRest == Init => Rest
<1> SUFFICES ASSUME Init PROVE Rest
  OBVIOUS
<1>1. RowInv /\ KeyInv /\ LockInv /\ CallInv
  BY DEF Init, RowInv, KeyInv, LockInv, CallInv
<1>2. OneRecordPerProject
  BY DEF Init, OneRecordPerProject, UniqueRecord, Matching
<1> QED
  BY <1>1, <1>2 DEF Rest

\* A step of one call that touches no row and takes no lock: it keeps what it
\* holds or gives up all of it, and does not get ready to update a row.
LEMMA Passing ==
  ASSUME TypeOK, Rest, NEW c \in Calls,
         usage_records' = usage_records, project' = project, record' = record,
         \A d \in Calls \ {c} :
           /\ pc'[d] = pc[d] /\ session'[d] = session[d] /\ response'[d] = response[d]
           /\ inserted'[d] = inserted[d] /\ updated'[d] = updated[d],
         pc[c] \in InFlight, pc'[c] # "idle", pc'[c] # "update",
         \/ inserted'[c] = inserted[c] /\ updated'[c] = updated[c]
         \/ ~inserted'[c] /\ ~updated'[c],
         inserted'[c] \/ updated'[c] => pc'[c] \in {"commit", "rollback"},
         response'[c] = "raised" => pc'[c] \in {"rollback", "done"},
         response'[c] = "raised" /\ project[c] \in Projects =>
           session'[c] = "invalid"
  PROVE  Rest'
<1>1. \A k : Matching(k)' = Matching(k)
  BY DEF Matching
<1>2. RowInv'
  BY DEF RowInv, Rest, InFlight
<1>3. KeyInv'
  <2> SUFFICES ASSUME NEW d \in Calls, inserted'[d]
               PROVE  /\ pc'[d] \in {"update", "commit", "rollback"}
                      /\ record'[d] = d
                      /\ project'[d] \in Projects =>
                           Matching(project[d])' = {} /\ Inserting(project[d])' = {d}
    BY DEF KeyInv
  <2>1. inserted[d]
    OBVIOUS
  <2>2. /\ record[d] = d
        /\ pc[d] \in {"update", "commit", "rollback"}
        /\ project[d] \in Projects => Matching(project[d]) = {} /\ Inserting(project[d]) = {d}
    BY <2>1 DEF KeyInv, Rest
  <2>3. Inserting(project[d])' \subseteq Inserting(project[d]) /\ d \in Inserting(project[d])'
    BY DEF Inserting
  <2> QED
    BY <1>1, <2>2, <2>3
<1>4. LockInv'
  <2> SUFFICES ASSUME NEW d \in Calls,
                      updated'[d] \/ (pc'[d] = "update" /\ session'[d] = "active")
               PROVE  /\ pc'[d] \in {"update", "commit", "rollback"}
                      /\ inserted'[d] \/ record'[d] \in Matching(project[d])'
    BY DEF LockInv
  <2>1. CASE d = c
    <3>1. updated'[c] /\ updated[c] /\ inserted'[c] = inserted[c]
      BY <2>1
    <3> QED
      BY <1>1, <2>1, <3>1 DEF LockInv, Rest
  <2>2. CASE d # c
    BY <1>1, <2>2 DEF LockInv, Rest
  <2> QED
    BY <2>1, <2>2
<1>5. CallInv'
  BY DEF CallInv, Rest, InFlight
<1>6. OneRecordPerProject'
  <2>1. UniqueRecord'
    BY <1>1 DEF OneRecordPerProject, UniqueRecord, Rest
  <2>2. ASSUME NEW d \in Calls, response'[d] = "raised", project'[d] \in Projects
        PROVE  session'[d] = "invalid"
    BY <2>2 DEF OneRecordPerProject, Rest
  <2> QED
    BY <2>1, <2>2 DEF OneRecordPerProject
<1> QED
  BY <1>2, <1>3, <1>4, <1>5, <1>6 DEF Rest

\* A gateway call that names a project finds one row at most, and does not raise.
LEMMA NoRaise ==
  ASSUME TypeOK, Rest, NEW c \in Calls, Cardinality(Matching(project[c])) > 1
  PROVE  project[c] \notin Projects
<1> SUFFICES ASSUME project[c] \in Projects PROVE FALSE
  OBVIOUS
<1> DEFINE found == Matching(project[c])
<1>1. \A i, j \in found : i = j
  BY DEF Rest, OneRecordPerProject, UniqueRecord
<1>2. CASE found = {}
  BY <1>2, FS_EmptySet
<1>3. CASE found # {}
  <2>1. PICK i \in found : found = {i}
    BY <1>1, <1>3
  <2>2. Cardinality({i}) = 1
    BY FS_Singleton
  <2> QED
    BY <2>1, <2>2
<1> QED
  BY <1>2, <1>3

-----------------------------------------------------------------------------
(* The steps that Passing does not cover *)

\* A call begins: it has no row, and holds nothing.
LEMMA CallRest ==
  ASSUME TypeOK, Rest, NEW c \in Calls, NEW k \in Keys,
         NEW label \in {"check", "search"}, Receive(c, k, label)
  PROVE  Rest'
<1>1. usage_records[c] = Absent /\ ~inserted[c] /\ ~updated[c] /\ response[c] # "raised"
  BY DEF Rest, RowInv, KeyInv, LockInv, CallInv, Receive
<1>2. \A d \in Calls \ {c} :
        project'[d] = project[d] /\ pc'[d] = pc[d] /\ response'[d] = response[d]
  BY DEF Receive, Goto, Answer, TypeOK
<1>3. pc'[c] \in {"check", "search", "rollback"} /\ project'[c] = k /\ response'[c] # "raised"
  BY <1>1 DEF Receive, Goto, Answer, TypeOK
<1>4. \A j : Matching(j)' = Matching(j)
  BY DEF Receive, Matching
<1>5. RowInv'
  BY <1>1, <1>2 DEF Rest, RowInv, Receive
<1>6. KeyInv'
  <2> SUFFICES ASSUME NEW d \in Calls, inserted[d]
               PROVE  /\ pc[d] \in {"update", "commit", "rollback"} /\ record[d] = d /\ d # c
                      /\ project[d] \in Projects =>
                           Matching(project[d]) = {} /\ Inserting(project[d])' = {d}
    BY <1>2, <1>4 DEF KeyInv, Receive
  <2>1. Inserting(project[d])' = Inserting(project[d])
    BY <1>1, <1>2 DEF Inserting, Receive
  <2> QED
    BY <1>1, <2>1 DEF Rest, KeyInv
<1>7. LockInv'
  BY <1>1, <1>2, <1>3, <1>4 DEF Rest, LockInv, Receive
<1>8. CallInv'
  BY <1>1, <1>2, <1>3 DEF Rest, CallInv, Receive
<1>9. OneRecordPerProject'
  <2>1. UniqueRecord'
    BY <1>4 DEF Rest, OneRecordPerProject, UniqueRecord
  <2> QED
    BY <1>1, <1>2, <1>3, <2>1 DEF Rest, OneRecordPerProject, Receive
<1> QED
  BY <1>5, <1>6, <1>7, <1>8, <1>9 DEF Rest

\* A step of c that changes neither rows nor projects, and takes the key or the
\* row it needs, or gets ready to take it.
LEMMA Acquiring ==
  ASSUME TypeOK, Rest, NEW c \in Calls,
         usage_records' = usage_records, project' = project, session' = session,
         \A d \in Calls \ {c} :
           /\ pc'[d] = pc[d] /\ record'[d] = record[d] /\ response'[d] = response[d]
           /\ inserted'[d] = inserted[d] /\ updated'[d] = updated[d],
         pc[c] \in InFlight, pc'[c] \in {"update", "commit"},
         response'[c] # "raised",
         inserted'[c] => /\ record'[c] = c
                         /\ project[c] \in Projects =>
                              Matching(project[c]) = {} /\ Inserting(project[c]) \subseteq {c},
         inserted'[c] \/ record'[c] \in Matching(project[c])
  PROVE  Rest'
<1>1. \A k : Matching(k)' = Matching(k)
  BY DEF Matching
<1>2. RowInv'
  BY DEF RowInv, Rest, InFlight
<1>3. KeyInv'
  <2> SUFFICES ASSUME NEW d \in Calls, inserted'[d]
               PROVE  /\ pc'[d] \in {"update", "commit", "rollback"}
                      /\ record'[d] = d
                      /\ project[d] \in Projects =>
                           Matching(project[d]) = {} /\ Inserting(project[d])' = {d}
    BY <1>1 DEF KeyInv
  <2>1. CASE d = c
    BY <2>1 DEF Inserting
  <2>2. CASE d # c
    <3>1. /\ inserted[d] /\ record[d] = d /\ pc[d] \in {"update", "commit", "rollback"}
          /\ project[d] \in Projects => Matching(project[d]) = {} /\ Inserting(project[d]) = {d}
      BY <2>2 DEF Rest, KeyInv
    <3>2. ASSUME project[d] \in Projects PROVE Inserting(project[d])' = {d}
      <4>1. ~(inserted'[c] /\ project[c] = project[d])
        BY <2>2, <3>1, <3>2 DEF Inserting
      <4> QED
        BY <3>1, <3>2, <4>1 DEF Inserting
    <3> QED
      BY <2>2, <3>1, <3>2
  <2> QED
    BY <2>1, <2>2
<1>4. LockInv'
  <2> SUFFICES ASSUME NEW d \in Calls,
                      updated'[d] \/ (pc'[d] = "update" /\ session[d] = "active")
               PROVE  /\ pc'[d] \in {"update", "commit", "rollback"}
                      /\ inserted'[d] \/ record'[d] \in Matching(project[d])
    BY <1>1 DEF LockInv
  <2>1. CASE d = c
    BY <2>1
  <2>2. CASE d # c
    BY <2>2 DEF LockInv, Rest
  <2> QED
    BY <2>1, <2>2
<1>5. CallInv'
  BY DEF CallInv, Rest, InFlight
<1>6. OneRecordPerProject'
  <2>1. UniqueRecord'
    BY <1>1 DEF OneRecordPerProject, UniqueRecord, Rest
  <2> QED
    BY <2>1 DEF OneRecordPerProject, Rest
<1> QED
  BY <1>2, <1>3, <1>4, <1>5, <1>6 DEF Rest

\* A call that has not come to the update holds nothing.
LEMMA HoldsNothing ==
  ASSUME TypeOK, Rest, NEW c \in Calls,
         pc[c] \in {"check", "generate", "search", "answer", "fetch", "insert"}
  PROVE  ~inserted[c] /\ ~updated[c] /\ response[c] # "raised" /\ pc[c] \in InFlight
  BY DEF Rest, KeyInv, LockInv, CallInv, InFlight

LEMMA FetchRest ==
  ASSUME TypeOK, Rest, NEW c \in Calls, FetchRecord(c)
  PROVE  Rest'
<1>1. ~inserted[c] /\ ~updated[c] /\ response[c] # "raised" /\ pc[c] \in InFlight
  BY HoldsNothing DEF FetchRecord
<1>2. CASE record' = record /\ pc'[c] \in {"insert", "commit"}
  <2>1. \A d \in Calls \ {c} : pc'[d] = pc[d] /\ response'[d] = response[d]
    BY DEF FetchRecord, Goto, Answer, TypeOK
  <2>2. response'[c] # "raised"
    BY <1>1 DEF FetchRecord, Answer, TypeOK
  <2> QED
    BY <1>1, <1>2, <2>1, <2>2, Passing DEF FetchRecord
<1>3. CASE \E i \in Matching(project[c]) : record' = [record EXCEPT ![c] = i]
                                           /\ Goto(c, "update") /\ UNCHANGED response
  BY <1>1, <1>3, Acquiring DEF FetchRecord, Goto, TypeOK
<1> QED
  BY <1>2, <1>3 DEF FetchRecord, Goto, TypeOK

LEMMA InsertRest ==
  ASSUME TypeOK, Rest, NEW c \in Calls, InsertRecord(c)
  PROVE  Rest'
<1>1. ~inserted[c] /\ ~updated[c] /\ response[c] # "raised" /\ pc[c] \in InFlight
  BY HoldsNothing DEF InsertRecord
<1>2. project[c] \in Projects => Matching(project[c]) = {} /\ Inserting(project[c]) = {}
  BY DEF InsertRecord, KeyFree
<1> QED
  BY <1>1, <1>2, Acquiring DEF InsertRecord, Goto, TypeOK

LEMMA UpdateRest ==
  ASSUME TypeOK, Rest, NEW c \in Calls, UpdateRecord(c)
  PROVE  Rest'
<1>1. inserted[c] \/ record[c] \in Matching(project[c])
  BY DEF Rest, LockInv, UpdateRecord
<1>2. inserted[c] => /\ record[c] = c
                     /\ project[c] \in Projects =>
                          Matching(project[c]) = {} /\ Inserting(project[c]) = {c}
  BY DEF Rest, KeyInv
<1>3. pc[c] \in InFlight
  BY DEF UpdateRecord, InFlight
<1> QED
  BY <1>1, <1>2, <1>3, Acquiring DEF UpdateRecord, Goto, Answer, TypeOK

\* What is committed is a row of the call's project: the one it had found, or
\* the only one.
LEMMA CommitRest ==
  ASSUME TypeOK, Rest, NEW c \in Calls, Commit(c)
  PROVE  Rest'
<1>1. /\ pc[c] = "commit" /\ session' = session /\ project' = project /\ record' = record
      /\ response' = response /\ pc'[c] = "done" /\ ~inserted'[c] /\ ~updated'[c]
      /\ \A d \in Calls \ {c} :
           pc'[d] = pc[d] /\ inserted'[d] = inserted[d] /\ updated'[d] = updated[d]
  BY DEF Commit, Release, Goto, TypeOK
<1>2. CASE ~updated[c]
  BY <1>1, <1>2, Passing DEF Commit, InFlight, Rest, CallInv
<1>3. CASE updated[c]
  <2>1. inserted[c] \/ record[c] \in Matching(project[c])
    BY <1>3 DEF Rest, LockInv
  <2>2. inserted[c] => /\ record[c] = c /\ usage_records[c] = Absent
                       /\ project[c] \in Projects =>
                            Matching(project[c]) = {} /\ Inserting(project[c]) = {c}
    BY <1>1 DEF Rest, KeyInv, RowInv
  <2>3. record[c] \in Calls /\ project[record[c]] = project[c] /\ project[c] \in Keys
    BY <1>1, <2>1, <2>2 DEF Matching, Rest, RowInv, CallInv
  <2>4. /\ usage_records'[record[c]] # Absent
        /\ usage_records'[record[c]].project = project[c]
        /\ \A i \in Calls \ {record[c]} : usage_records'[i] = usage_records[i]
    <3>1. [project |-> project[c], ai_call_count |-> ai_call_count[c]] # Absent
      BY <2>3 DEF TypeOK
    <3> QED
      BY <1>3, <2>3, <3>1 DEF Commit, TypeOK
  <2>5. ASSUME NEW k
        PROVE  Matching(k)' = IF k = project[c] THEN Matching(k) \cup {record[c]} ELSE Matching(k)
    BY <2>1, <2>2, <2>3, <2>4 DEF Matching
  <2>6. RowInv'
    BY <1>1, <2>1, <2>2, <2>3, <2>4 DEF Rest, RowInv, Matching
  <2>7. KeyInv'
    <3> SUFFICES ASSUME NEW d \in Calls, inserted'[d]
                 PROVE  /\ pc[d] \in {"update", "commit", "rollback"} /\ record[d] = d
                        /\ d # c
                        /\ project[d] \in Projects =>
                             Matching(project[d])' = {} /\ Inserting(project[d])' = {d}
      BY <1>1 DEF KeyInv
    <3>1. /\ d # c /\ inserted[d] /\ record[d] = d /\ pc[d] \in {"update", "commit", "rollback"}
          /\ project[d] \in Projects => Matching(project[d]) = {} /\ Inserting(project[d]) = {d}
      BY <1>1 DEF Rest, KeyInv
    <3>2. ASSUME project[d] \in Projects
          PROVE  Matching(project[d])' = {} /\ Inserting(project[d])' = {d}
      <4>1. project[c] # project[d]
        BY <2>1, <2>2, <3>1, <3>2 DEF Inserting
      <4>2. Inserting(project[d])' = Inserting(project[d])
        BY <1>1, <4>1 DEF Inserting
      <4>3. \A k : k # project[c] => Matching(k)' = Matching(k)
        BY <2>5
      <4>4. Matching(project[d])' = Matching(project[d])
        BY <1>1, <4>1, <4>3 DEF Matching
      <4> QED
        BY <3>1, <3>2, <4>2, <4>4
    <3> QED
      BY <3>1, <3>2
  <2>8. LockInv'
    BY <1>1, <2>5 DEF Rest, LockInv
  <2>9. CallInv'
    BY <1>1 DEF Rest, CallInv
  <2>10. UniqueRecord'
    <3> SUFFICES ASSUME NEW k \in Projects, NEW i \in Matching(k)', NEW j \in Matching(k)'
                 PROVE  i = j
      BY DEF UniqueRecord
    <3>1. \A a, b \in Matching(k) : a = b
      BY DEF Rest, OneRecordPerProject, UniqueRecord
    <3>2. CASE k # project[c]
      <4>1. Matching(k)' = Matching(k)
        BY <2>5, <3>2
      <4> QED
        BY <3>1, <4>1
    <3>3. CASE k = project[c]
      <4>1. Matching(k)' = Matching(k) \cup {record[c]}
        BY <2>5, <3>3
      <4>2. Matching(k) = {} \/ record[c] \in Matching(k)
        BY <2>1, <2>2, <3>3
      <4> QED
        BY <3>1, <4>1, <4>2
    <3> QED
      BY <3>2, <3>3
  <2>11. OneRecordPerProject'
    BY <1>1, <2>10 DEF Rest, OneRecordPerProject
  <2> QED
    BY <2>6, <2>7, <2>8, <2>9, <2>11 DEF Rest
<1> QED
  BY <1>2, <1>3 DEF TypeOK

LEMMA StepRest ==
  ASSUME TypeOK, Rest, [Next]_vars
  PROVE  Rest'
<1>1. ASSUME NEW c \in Calls, NEW k \in Keys, CallGenerate(c, k) \/ CallAsk(c, k) PROVE Rest'
  BY <1>1, CallRest DEF CallGenerate, CallAsk
<1>2. ASSUME NEW c \in Calls, CheckQuota(c) PROVE Rest'
  <2>1. response'[c] # "raised" /\ pc'[c] \in {"generate", "rollback"}
    BY <1>2, HoldsNothing DEF CheckQuota, Goto, Answer, TypeOK
  <2> QED
    BY <1>2, <2>1, HoldsNothing, Passing DEF CheckQuota, Goto, Answer, TypeOK
<1>3. ASSUME NEW c \in Calls, CheckRaises(c) PROVE Rest'
  BY <1>3, HoldsNothing, NoRaise, Passing DEF CheckRaises, Goto, Answer, TypeOK
<1>4. ASSUME NEW c \in Calls, Search(c) PROVE Rest'
  <2>1. response'[c] # "raised" /\ pc'[c] \in {"answer", "commit", "rollback"}
    BY <1>4, HoldsNothing DEF Search, Goto, Answer, TypeOK
  <2> QED
    BY <1>4, <2>1, HoldsNothing, Passing DEF Search, Goto, Answer, TypeOK
<1>5. ASSUME NEW c \in Calls, Generate(c) PROVE Rest'
  <2>1. /\ pc'[c] \in {"fetch", "rollback"}
        /\ response'[c] = "raised" => FALSE
    BY <1>5, HoldsNothing DEF Generate, Goto, Answer, TypeOK
  <2> QED
    BY <1>5, <2>1, HoldsNothing, Passing DEF Generate, Goto, Answer, TypeOK
<1>6. ASSUME NEW c \in Calls, AnswerQuestion(c) PROVE Rest'
  <2>1. pc'[c] \in {"fetch", "rollback"} /\ response'[c] # "raised"
    BY <1>6, HoldsNothing DEF AnswerQuestion, Goto, Answer, TypeOK
  <2> QED
    BY <1>6, <2>1, HoldsNothing, Passing DEF AnswerQuestion, Goto, Answer, TypeOK
<1>7. ASSUME NEW c \in Calls, FetchRecord(c) PROVE Rest'
  BY <1>7, FetchRest
<1>8. ASSUME NEW c \in Calls, InsertRecord(c) PROVE Rest'
  BY <1>8, InsertRest
<1>9. ASSUME NEW c \in Calls, InsertCollides(c) PROVE Rest'
  BY <1>9, HoldsNothing, Passing DEF InsertCollides, Goto, Answer, TypeOK
<1>10. ASSUME NEW c \in Calls, UpdateRecord(c) PROVE Rest'
  BY <1>10, UpdateRest
<1>11. ASSUME NEW c \in Calls, StatementFails(c) PROVE Rest'
  <2>1. /\ pc[c] \in InFlight /\ pc'[c] \in {"rollback", "commit"} /\ session'[c] = "invalid"
        /\ response'[c] = "raised" => pc'[c] = "rollback"
    BY <1>11 DEF StatementFails, Goto, Answer, TypeOK, InFlight
  <2> QED
    BY <1>11, <2>1, Passing DEF StatementFails, Release, Goto, Answer, TypeOK
<1>12. ASSUME NEW c \in Calls, Commit(c) PROVE Rest'
  BY <1>12, CommitRest
<1>13. ASSUME NEW c \in Calls, CommitFails(c) PROVE Rest'
  <2>1. response'[c] # "raised" /\ pc[c] \in InFlight
    BY <1>13 DEF CommitFails, Rest, CallInv, InFlight
  <2> QED
    BY <1>13, <2>1, Passing DEF CommitFails, Goto, TypeOK
<1>14. ASSUME NEW c \in Calls, Rollback(c) PROVE Rest'
  <2>1. /\ pc[c] \in InFlight
        /\ response[c] = "raised" /\ project[c] \in Projects =>
             session[c] = "invalid"
    BY <1>14 DEF Rollback, Rest, OneRecordPerProject, InFlight
  <2> QED
    BY <1>14, <2>1, Passing DEF Rollback, Release, Goto, TypeOK
<1>15. ASSUME NEW c \in Calls, ProcessDies(c) PROVE Rest'
  <2>1. response[c] = "raised" /\ project[c] \in Projects =>
          session[c] = "invalid"
    BY DEF Rest, OneRecordPerProject
  <2> QED
    BY <1>15, <2>1, Passing DEF ProcessDies, Release, Goto, TypeOK
<1>16. CASE UNCHANGED vars
  BY <1>16 DEF vars, Rest, RowInv, KeyInv, LockInv, CallInv, OneRecordPerProject, UniqueRecord,
               Matching, Inserting
<1> QED
  BY <1>1, <1>2, <1>3, <1>4, <1>5, <1>7, <1>8, <1>9, <1>10, <1>11, <1>12, <1>13, <1>14, <1>15,
     <1>16, <1>6 DEF Next, Serve, Increment

-----------------------------------------------------------------------------
(* What the rows count *)

Counts == CountInv /\ CounterExact /\ AloneInv

LEMMA InitCounts == Init => Counts
<1> SUFFICES ASSUME Init PROVE Counts
  OBVIOUS
<1>1. CountInv
  BY DEF Init, CountInv, NeverOvercounts
<1>2. CounterExact
  BY DEF Init, CounterExact, Matching, MeteredFor
<1>3. AloneInv
  BY DEF Init, AloneInv, CallsInFlight, InFlight
<1> QED
  BY <1>1, <1>2, <1>3 DEF Counts

LEMMA MeteredFinite ==
  ASSUME TypeOK, NEW i
  PROVE  /\ IsFiniteSet(MeteredOn(i)) /\ Cardinality(MeteredOn(i)) \in Nat
         /\ IsFiniteSet(MeteredFor(i)) /\ Cardinality(MeteredFor(i)) \in Nat
<1>1. MeteredOn(i) \subseteq Calls /\ MeteredFor(i) \subseteq Calls
  BY DEF TypeOK, MeteredOn, MeteredFor
<1>2. IsFiniteSet(MeteredOn(i)) /\ IsFiniteSet(MeteredFor(i))
  BY <1>1, FS_Subset
<1> QED
  BY <1>2, FS_CardinalityType

\* A step of a call that is not over changes nothing of what is metered, unless
\* it commits.
LEMMA MeteredKept ==
  ASSUME CountInv, NEW c \in Calls, metered' = metered, pc[c] # "done",
         \A d \in Calls \ {c} : record'[d] = record[d] /\ project'[d] = project[d],
         metered \subseteq Calls
  PROVE  \A k : MeteredOn(k)' = MeteredOn(k) /\ MeteredFor(k)' = MeteredFor(k)
<1>1. \A d \in metered : record'[d] = record[d] /\ project'[d] = project[d]
  BY DEF CountInv
<1> QED
  BY <1>1 DEF MeteredOn, MeteredFor

\* A step of one call that commits nothing keeps CountInv if what the call has
\* read and written is right.
LEMMA CountKept ==
  ASSUME TypeOK, CountInv, NEW c \in Calls,
         usage_records' = usage_records, metered' = metered, pc[c] # "done",
         \A d \in Calls \ {c} :
           /\ pc'[d] = pc[d] /\ session'[d] = session[d] /\ updated'[d] = updated[d]
           /\ record'[d] = record[d] /\ ai_call_count'[d] = ai_call_count[d]
           /\ project'[d] = project[d],
         pc'[c] = "update" /\ session'[c] = "active" =>
           ai_call_count'[c] <= Cardinality(MeteredOn(record'[c])),
         updated'[c] => ai_call_count'[c] <= Cardinality(MeteredOn(record'[c])) + 1
  PROVE  CountInv'
<1>1. \A k : MeteredOn(k)' = MeteredOn(k)
  BY MeteredKept DEF TypeOK
<1>2. ASSUME NEW d \in metered' PROVE pc'[d] = "done"
  BY <1>2 DEF CountInv, TypeOK
<1>3. NeverOvercounts'
  BY <1>1 DEF CountInv, NeverOvercounts
<1>4. ASSUME NEW d \in Calls, pc'[d] = "update", session'[d] = "active"
      PROVE  ai_call_count'[d] <= Cardinality(MeteredOn(record[d])')
  <2>1. MeteredOn(record[d])' = MeteredOn(record'[d])
    BY <1>1 DEF MeteredOn
  <2> QED
    BY <1>4, <2>1 DEF CountInv
<1>5. ASSUME NEW d \in Calls, updated'[d]
      PROVE  ai_call_count'[d] <= Cardinality(MeteredOn(record[d])') + 1
  <2>1. MeteredOn(record[d])' = MeteredOn(record'[d])
    BY <1>1 DEF MeteredOn
  <2> QED
    BY <1>5, <2>1 DEF CountInv
<1> QED
  BY <1>2, <1>3, <1>4, <1>5 DEF CountInv

\* Such a step of the only call in flight keeps CounterExact and AloneInv if
\* what the call has found, read and written is right.
LEMMA AloneKept ==
  ASSUME TypeOK, Rest, Counts, NEW c \in Calls,
         usage_records' = usage_records, metered' = metered, project' = project,
         overlapped' = overlapped, pc[c] \in InFlight,
         \A d \in Calls \ {c} :
           /\ pc'[d] = pc[d] /\ session'[d] = session[d] /\ updated'[d] = updated[d]
           /\ record'[d] = record[d] /\ ai_call_count'[d] = ai_call_count[d],
         ~overlapped =>
           /\ pc'[c] = "insert" => Matching(project[c]) = {}
           /\ pc'[c] = "update" /\ session'[c] = "active" =>
                /\ Matching(project[c]) \subseteq {record'[c]}
                /\ ai_call_count'[c] = Cardinality(MeteredFor(project[c]))
           /\ updated'[c] =>
                /\ Matching(project[c]) \subseteq {record'[c]}
                /\ ai_call_count'[c] = Cardinality(MeteredFor(project[c])) + 1
  PROVE  CounterExact' /\ AloneInv'
<1> SUFFICES ASSUME ~overlapped' PROVE CounterExact' /\ AloneInv'
  BY DEF CounterExact, AloneInv
<1>1. \A k : Matching(k)' = Matching(k) /\ MeteredFor(k)' = MeteredFor(k)
  <2>1. \A k : MeteredFor(k)' = MeteredFor(k)
    BY MeteredKept DEF TypeOK, InFlight, Counts
  <2> QED
    BY <2>1 DEF Matching
<1>2. CounterExact'
  BY <1>1 DEF Counts, CounterExact
<1>3. CallsInFlight \subseteq {c} /\ CallsInFlight' \subseteq {c}
  <2>1. \A d \in CallsInFlight : d = c
    BY DEF Counts, AloneInv, CallsInFlight
  <2> QED
    BY <2>1 DEF CallsInFlight
<1>4. ASSUME NEW d \in Calls
      PROVE  /\ pc'[d] = "insert" => Matching(project[d]) = {}
             /\ pc'[d] = "update" /\ session'[d] = "active" =>
                  /\ Matching(project[d]) \subseteq {record'[d]}
                  /\ ai_call_count'[d] = Cardinality(MeteredFor(project[d]))
             /\ updated'[d] =>
                  /\ Matching(project[d]) \subseteq {record'[d]}
                  /\ ai_call_count'[d] = Cardinality(MeteredFor(project[d])) + 1
  <2>1. CASE d = c
    BY <2>1
  <2>2. CASE d # c
    BY <2>2 DEF Counts, AloneInv
  <2> QED
    BY <2>1, <2>2
<1>5. ASSUME NEW d \in Calls
      PROVE  Matching(project[d])' = Matching(project[d])
             /\ MeteredFor(project[d])' = MeteredFor(project[d])
  <2>1. \A k : k = project[d] => Matching(k)' = Matching(k) /\ MeteredFor(k)' = MeteredFor(k)
    BY <1>1
  <2> QED
    BY <2>1 DEF Matching, MeteredFor
<1>6. AloneInv'
  BY <1>3, <1>4, <1>5 DEF AloneInv
<1> QED
  BY <1>2, <1>6

\* A step of a call that reads and writes no counter.
LEMMA PassingCounts ==
  ASSUME TypeOK, Rest, Counts, NEW c \in Calls,
         usage_records' = usage_records, metered' = metered, project' = project,
         record' = record, ai_call_count' = ai_call_count, overlapped' = overlapped,
         \A d \in Calls \ {c} :
           pc'[d] = pc[d] /\ session'[d] = session[d] /\ updated'[d] = updated[d],
         pc[c] \in InFlight, pc'[c] \notin {"idle", "insert", "update"},
         updated'[c] => updated[c]
  PROVE  Counts'
<1>1. pc[c] # "done"
  BY DEF InFlight
<1>2. updated[c] => ai_call_count[c] <= Cardinality(MeteredOn(record[c])) + 1
  BY DEF Counts, CountInv
<1>3. CountInv'
  BY <1>1, <1>2, CountKept DEF Counts
<1>4. updated[c] /\ ~overlapped =>
        /\ Matching(project[c]) \subseteq {record[c]}
        /\ ai_call_count[c] = Cardinality(MeteredFor(project[c])) + 1
  BY DEF Counts, AloneInv
<1>5. CounterExact' /\ AloneInv'
  BY <1>4, AloneKept
<1> QED
  BY <1>3, <1>5 DEF Counts

\* A call that begins while another is in flight overlaps with it.
LEMMA CallCounts ==
  ASSUME TypeOK, Rest, Counts, NEW c \in Calls, NEW k \in Keys,
         NEW label \in {"check", "search"}, Receive(c, k, label)
  PROVE  Counts'
<1>1. /\ pc[c] = "idle" /\ pc'[c] \notin {"idle", "insert", "update", "done"}
      /\ usage_records' = usage_records /\ metered' = metered /\ updated' = updated
      /\ session' = session /\ record' = record /\ ai_call_count' = ai_call_count
      /\ \A d \in Calls \ {c} : pc'[d] = pc[d] /\ project'[d] = project[d]
  BY DEF Receive, Goto, TypeOK
<1>2. ~updated[c]
  BY <1>1 DEF Rest, LockInv
<1>3. CountInv'
  BY <1>1, <1>2, CountKept DEF Counts
<1>4. \A j : Matching(j)' = Matching(j) /\ MeteredFor(j)' = MeteredFor(j)
  <2>1. \A j : MeteredFor(j)' = MeteredFor(j)
    BY <1>1, MeteredKept DEF TypeOK, Counts
  <2> QED
    BY <1>1, <2>1 DEF Matching
<1>5. ~overlapped' => ~overlapped /\ CallsInFlight = {}
  BY DEF Receive, TypeOK
<1>6. CounterExact'
  BY <1>4, <1>5 DEF Counts, CounterExact, Receive
<1>7. ASSUME ~overlapped' PROVE AloneInv'
  <2>1. CallsInFlight' \subseteq {c}
    BY <1>1, <1>5, <1>7 DEF CallsInFlight
  <2>2. \A d \in Calls : ~updated'[d] /\ pc'[d] \notin {"insert", "update"}
    <3>1. \A d \in Calls : pc[d] \notin InFlight
      BY <1>5, <1>7 DEF CallsInFlight
    <3>2. \A d \in Calls : ~updated[d] /\ pc[d] \notin {"insert", "update"}
      BY <3>1 DEF Rest, LockInv, InFlight
    <3> QED
      BY <1>1, <3>2
  <2> QED
    BY <2>1, <2>2 DEF AloneInv
<1> QED
  BY <1>3, <1>6, <1>7 DEF Counts, AloneInv

\* The row is read with what has been metered on it, or there is none.
LEMMA FetchCounts ==
  ASSUME TypeOK, Rest, Counts, NEW c \in Calls, FetchRecord(c)
  PROVE  Counts'
<1>1. /\ pc[c] = "fetch" /\ pc[c] \in InFlight /\ ~updated[c] /\ project[c] \in Keys
      /\ usage_records' = usage_records /\ metered' = metered /\ project' = project
      /\ updated' = updated /\ session' = session /\ overlapped' = overlapped
      /\ \A d \in Calls \ {c} :
           /\ pc'[d] = pc[d] /\ record'[d] = record[d]
           /\ ai_call_count'[d] = ai_call_count[d]
  <2>1. project[c] \in Keys
    BY DEF FetchRecord, Rest, CallInv
  <2> QED
    BY <2>1, HoldsNothing DEF FetchRecord, Goto, TypeOK
<1>2. CASE pc'[c] = "insert" /\ Matching(project[c]) = {}
  <2>1. CountInv'
    BY <1>1, <1>2, CountKept DEF Counts
  <2>2. CounterExact' /\ AloneInv'
    BY <1>1, <1>2, AloneKept
  <2> QED
    BY <2>1, <2>2 DEF Counts
<1>3. CASE pc'[c] = "commit"
  <2>1. CountInv'
    BY <1>1, <1>3, CountKept DEF Counts
  <2>2. CounterExact' /\ AloneInv'
    BY <1>1, <1>3, AloneKept
  <2> QED
    BY <2>1, <2>2 DEF Counts
<1>4. ASSUME NEW i \in Calls, Matching(project[c]) = {i}, record'[c] = i, pc'[c] = "update",
             ai_call_count'[c] = usage_records[i].ai_call_count
      PROVE  Counts'
  <2>1. usage_records[i] # Absent
    BY <1>4 DEF Matching
  <2>2. usage_records[i].ai_call_count <= Cardinality(MeteredOn(i))
    BY <2>1 DEF Counts, CountInv, NeverOvercounts
  <2>3. CountInv'
    BY <1>1, <1>4, <2>2, CountKept DEF Counts
  <2>4. ~overlapped => usage_records[i].ai_call_count = Cardinality(MeteredFor(project[c]))
    BY <1>1, <1>4 DEF Counts, CounterExact
  <2>5. CounterExact' /\ AloneInv'
    BY <1>1, <1>4, <2>4, AloneKept
  <2> QED
    BY <2>3, <2>5 DEF Counts
<1>5. \/ pc'[c] = "insert" /\ Matching(project[c]) = {}
      \/ \E i \in Calls : /\ Matching(project[c]) = {i} /\ record'[c] = i /\ pc'[c] = "update"
                          /\ ai_call_count'[c] = usage_records[i].ai_call_count
      \/ pc'[c] = "commit"
  <2>1. Matching(project[c]) \subseteq Calls
    BY DEF Matching
  <2> QED
    BY <2>1 DEF FetchRecord, Goto, TypeOK
<1> QED
  BY <1>2, <1>3, <1>4, <1>5

\* A new row counts nothing, and while the call is alone nothing is metered for
\* its project either.
LEMMA InsertCounts ==
  ASSUME TypeOK, Rest, Counts, NEW c \in Calls, InsertRecord(c)
  PROVE  Counts'
<1>1. /\ pc[c] = "insert" /\ pc[c] \in InFlight /\ ~updated[c] /\ project[c] \in Keys
      /\ usage_records' = usage_records /\ metered' = metered /\ project' = project
      /\ updated' = updated /\ session' = session /\ overlapped' = overlapped
      /\ pc'[c] = "update" /\ record'[c] = c /\ ai_call_count'[c] = 0
      /\ \A d \in Calls \ {c} :
           /\ pc'[d] = pc[d] /\ record'[d] = record[d]
           /\ ai_call_count'[d] = ai_call_count[d]
  <2>1. project[c] \in Keys
    BY DEF InsertRecord, Rest, CallInv
  <2> QED
    BY <2>1, HoldsNothing DEF InsertRecord, Goto, TypeOK
<1>2. 0 <= Cardinality(MeteredOn(c))
  BY MeteredFinite
<1>3. CountInv'
  BY <1>1, <1>2, CountKept DEF Counts
<1>4. ~overlapped =>
        Matching(project[c]) = {} /\ Cardinality(MeteredFor(project[c])) = 0
  <2> SUFFICES ASSUME ~overlapped
               PROVE  Matching(project[c]) = {} /\ Cardinality(MeteredFor(project[c])) = 0
    OBVIOUS
  <2>1. Matching(project[c]) = {}
    BY <1>1 DEF Counts, AloneInv
  <2>2. MeteredFor(project[c]) = {}
    BY <1>1, <2>1 DEF Counts, CounterExact
  <2> QED
    BY <2>1, <2>2, FS_EmptySet
<1>5. CounterExact' /\ AloneInv'
  BY <1>1, <1>4, AloneKept
<1> QED
  BY <1>3, <1>5 DEF Counts

LEMMA UpdateCounts ==
  ASSUME TypeOK, Rest, Counts, NEW c \in Calls, UpdateRecord(c)
  PROVE  Counts'
<1>1. /\ pc[c] = "update" /\ session[c] = "active" /\ pc[c] \in InFlight
      /\ usage_records' = usage_records /\ metered' = metered /\ project' = project
      /\ record' = record /\ session' = session /\ overlapped' = overlapped
      /\ pc'[c] = "commit" /\ ai_call_count'[c] = ai_call_count[c] + 1
      /\ \A d \in Calls \ {c} :
           /\ pc'[d] = pc[d] /\ updated'[d] = updated[d]
           /\ ai_call_count'[d] = ai_call_count[d]
  BY DEF UpdateRecord, Goto, TypeOK, InFlight
<1>2. ai_call_count[c] + 1 <= Cardinality(MeteredOn(record[c])) + 1
  <2>1. ai_call_count[c] \in Nat /\ Cardinality(MeteredOn(record[c])) \in Nat
    BY MeteredFinite DEF TypeOK
  <2>2. ai_call_count[c] <= Cardinality(MeteredOn(record[c]))
    BY <1>1 DEF Counts, CountInv
  <2> QED
    BY <2>1, <2>2
<1>3. CountInv'
  BY <1>1, <1>2, CountKept DEF Counts
<1>4. ~overlapped =>
        /\ Matching(project[c]) \subseteq {record[c]}
        /\ ai_call_count[c] + 1 = Cardinality(MeteredFor(project[c])) + 1
  BY <1>1 DEF Counts, AloneInv
<1>5. CounterExact' /\ AloneInv'
  BY <1>1, <1>4, AloneKept
<1> QED
  BY <1>3, <1>5 DEF Counts

\* The row a call commits counts what was metered on it, and this call: while
\* calls do not overlap it counts no fewer either.
LEMMA CommitCounts ==
  ASSUME TypeOK, Rest, Counts, NEW c \in Calls, Commit(c), updated[c]
  PROVE  Counts'
<1> DEFINE r == record[c]
           k == project[c]
<1>1. /\ pc[c] = "commit" /\ pc'[c] = "done" /\ pc[c] \in InFlight
      /\ session' = session /\ project' = project /\ record' = record
      /\ ai_call_count' = ai_call_count /\ overlapped' = overlapped
      /\ ~updated'[c]
      /\ \A d \in Calls \ {c} : pc'[d] = pc[d] /\ updated'[d] = updated[d]
      /\ metered' = metered \cup {c} /\ c \notin metered
  BY DEF Commit, Release, Goto, TypeOK, Counts, CountInv, InFlight
<1>2. /\ r \in Calls /\ k \in Keys
      /\ usage_records'[r] = [project |-> k, ai_call_count |-> ai_call_count[c]]
      /\ usage_records'[r] # Absent
      /\ \A i \in Calls \ {r} : usage_records'[i] = usage_records[i]
      /\ usage_records[r] # Absent => usage_records[r].project = k
      /\ ai_call_count[c] \in Nat
  <2>1. inserted[c] \/ r \in Matching(k)
    BY DEF Rest, LockInv
  <2>2. r \in Calls
    BY <2>1 DEF Matching, Rest, KeyInv
  <2>3. k \in Keys /\ ai_call_count[c] \in Nat
    BY <1>1 DEF Rest, CallInv, TypeOK
  <2>4. [project |-> k, ai_call_count |-> ai_call_count[c]] # Absent
    BY <2>3
  <2>5. usage_records[r] # Absent => usage_records[r].project = k
    BY <1>1, <2>1 DEF Rest, RowInv, KeyInv, Matching
  <2> QED
    BY <2>2, <2>3, <2>4, <2>5 DEF Commit, TypeOK
<1>3. /\ \A i : MeteredOn(i)' = IF i = r THEN MeteredOn(i) \cup {c} ELSE MeteredOn(i)
      /\ \A j : MeteredFor(j)' = IF j = k THEN MeteredFor(j) \cup {c} ELSE MeteredFor(j)
      /\ c \notin MeteredOn(r) /\ c \notin MeteredFor(k)
  BY <1>1 DEF MeteredOn, MeteredFor
<1>4. \A j : Matching(j)' = IF j = k THEN Matching(j) \cup {r} ELSE Matching(j)
  BY <1>2 DEF Matching
<1>5. /\ Cardinality(MeteredOn(r) \cup {c}) = Cardinality(MeteredOn(r)) + 1
      /\ Cardinality(MeteredFor(k) \cup {c}) = Cardinality(MeteredFor(k)) + 1
  BY <1>3, MeteredFinite, FS_AddElement
<1>6. ASSUME NEW i
      PROVE  /\ Cardinality(MeteredOn(i)) \in Nat /\ Cardinality(MeteredOn(i)') \in Nat
             /\ Cardinality(MeteredOn(i)) <= Cardinality(MeteredOn(i)')
  <2>1. Cardinality(MeteredOn(i)) \in Nat
    BY MeteredFinite
  <2>2. CASE i = r
    <3>1. MeteredOn(i)' = MeteredOn(i) \cup {c}
      BY <1>3, <2>2
    <3>2. Cardinality(MeteredOn(i) \cup {c}) = Cardinality(MeteredOn(i)) + 1
      BY <1>5, <2>2
    <3> QED
      BY <2>1, <3>1, <3>2
  <2>3. CASE i # r
    <3>1. MeteredOn(i)' = MeteredOn(i)
      BY <1>3, <2>3
    <3> QED
      BY <2>1, <3>1
  <2> QED
    BY <2>2, <2>3
<1> HIDE DEF r, k
<1>7. CountInv'
  <2>1. \A d \in metered' : pc'[d] = "done"
    BY <1>1 DEF Counts, CountInv, TypeOK
  <2>2. NeverOvercounts'
    <3> SUFFICES ASSUME NEW i \in Calls, usage_records'[i] # Absent
                 PROVE  usage_records'[i].ai_call_count <= Cardinality(MeteredOn(i)')
      BY DEF NeverOvercounts
    <3>1. CASE i = r
      <4>1. ai_call_count[c] <= Cardinality(MeteredOn(r)) + 1
        BY DEF Counts, CountInv, r
      <4>2. MeteredOn(i)' = MeteredOn(r) \cup {c}
        BY <1>3, <3>1
      <4>3. usage_records'[i].ai_call_count = ai_call_count[c]
        BY <1>2, <3>1
      <4> QED
        BY <1>5, <4>1, <4>2, <4>3
    <3>2. CASE i # r
      <4>1. usage_records[i].ai_call_count <= Cardinality(MeteredOn(i))
        BY <1>2, <3>2 DEF Counts, CountInv, NeverOvercounts
      <4> QED
        BY <1>2, <1>3, <3>2, <4>1
    <3> QED
      BY <3>1, <3>2
  <2>3. ASSUME NEW d \in Calls
        PROVE  /\ Cardinality(MeteredOn(record[d])) <= Cardinality(MeteredOn(record[d])')
               /\ Cardinality(MeteredOn(record[d])) \in Nat
               /\ Cardinality(MeteredOn(record[d])') \in Nat
    <3>1. \A i : i = record[d] =>
            /\ Cardinality(MeteredOn(i)) <= Cardinality(MeteredOn(i)')
            /\ Cardinality(MeteredOn(i)) \in Nat /\ Cardinality(MeteredOn(i)') \in Nat
      BY <1>6
    <3>2. \A i : i = record[d] => MeteredOn(i)' = MeteredOn(record[d])'
      BY <1>1 DEF MeteredOn
    <3> QED
      BY <3>1, <3>2
  <2>4. ASSUME NEW d \in Calls, pc'[d] = "update", session'[d] = "active"
        PROVE  ai_call_count'[d] <= Cardinality(MeteredOn(record[d])')
    <3>1. ai_call_count[d] <= Cardinality(MeteredOn(record[d])) /\ ai_call_count[d] \in Nat
      BY <1>1, <2>4 DEF Counts, CountInv, TypeOK
    <3> QED
      BY <1>1, <2>3, <3>1
  <2>5. ASSUME NEW d \in Calls, updated'[d]
        PROVE  ai_call_count'[d] <= Cardinality(MeteredOn(record[d])') + 1
    <3>1. ai_call_count[d] <= Cardinality(MeteredOn(record[d])) + 1 /\ ai_call_count[d] \in Nat
      BY <1>1, <2>5 DEF Counts, CountInv, TypeOK
    <3> QED
      BY <1>1, <2>3, <3>1
  <2> QED
    BY <2>1, <2>2, <2>4, <2>5 DEF CountInv
<1>8. ASSUME ~overlapped' PROVE CounterExact' /\ AloneInv'
  <2>1. /\ Matching(k) \subseteq {r}
        /\ ai_call_count[c] = Cardinality(MeteredFor(k)) + 1
    BY <1>1, <1>8 DEF Counts, AloneInv, r, k
  <2>2. CounterExact'
    <3> SUFFICES ASSUME NEW j \in Keys
                 PROVE  \/ Matching(j)' = {} /\ MeteredFor(j)' = {}
                        \/ \E i \in Calls :
                             /\ Matching(j)' = {i}
                             /\ usage_records'[i].ai_call_count = Cardinality(MeteredFor(j)')
      BY DEF CounterExact
    <3>1. CASE j = k
      <4>1. Matching(j)' = {r} /\ MeteredFor(j)' = MeteredFor(k) \cup {c}
        BY <1>3, <1>4, <2>1, <3>1
      <4> QED
        BY <1>2, <1>5, <2>1, <4>1
    <3>2. CASE j # k
      <4>1. Matching(j)' = Matching(j) /\ MeteredFor(j)' = MeteredFor(j)
        BY <1>3, <1>4, <3>2
      <4>2. \A i \in Matching(j) : usage_records'[i] = usage_records[i]
        BY <1>2, <3>2 DEF Matching
      <4> QED
        BY <1>1, <1>8, <4>1, <4>2 DEF Counts, CounterExact
    <3> QED
      BY <3>1, <3>2
  <2>3. CallsInFlight' = {} /\ \A d \in Calls \ {c} : pc[d] \notin InFlight
    <3>1. \A d \in CallsInFlight : d = c
      BY <1>1, <1>8 DEF Counts, AloneInv, CallsInFlight
    <3> QED
      BY <1>1, <3>1 DEF CallsInFlight, InFlight
  <2>4. \A d \in Calls : ~updated'[d] /\ pc'[d] \notin {"insert", "update"}
    <3>1. \A d \in Calls \ {c} : ~updated[d] /\ pc[d] \notin {"insert", "update"}
      BY <2>3 DEF Rest, LockInv, InFlight
    <3> QED
      BY <1>1, <3>1
  <2>5. AloneInv'
    BY <2>3, <2>4 DEF AloneInv
  <2> QED
    BY <2>2, <2>5
<1> QED
  BY <1>7, <1>8 DEF Counts, CounterExact, AloneInv

LEMMA StepCounts ==
  ASSUME TypeOK, Rest, Counts, [Next]_vars
  PROVE  Counts'
<1>1. ASSUME NEW c \in Calls, NEW k \in Keys, CallGenerate(c, k) \/ CallAsk(c, k) PROVE Counts'
  BY <1>1, CallCounts DEF CallGenerate, CallAsk
<1>2. ASSUME NEW c \in Calls, CheckQuota(c) \/ CheckRaises(c) PROVE Counts'
  BY <1>2, PassingCounts DEF CheckQuota, CheckRaises, Goto, TypeOK, InFlight
<1>3. ASSUME NEW c \in Calls, Search(c) \/ Generate(c) \/ AnswerQuestion(c) PROVE Counts'
  BY <1>3, PassingCounts DEF Search, Generate, AnswerQuestion, Goto, TypeOK, InFlight
<1>4. ASSUME NEW c \in Calls, FetchRecord(c) PROVE Counts'
  BY <1>4, FetchCounts
<1>5. ASSUME NEW c \in Calls, InsertRecord(c) PROVE Counts'
  BY <1>5, InsertCounts
<1>6. ASSUME NEW c \in Calls, InsertCollides(c) PROVE Counts'
  BY <1>6, PassingCounts DEF InsertCollides, Goto, TypeOK, InFlight
<1>7. ASSUME NEW c \in Calls, UpdateRecord(c) PROVE Counts'
  BY <1>7, UpdateCounts
<1>8. ASSUME NEW c \in Calls, StatementFails(c) PROVE Counts'
  <2>1. pc[c] \in InFlight /\ pc'[c] \in {"rollback", "commit"}
    BY <1>8 DEF StatementFails, Goto, TypeOK, InFlight
  <2> QED
    BY <1>8, <2>1, PassingCounts DEF StatementFails, Release, Goto, TypeOK
<1>9. ASSUME NEW c \in Calls, Commit(c) PROVE Counts'
  <2>1. CASE updated[c]
    BY <1>9, <2>1, CommitCounts
  <2>2. CASE ~updated[c]
    BY <1>9, <2>2, PassingCounts DEF Commit, Release, Goto, TypeOK, InFlight
  <2> QED
    BY <2>1, <2>2 DEF TypeOK
<1>10. ASSUME NEW c \in Calls, CommitFails(c) PROVE Counts'
  BY <1>10, PassingCounts DEF CommitFails, Goto, TypeOK, InFlight
<1>11. ASSUME NEW c \in Calls, Rollback(c) PROVE Counts'
  BY <1>11, PassingCounts DEF Rollback, Release, Goto, TypeOK, InFlight
<1>12. ASSUME NEW c \in Calls, ProcessDies(c) PROVE Counts'
  BY <1>12, PassingCounts DEF ProcessDies, Release, Goto, TypeOK, InFlight
<1>13. CASE UNCHANGED vars
  <2>1. \A k : /\ Matching(k)' = Matching(k) /\ MeteredFor(k)' = MeteredFor(k)
               /\ MeteredOn(k)' = MeteredOn(k)
    BY <1>13 DEF vars, Matching, MeteredOn, MeteredFor
  <2>2. \A c : /\ Matching(project[c])' = Matching(project[c])
               /\ MeteredFor(project[c])' = MeteredFor(project[c])
               /\ MeteredOn(record[c])' = MeteredOn(record[c])
    BY <1>13 DEF vars, Matching, MeteredOn, MeteredFor
  <2>3. CountInv'
    BY <1>13, <2>1, <2>2 DEF vars, Counts, CountInv, NeverOvercounts
  <2>4. CounterExact'
    BY <1>13, <2>1 DEF vars, Counts, CounterExact
  <2>5. CallsInFlight' = CallsInFlight
    BY <1>13 DEF vars, CallsInFlight
  <2>6. AloneInv'
    BY <1>13, <2>2, <2>5 DEF vars, Counts, AloneInv
  <2> QED
    BY <2>3, <2>4, <2>6 DEF Counts
<1> QED
  BY <1>1, <1>2, <1>3, <1>4, <1>5, <1>6, <1>7, <1>8, <1>9, <1>10, <1>11, <1>12, <1>13
     DEF Next, Serve, Increment

-----------------------------------------------------------------------------
(* Theorems *)

\* The invariant holds of every state the calls of generate and ask can reach.
THEOREM InvHolds == Spec => []IInv
<1>1. Init => IInv
  BY InitType, InitRest DEF IInv, Rest
<1>2. IInv /\ [Next]_vars => IInv'
  BY StepType, StepRest DEF IInv, Rest
<1> QED
  BY <1>1, <1>2, PTL DEF Spec

\* The rows, attributes and answers keep the types the code gives them.
THEOREM TypeCorrect == Spec => []TypeOK
<1>1. IInv => TypeOK
  BY DEF IInv
<1> QED
  BY <1>1, InvHolds, PTL

\* However many calls race to create the row of a project, it gets one, and
\* the gateway never raises for having found two.
THEOREM OneRecordPerProjectHolds == Spec => []OneRecordPerProject
<1>1. IInv => OneRecordPerProject
  BY DEF IInv
<1> QED
  BY <1>1, InvHolds, PTL

\* What the rows count, next to IInv.
THEOREM CountsHold == Spec => [](IInv /\ Counts)
<1>1. Init => Counts
  BY InitCounts
<1>2. IInv /\ Counts /\ [Next]_vars => Counts'
  BY StepCounts DEF IInv, Rest
<1> QED
  BY <1>1, <1>2, InvHolds, PTL DEF Spec

\* However many calls overlap, fail and wait for each other's rows, no row
\* counts more calls than were metered on it.
THEOREM NeverOvercountsHolds == Spec => []NeverOvercounts
<1>1. Counts => NeverOvercounts
  BY DEF Counts, CountInv
<1> QED
  BY <1>1, CountsHold, PTL

\* As long as no two calls have overlapped every project has one row at most,
\* and it counts exactly the calls that were metered.
THEOREM CounterExactHolds == Spec => []CounterExact
<1>1. Counts => CounterExact
  BY DEF Counts
<1> QED
  BY <1>1, CountsHold, PTL

\* A call that passes the check with its project's limit reached is not alone, or
\* is the first of its project.
LEMMA CheckAlone ==
  ASSUME TypeOK, Rest, Counts, [Next]_vars, NEW c \in Calls, GoesOnTooLate(c),
         MeteredFor(project[c]) # {}
  PROVE  overlapped
<1> SUFFICES ASSUME ~overlapped PROVE FALSE
  BY DEF TypeOK
<1>1. pc[c] = "check" /\ pc'[c] = "generate" /\ project[c] \in Keys
  BY DEF GoesOnTooLate, Rest, CallInv
<1>2. CheckQuota(c)
  <2>1. ASSUME NEW d \in Calls, NEW k \in Keys, CallGenerate(d, k) \/ CallAsk(d, k) PROVE FALSE
    BY <1>1, <2>1 DEF CallGenerate, CallAsk, Receive, Goto, TypeOK
  <2>2. ASSUME NEW d \in Calls, CheckQuota(d) PROVE d = c
    BY <1>1, <2>2 DEF CheckQuota, Goto, TypeOK
  <2>3. ASSUME NEW d \in Calls, CheckRaises(d) \/ Search(d) \/ Generate(d) \/ AnswerQuestion(d)
        PROVE  FALSE
    BY <1>1, <2>3 DEF CheckRaises, Search, Generate, AnswerQuestion, Goto, TypeOK
  <2>4. ASSUME NEW d \in Calls, Increment(d) PROVE FALSE
    BY <1>1, <2>4 DEF Increment, FetchRecord, InsertRecord, InsertCollides, UpdateRecord, Goto,
                      TypeOK
  <2>5. ASSUME NEW d \in Calls, Commit(d) \/ CommitFails(d) \/ Rollback(d) PROVE FALSE
    BY <1>1, <2>5 DEF Commit, CommitFails, Rollback, Goto, TypeOK
  <2>6. ASSUME NEW d \in Calls, StatementFails(d) \/ ProcessDies(d) PROVE FALSE
    BY <1>1, <2>6 DEF StatementFails, ProcessDies, Goto, TypeOK
  <2>7. CASE UNCHANGED vars
    BY <1>1, <2>7 DEF vars
  <2> QED
    BY <2>1, <2>2, <2>3, <2>4, <2>5, <2>6, <2>7 DEF Next, Serve
<1>3. \A i \in Matching(project[c]) : usage_records[i].ai_call_count < Limit
  BY <1>1, <1>2 DEF CheckQuota, Goto, TypeOK, GoesOnTooLate
<1>4. Cardinality(MeteredFor(project[c])) >= Limit
  BY DEF GoesOnTooLate
<1>5. PICK i \in Calls :
        /\ Matching(project[c]) = {i}
        /\ usage_records[i].ai_call_count = Cardinality(MeteredFor(project[c]))
  BY <1>1 DEF Counts, CounterExact
<1>6. Cardinality(MeteredFor(project[c])) \in Nat
  BY MeteredFinite
<1> QED
  BY <1>3, <1>4, <1>5, <1>6

\* For every limit, 0 included: while no two calls have overlapped, a call goes
\* on to the provider only if none was metered for its project, or fewer than the
\* limit.  It is the limit of one project; of the tenant's, which quota.py
\* documents, nothing follows.
THEOREM ProjectQuotaKeptHolds == Spec => ProjectQuotaKept
<1>1. IInv /\ Counts /\ [Next]_vars =>
        [\A c \in Calls : GoesOnTooLate(c) => overlapped \/ MeteredFor(project[c]) = {}]_vars
  BY CheckAlone DEF IInv, Rest
<1> QED
  BY <1>1, CountsHold, PTL DEF Spec, ProjectQuotaKept
=============================================================================
