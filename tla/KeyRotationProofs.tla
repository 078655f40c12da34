------------------------- MODULE KeyRotationProofs -------------------------
(***************************************************************************)
(* Proofs about KeyRotation, for every set of processes and keys, every    *)
(* life span of tokens, and all procedures, those included that mix        *)
(* rotation in the process with restarts.                                  *)
(***************************************************************************)
EXTENDS KeyRotation, TLAPS

USE KeysAssumption, TimeAssumption, ProceduresAssumption

LEMMA InitInv == Init => IInv
<1> SUFFICES ASSUME Init PROVE IInv
  OBVIOUS
<1>1. TypeOK
  BY DEF Init, TypeOK, KeyPairs
<1>2. TokenInv /\ TimeInv
  BY DEF Init, TokenInv, TimeInv
<1>3. PendingInv /\ RetiredKeyRefused
  BY DEF Init, PendingInv, Pending, RetiredKeyRefused
<1> QED
  BY <1>1, <1>2, <1>3 DEF IInv

-----------------------------------------------------------------------------
(* A change of one process's pair *)

LEMMA KeysOfType == \A pair \in KeyPairs : KeysOf(pair) \subseteq Keys
BY DEF KeyPairs, KeysOf

LEMMA RetireType ==
  ASSUME TypeOK, NEW p \in Processes, NEW pair \in KeyPairs, Install(p, pair), Retire(p, pair),
         UNCHANGED <<deployed, tokens, clock, operations>>
  PROVE  TypeOK'
<1>1. KeysOf(keys[p]) \subseteq Keys
  BY KeysOfType DEF TypeOK
<1> QED
  BY <1>1 DEF TypeOK, Install, Retire

\* A token stays covered when the key that was current is retained, and the
\* previous one was not needed any more.
LEMMA RetireTokens ==
  ASSUME TypeOK, TokenInv, TimeInv, NEW p \in Processes, NEW pair \in KeyPairs,
         Install(p, pair), Retire(p, pair), UNCHANGED <<deployed, tokens, clock, operations>>,
         keys[p].previous = NoKey \/ keys[p].previous = pair.previous \/ Waited(p),
         pair.current = keys[p].current \/ pair.previous = keys[p].current
  PROVE  TokenInv' /\ TimeInv'
<1>1. TimeInv'
  BY DEF TimeInv, Install, TypeOK
<1>2. TokenInv'
  <2> SUFFICES ASSUME NEW t \in tokens
               PROVE  /\ t.exp <= clock + JWT_EXPIRY_SECONDS
                      /\ clock < t.exp => Covered(keys[t.by], t)' \/ t \in lost
    BY DEF TokenInv, Retire
  <2>1. t.key \in Keys /\ t.by \in Processes /\ t.exp \in Nat
    BY DEF TypeOK, Tokens
  <2>2. /\ t.exp <= clock + JWT_EXPIRY_SECONDS
        /\ clock < t.exp => Covered(keys[t.by], t) \/ t \in lost
    BY DEF TokenInv
  <2>3. ASSUME clock < t.exp, t.by # p, Covered(keys[t.by], t) PROVE Covered(keys[t.by], t)'
    BY <2>1, <2>3 DEF Covered, Install, TypeOK
  <2>4. ASSUME clock < t.exp, t.by = p, Covered(keys[p], t) PROVE Covered(keys[t.by], t)'
    <3>1. keys'[p] = pair /\ since'[p] = clock
      BY DEF Install, TypeOK
    <3>2. since[p] \in Nat /\ clock \in Nat /\ since[p] <= clock
      BY DEF TypeOK, TimeInv
    <3>3. CASE t.key = keys[p].current
      BY <2>1, <2>2, <2>4, <3>1, <3>3 DEF Covered
    <3>4. CASE t.key = keys[p].previous /\ t.exp <= since[p] + JWT_EXPIRY_SECONDS
      <4>1. ~Waited(p)
        BY <2>1, <2>4, <3>2, <3>4 DEF Waited
      <4>2. t.key = pair.previous
        BY <2>1, <3>4, <4>1
      <4> QED
        BY <2>1, <2>2, <2>4, <3>1, <4>2 DEF Covered
    <3> QED
      BY <2>1, <2>4, <3>3, <3>4 DEF Covered
  <2> QED
    BY <2>2, <2>3, <2>4
<1> QED
  BY <1>1, <1>2

\* What the new pair accepts had not been retired, or came back before; and what
\* it drops is retired.
LEMMA RetireRefusal ==
  ASSUME TypeOK, RetiredKeyRefused, NEW p \in Processes, NEW pair \in KeyPairs,
         Install(p, pair), Retire(p, pair), KeysOf(pair) \cap retired[p] \subseteq revived[p]
  PROVE  RetiredKeyRefused'
<1> SUFFICES ASSUME NEW q \in Processes
             PROVE  KeysOf(keys'[q]) \cap retired'[q] \subseteq revived'[q]
  BY DEF RetiredKeyRefused, KeysOf
<1>1. CASE q = p
  <2>1. /\ keys'[p] = pair /\ retired'[p] = retired[p] \cup (KeysOf(keys[p]) \ KeysOf(pair))
        /\ revived'[p] = revived[p] \cap KeysOf(pair)
    BY DEF Install, Retire, TypeOK
  <2> QED
    BY <1>1, <2>1
<1>2. CASE q # p
  <2>1. keys'[q] = keys[q] /\ retired'[q] = retired[q] /\ revived'[q] = revived[q]
    BY <1>2 DEF Install, Retire, TypeOK
  <2> QED
    BY <2>1 DEF RetiredKeyRefused
<1> QED
  BY <1>1, <1>2

\* The other processes wait for the secrets as before, and this one does not
\* once it has the pair of the secrets.
LEMMA InstallPending ==
  ASSUME TypeOK, PendingInv, RetiredKeyRefused', NEW p \in Processes, NEW pair \in KeyPairs,
         Install(p, pair), UNCHANGED <<deployed, clock>>,
         \A q \in Processes \ {p} : retired'[q] = retired[q] /\ revived'[q] = revived[q]
  PROVE  PendingInv'
<1> SUFFICES ASSUME NEW q \in Processes, ~rotated'[q] PROVE Pending(q)'
  BY DEF PendingInv
<1>1. CASE q = p
  <2>1. keys'[p] = pair /\ pair = deployed
    BY <1>1 DEF Install, TypeOK
  <2>2. KeysOf(deployed') \cap retired'[q] \subseteq revived'[q]
    BY <1>1, <2>1 DEF RetiredKeyRefused, KeysOf
  <2> QED
    BY <1>1, <2>1, <2>2 DEF Pending, KeysOf
<1>2. CASE q # p
  <2>1. /\ keys'[q] = keys[q] /\ since'[q] = since[q] /\ rotated'[q] = rotated[q]
        /\ retired'[q] = retired[q] /\ revived'[q] = revived[q]
    BY <1>2 DEF Install, TypeOK
  <2>2. Pending(q)
    BY <2>1 DEF PendingInv
  <2> QED
    BY <2>1, <2>2 DEF Pending, Waited, KeysOf
<1> QED
  BY <1>1, <1>2

LEMMA RetirePending ==
  ASSUME TypeOK, PendingInv, RetiredKeyRefused', NEW p \in Processes, NEW pair \in KeyPairs,
         Install(p, pair), Retire(p, pair), UNCHANGED <<deployed, clock>>
  PROVE  PendingInv'
<1>1. \A q \in Processes \ {p} : retired'[q] = retired[q] /\ revived'[q] = revived[q]
  BY DEF Retire, TypeOK
<1> QED
  BY <1>1, InstallPending

-----------------------------------------------------------------------------
(* The actions *)

LEMMA PromoteInv ==
  ASSUME IInv, NEW p \in Processes, NEW k \in Keys, PromoteNewKey(p, k)
  PROVE  IInv'
<1> DEFINE pair == [current |-> k, previous |-> keys[p].current]
<1>1. /\ pair \in KeyPairs /\ KeysOf(pair) \subseteq {k} \cup KeysOf(keys[p])
      /\ pair.current = k /\ pair.previous = keys[p].current
  BY DEF IInv, TypeOK, KeyPairs, KeysOf
<1>2. Install(p, pair) /\ Retire(p, pair) /\ UNCHANGED <<deployed, tokens, clock, operations>>
  BY DEF PromoteNewKey
<1>3. TypeOK'
  BY <1>1, <1>2, RetireType DEF IInv
<1>4. TokenInv' /\ TimeInv'
  BY <1>1, <1>2, RetireTokens DEF IInv, PromoteNewKey
<1>5. KeysOf(pair) \cap retired[p] \subseteq revived[p]
  BY <1>1 DEF PromoteNewKey, Known, IInv, RetiredKeyRefused
<1>6. RetiredKeyRefused'
  BY <1>1, <1>2, <1>5, RetireRefusal DEF IInv
<1> QED
  BY <1>1, <1>2, <1>3, <1>4, <1>6, RetirePending DEF IInv

LEMMA RetireInv ==
  ASSUME IInv, NEW p \in Processes, RetireOldKey(p)
  PROVE  IInv'
<1> DEFINE pair == [keys[p] EXCEPT !.previous = NoKey]
<1>1. /\ pair \in KeyPairs /\ KeysOf(pair) \subseteq KeysOf(keys[p])
      /\ pair.current = keys[p].current /\ pair.previous = NoKey
  BY DEF IInv, TypeOK, KeyPairs, KeysOf
<1>2. Install(p, pair) /\ Retire(p, pair) /\ UNCHANGED <<deployed, tokens, clock, operations>>
  BY DEF RetireOldKey
<1>3. TypeOK'
  BY <1>1, <1>2, RetireType DEF IInv
<1>4. TokenInv' /\ TimeInv'
  BY <1>1, <1>2, RetireTokens DEF IInv, RetireOldKey
<1>5. KeysOf(pair) \cap retired[p] \subseteq revived[p]
  BY <1>1 DEF IInv, RetiredKeyRefused
<1>6. RetiredKeyRefused'
  BY <1>1, <1>2, <1>5, RetireRefusal DEF IInv
<1> QED
  BY <1>1, <1>2, <1>3, <1>4, <1>6, RetirePending DEF IInv

\* A restart that undoes nothing finds the pair the process had, the next one, or
\* that without the previous key.
LEMMA RolloutInv ==
  ASSUME IInv, NEW p \in Processes, Restart(p), ~rotated[p]
  PROVE  IInv'
<1>1. /\ deployed \in KeyPairs /\ Install(p, deployed) /\ Retire(p, deployed)
      /\ UNCHANGED <<deployed, tokens, clock, operations>>
  BY DEF IInv, TypeOK, Restart
<1>2. TypeOK'
  BY <1>1, RetireType DEF IInv
<1>3. Pending(p)
  BY DEF IInv, PendingInv
<1>4. TokenInv' /\ TimeInv'
  BY <1>1, <1>3, RetireTokens DEF IInv, Pending
<1>5. RetiredKeyRefused'
  BY <1>1, <1>3, RetireRefusal DEF IInv, Pending
<1> QED
  BY <1>1, <1>2, <1>4, <1>5, RetirePending DEF IInv

\* A restart that undoes a rotation: what it brings back is revived, and the
\* tokens whose key it drops are lost.
LEMMA UndoInv ==
  ASSUME IInv, NEW p \in Processes, Restart(p), rotated[p]
  PROVE  IInv'
<1>1. /\ deployed \in KeyPairs /\ Install(p, deployed) /\ Undo(p)
      /\ UNCHANGED <<deployed, tokens, clock, operations>>
  BY DEF IInv, TypeOK, Restart
<1>2. TypeOK'
  <2>1. KeysOf(deployed) \subseteq Keys
    BY <1>1, KeysOfType
  <2> QED
    BY <1>1, <2>1 DEF IInv, TypeOK, Install, Undo
<1>3. TimeInv'
  BY <1>1 DEF IInv, TimeInv, Install, TypeOK
<1>4. TokenInv'
  <2> SUFFICES ASSUME NEW t \in tokens
               PROVE  /\ t.exp <= clock + JWT_EXPIRY_SECONDS
                      /\ clock < t.exp => Covered(keys[t.by], t)' \/ t \in lost'
    BY <1>1 DEF TokenInv
  <2>1. t.key \in Keys /\ t.by \in Processes /\ t.exp \in Nat
    BY DEF IInv, TypeOK, Tokens
  <2>2. /\ t.exp <= clock + JWT_EXPIRY_SECONDS
        /\ clock < t.exp => Covered(keys[t.by], t) \/ t \in lost
    BY DEF IInv, TokenInv
  <2>3. CASE t.by # p
    <3>1. keys'[t.by] = keys[t.by] /\ since'[t.by] = since[t.by]
      BY <1>1, <2>1, <2>3 DEF Install, IInv, TypeOK
    <3>2. lost \subseteq lost'
      BY <1>1 DEF Undo
    <3> QED
      BY <2>2, <3>1, <3>2 DEF Covered
  <2>4. CASE t.by = p
    <3>1. keys'[p] = deployed /\ since'[p] = clock
      BY <1>1 DEF Install, IInv, TypeOK
    <3>2. CASE t.key \in KeysOf(deployed)
      BY <2>2, <2>4, <3>1, <3>2 DEF Covered, KeysOf
    <3>3. CASE t.key \notin KeysOf(deployed)
      BY <1>1, <2>2, <2>4, <3>3 DEF Undo
    <3> QED
      BY <3>2, <3>3
  <2> QED
    BY <2>3, <2>4
<1>5. RetiredKeyRefused'
  <2> SUFFICES ASSUME NEW q \in Processes
               PROVE  KeysOf(keys'[q]) \cap retired'[q] \subseteq revived'[q]
    BY DEF RetiredKeyRefused, KeysOf
  <2>1. KeysOf(keys[q]) \cap retired[q] \subseteq revived[q]
    BY DEF IInv, RetiredKeyRefused
  <2>2. CASE q = p
    <3>1. /\ keys'[p] = deployed /\ retired'[p] = retired[p]
          /\ revived'[p] = (revived[p] \cap KeysOf(deployed))
                             \cup (KeysOf(deployed) \ KeysOf(keys[p]))
      BY <1>1 DEF Install, Undo, IInv, TypeOK
    <3> QED
      BY <2>1, <2>2, <3>1
  <2>3. CASE q # p
    <3>1. keys'[q] = keys[q] /\ retired'[q] = retired[q] /\ revived'[q] = revived[q]
      BY <1>1, <2>3 DEF Install, Undo, IInv, TypeOK
    <3> QED
      BY <2>1, <3>1
  <2> QED
    BY <2>2, <2>3
<1>6. \A q \in Processes \ {p} : retired'[q] = retired[q] /\ revived'[q] = revived[q]
  BY <1>1 DEF Undo, IInv, TypeOK
<1> QED
  BY <1>1, <1>2, <1>3, <1>4, <1>5, <1>6, InstallPending DEF IInv

\* An edit of the secrets when every process has them.
LEMMA ConfigureInv ==
  ASSUME IInv, NEW k \in Keys, Configure(k)
  PROVE  IInv'
<1>1. TypeOK'
  BY DEF IInv, TypeOK, Configure, KeyPairs, history
<1>2. TokenInv' /\ TimeInv' /\ RetiredKeyRefused'
  BY DEF IInv, TokenInv, TimeInv, RetiredKeyRefused, Covered, KeysOf, Configure, history
<1>3. PendingInv'
  <2> SUFFICES ASSUME NEW p \in Processes
               PROVE  /\ KeysOf(deployed') \cap retired[p] \subseteq revived[p]
                      /\ deployed'.previous = keys[p].current
                      /\ keys[p].previous = NoKey \/ Waited(p)
    BY DEF PendingInv, Pending, Configure, Waited, KeysOf, history
  <2>1. keys[p] = deployed /\ (deployed.previous = NoKey \/ Waited(p))
    BY DEF Configure, RolledOut
  <2>2. deployed' = [current |-> k, previous |-> deployed.current] /\ deployed \in KeyPairs
    BY DEF Configure, IInv, TypeOK
  <2>3. KeysOf(keys[p]) \cap retired[p] \subseteq revived[p] /\ k \notin retired[p]
    BY DEF IInv, RetiredKeyRefused, Configure, Known
  <2>4. KeysOf(deployed') \subseteq {k} \cup KeysOf(keys[p])
    BY <2>1, <2>2 DEF KeysOf, KeyPairs
  <2> QED
    BY <2>1, <2>2, <2>3, <2>4
<1> QED
  BY <1>1, <1>2, <1>3 DEF IInv

LEMMA ClearInv ==
  ASSUME IInv, ClearPrevious
  PROVE  IInv'
<1>1. TypeOK'
  BY DEF IInv, TypeOK, ClearPrevious, KeyPairs, history
<1>2. TokenInv' /\ TimeInv' /\ RetiredKeyRefused'
  BY DEF IInv, TokenInv, TimeInv, RetiredKeyRefused, Covered, KeysOf, ClearPrevious, history
<1>3. PendingInv'
  <2> SUFFICES ASSUME NEW p \in Processes
               PROVE  /\ KeysOf(deployed') \cap retired[p] \subseteq revived[p]
                      /\ deployed'.current = keys[p].current
                      /\ deployed'.previous = NoKey
                      /\ Waited(p)
    BY DEF PendingInv, Pending, ClearPrevious, Waited, KeysOf, history
  <2>1. keys[p] = deployed /\ Waited(p)
    BY DEF ClearPrevious, RolledOut
  <2>2. deployed' = [deployed EXCEPT !.previous = NoKey] /\ deployed \in KeyPairs
    BY DEF ClearPrevious, IInv, TypeOK
  <2>3. KeysOf(keys[p]) \cap retired[p] \subseteq revived[p]
    BY DEF IInv, RetiredKeyRefused
  <2>4. KeysOf(deployed') \subseteq KeysOf(keys[p])
    BY <2>1, <2>2 DEF KeysOf, KeyPairs
  <2> QED
    BY <2>1, <2>2, <2>3, <2>4 DEF KeyPairs
<1> QED
  BY <1>1, <1>2, <1>3 DEF IInv

\* Once the secrets show what every process has, no restart changes anything.
LEMMA RecordInv ==
  ASSUME IInv, NEW q \in Processes, Record(keys[q])
  PROVE  IInv'
<1>1. TypeOK'
  BY DEF IInv, TypeOK, Record
<1>2. TokenInv' /\ TimeInv' /\ RetiredKeyRefused'
  BY DEF IInv, TokenInv, TimeInv, RetiredKeyRefused, Covered, KeysOf, Record
<1>3. PendingInv'
  <2> SUFFICES ASSUME NEW p \in Processes PROVE Pending(p)'
    BY DEF PendingInv
  <2>1. deployed' = keys[p] /\ keys' = keys /\ retired' = retired /\ revived' = revived
    BY DEF Record
  <2>2. KeysOf(deployed') \cap retired[p] \subseteq revived[p]
    BY <2>1 DEF IInv, RetiredKeyRefused
  <2> QED
    BY <2>1, <2>2 DEF Pending, KeysOf
<1> QED
  BY <1>1, <1>2, <1>3 DEF IInv

LEMMA IssueInv ==
  ASSUME IInv, NEW p \in Processes, Issue(p)
  PROVE  IInv'
<1>1. TypeOK'
  BY DEF IInv, TypeOK, Issue, Tokens, KeyPairs, history
<1>2. TokenInv'
  BY DEF IInv, TypeOK, TokenInv, Covered, Issue, history
<1>3. TimeInv' /\ PendingInv' /\ RetiredKeyRefused'
  BY DEF IInv, TimeInv, PendingInv, Pending, RetiredKeyRefused, Waited, KeysOf, Issue, history
<1> QED
  BY <1>1, <1>2, <1>3 DEF IInv

LEMMA TickInv ==
  ASSUME IInv, Tick
  PROVE  IInv'
<1>1. TypeOK'
  BY DEF IInv, TypeOK, Tick
<1>2. TokenInv'
  <2> SUFFICES ASSUME NEW t \in tokens, t \in tokens'
               PROVE  /\ t.exp <= clock' + JWT_EXPIRY_SECONDS
                      /\ clock' < t.exp => Covered(keys[t.by], t) \/ t \in lost'
    BY DEF TokenInv, Tick, Covered
  <2>1. /\ t.exp <= clock + JWT_EXPIRY_SECONDS
        /\ clock < t.exp => Covered(keys[t.by], t) \/ t \in lost
    BY DEF IInv, TokenInv
  <2>2. t.exp \in Nat /\ clock \in Nat /\ clock' = clock + 1 /\ lost' = lost \cap tokens'
    BY DEF IInv, TypeOK, Tokens, Tick
  <2> QED
    BY <2>1, <2>2
<1>3. TimeInv'
  BY DEF IInv, TypeOK, TimeInv, Tick
<1>4. \A p \in Processes : Waited(p) => Waited(p)'
  BY DEF IInv, TypeOK, Waited, Tick
<1>5. PendingInv' /\ RetiredKeyRefused'
  BY <1>4 DEF IInv, PendingInv, Pending, RetiredKeyRefused, KeysOf, Tick
<1> QED
  BY <1>1, <1>2, <1>3, <1>5 DEF IInv

LEMMA StepInv ==
  ASSUME IInv, [Next]_vars
  PROVE  IInv'
<1>1. CASE UNCHANGED vars
  BY <1>1 DEF vars, IInv, TypeOK, TokenInv, TimeInv, PendingInv, Pending, RetiredKeyRefused,
              Covered, Waited, KeysOf
<1>2. ASSUME NEW p \in Processes, Restart(p) PROVE IInv'
  BY <1>2, RolloutInv, UndoInv DEF IInv, TypeOK
<1>3. ASSUME NEW pair \in { keys[p] : p \in Processes }, Record(pair) PROVE IInv'
  BY <1>3, RecordInv
<1>4. CASE Next
  BY <1>2, <1>3, <1>4, PromoteInv, RetireInv, ConfigureInv, ClearInv, IssueInv, TickInv DEF Next
<1> QED
  BY <1>1, <1>4

-----------------------------------------------------------------------------
(* Theorems *)

\* The invariant of key rotation holds of every procedure.
THEOREM InvHolds == Spec => []IInv
<1>1. Init => IInv
  BY InitInv
<1>2. IInv /\ [Next]_vars => IInv'
  BY StepInv
<1> QED
  BY <1>1, <1>2, PTL DEF Spec

\* A covered token that has not expired is accepted by the process that signed it.
LEMMA Acceptance == IInv => OwnTokensAccepted
<1> SUFFICES ASSUME IInv, NEW t \in tokens, clock < t.exp, t \notin lost
             PROVE  Verdict(keys[t.by], t) = "accepted"
  BY DEF OwnTokensAccepted
<1>1. Covered(keys[t.by], t) /\ t.key \in Keys
  BY DEF IInv, TokenInv, TypeOK, Tokens
<1>2. t.key \in KeysOf(keys[t.by])
  BY <1>1 DEF Covered, KeysOf
<1> QED
  BY <1>2 DEF Verdict

\* Tokens survive every rotation: with at least JWT_EXPIRY_SECONDS between two
\* changes, validate_token never refuses one that has not expired to the process
\* that signed it, unless a restart has undone a rotation in that process.
THEOREM OwnTokensAcceptedHolds == Spec => []OwnTokensAccepted
<1>1. IInv => OwnTokensAccepted
  BY Acceptance
<1> QED
  BY <1>1, InvHolds, PTL

\* A key that has been retired is never accepted again by the same process,
\* unless a restart has undone a rotation in it and brought the key back.
THEOREM RetiredKeyRefusedHolds == Spec => []RetiredKeyRefused
<1>1. IInv => RetiredKeyRefused
  BY DEF IInv
<1> QED
  BY <1>1, InvHolds, PTL
=============================================================================
