---------------------------- MODULE KeyRotation ----------------------------
(***************************************************************************)
(* Rotation of the key that signs JWTs, and the verification of tokens:    *)
(* KeyRotationService (app/secrets/rotation.py), validate_token            *)
(* (app/auth/jwt.py) and the settings both start from (app/core/config.py).*)
(*                                                                         *)
(* Every process keeps its current and previous key in memory.  They come  *)
(* from the settings the process was started with, so that creating the    *)
(* service lazily makes no difference, and change by two procedures: the   *)
(* service's promote_new_key and retire_old_key, and an edit of the        *)
(* deployment's secrets that each process sees when it restarts.  Where    *)
(* both are used, a restart undoes what the service did, unless the        *)
(* operators have recorded it in the secrets.  The issuer of tokens is not *)
(* part of the code: it signs with the current key of a process, and a     *)
(* token lives for JWT_EXPIRY_SECONDS.                                     *)
(***************************************************************************)
EXTENDS Naturals, FiniteSets

CONSTANTS
  Processes,     \* the replicas of the service
  Keys,          \* signing keys
  NoKey,         \* None: no previous key
  FirstKey,      \* JWT_SECRET of the first deployment
  JWT_EXPIRY_SECONDS,
  Procedures,    \* the ways to operate a deployment: sets of operations
  MaxTokens,     \* bound on the tokens alive: they do not affect each other
  MaxTime        \* bound on the clock

OperationKinds == {"promote", "configure", "restart"}

ASSUME KeysAssumption == FirstKey \in Keys /\ NoKey \notin Keys
ASSUME TimeAssumption == JWT_EXPIRY_SECONDS \in Nat /\ MaxTime \in Nat /\ MaxTokens \in Nat
ASSUME ProceduresAssumption == Procedures \subseteq SUBSET OperationKinds

VARIABLES
  operations,    \* what the operators of this deployment do
  keys,          \* the key pair in the memory of each process
  deployed,      \* JWT_SECRET and JWT_PREVIOUS_SECRET of the deployment
  since,         \* when the pair of each process last changed
  tokens,        \* tokens issued and still held
  rotated,       \* history: a rotation in the process that the secrets do not show
  retired,       \* history: keys each process has ceased to accept by procedure
  revived,       \* history: keys of its pair that a restart has brought back
  lost,          \* history: tokens whose key a restart has dropped
  clock

history == <<rotated, retired, revived, lost>>
vars == <<operations, keys, deployed, since, tokens, rotated, retired, revived, lost, clock>>

KeyPairs == [ current : Keys, previous : Keys \cup {NoKey} ]
Tokens == [ key : Keys, by : Processes, exp : Nat ]

KeysOf(pair) == {pair.current, pair.previous} \ {NoKey}

-----------------------------------------------------------------------------
(* Verification *)

\* validate_token: the signature is checked with the current key, then with
\* the previous one; the claims only after a signature that fits.
Verdict(pair, t) ==
  IF t.key \notin KeysOf(pair) THEN "invalid"
  ELSE IF clock < t.exp THEN "accepted" ELSE "expired"

-----------------------------------------------------------------------------
(* The rotation service *)

\* Faulty variant: a second too early.
WaitedAlmost(p) == clock + 1 >= since[p] + JWT_EXPIRY_SECONDS

\* The documented procedure: at least JWT_EXPIRY_SECONDS between
\* two changes, the first of which retains a previous key.
Waited(p) == clock >= since[p] + JWT_EXPIRY_SECONDS

\* A key that the process accepts, or has ceased to accept.
Known(p, k) == k \in KeysOf(keys[p]) \cup retired[p]

\* A process changes its pair.
Install(p, pair) ==
  /\ keys' = [keys EXCEPT ![p] = pair]
  /\ since' = [since EXCEPT ![p] = clock]
  /\ rotated' = [rotated EXCEPT ![p] = (pair # deployed)]

\* What it accepted and no longer does is retired.
Retire(p, pair) ==
  /\ retired' = [retired EXCEPT ![p] = @ \cup (KeysOf(keys[p]) \ KeysOf(pair))]
  /\ revived' = [revived EXCEPT ![p] = @ \cap KeysOf(pair)]
  /\ UNCHANGED lost

\* promote_new_key: the current key becomes the previous one.
PromoteNewKey(p, k) ==
  /\ "promote" \in operations /\ ~Known(p, k)
  /\ keys[p].previous = NoKey \/ Waited(p)
  /\ LET pair == [current |-> k, previous |-> keys[p].current]
     IN  Install(p, pair) /\ Retire(p, pair)
  /\ UNCHANGED <<deployed, tokens, clock, operations>>

\* retire_old_key: a no-op when there is no previous key.
RetireOldKey(p) ==
  /\ "promote" \in operations
  /\ keys[p].previous # NoKey /\ Waited(p)
  /\ LET pair == [keys[p] EXCEPT !.previous = NoKey]
     IN  Install(p, pair) /\ Retire(p, pair)
  /\ UNCHANGED <<deployed, tokens, clock, operations>>

-----------------------------------------------------------------------------
(* Rotation through the deployment's secrets *)

\* The rollout of the last edit is over, and the tokens of before have expired.
RolledOut == \A p \in Processes :
  keys[p] = deployed /\ (deployed.previous = NoKey \/ Waited(p))

\* JWT_PREVIOUS_SECRET "set only during zero-downtime key rotation", and
\* cleared "after rotation completes".
Configure(k) ==
  /\ "configure" \in operations /\ \A p \in Processes : ~Known(p, k)
  /\ RolledOut
  /\ deployed' = [current |-> k, previous |-> deployed.current]
  /\ UNCHANGED <<keys, since, tokens, clock, operations, history>>

ClearPrevious ==
  /\ "configure" \in operations
  /\ deployed.previous # NoKey /\ RolledOut
  /\ deployed' = [deployed EXCEPT !.previous = NoKey]
  /\ UNCHANGED <<keys, since, tokens, clock, operations, history>>

\* The secrets are brought in line with what every process has in memory.
Record(pair) ==
  /\ "configure" \in operations
  /\ \A p \in Processes : keys[p] = pair
  /\ deployed' = pair
  /\ rotated' = [p \in Processes |-> FALSE]
  /\ UNCHANGED <<keys, since, tokens, retired, revived, lost, clock, operations>>

\* A restart undoes what promote_new_key and retire_old_key did: it brings back
\* the keys of the secrets, and drops the tokens signed with another.
Undo(p) ==
  /\ revived' = [revived EXCEPT ![p] =
       (@ \cap KeysOf(deployed)) \cup (KeysOf(deployed) \ KeysOf(keys[p]))]
  /\ lost' = lost \cup { t \in tokens : t.by = p /\ t.key \notin KeysOf(deployed) }
  /\ UNCHANGED retired

\* Faulty variant: an empty JWT_PREVIOUS_SECRET falls back to the first secret.
RestartWithDefault(p) ==
  /\ "restart" \in operations
  /\ LET pair == [deployed EXCEPT !.previous = IF @ = NoKey THEN FirstKey ELSE @]
     IN  /\ Install(p, pair)
         /\ \/ ~rotated[p] /\ Retire(p, pair)
            \/ rotated[p] /\ Undo(p)
  /\ UNCHANGED <<deployed, tokens, clock, operations>>

\* A process restarts, for a rollout or after a crash: get_rotation_service
\* builds the pair from the settings.
Restart(p) ==
  /\ "restart" \in operations
  /\ Install(p, deployed)
  /\ \/ ~rotated[p] /\ Retire(p, deployed)
     \/ rotated[p] /\ Undo(p)
  /\ UNCHANGED <<deployed, tokens, clock, operations>>

-----------------------------------------------------------------------------
Issue(p) ==
  /\ Cardinality(tokens) < MaxTokens
  /\ tokens' = tokens \cup
       {[key |-> keys[p].current, by |-> p, exp |-> clock + JWT_EXPIRY_SECONDS]}
  /\ UNCHANGED <<keys, deployed, since, clock, operations, history>>

\* Time passes.  Whoever holds a token drops it once it has expired.
Tick ==
  /\ clock < MaxTime
  /\ clock' = clock + 1
  /\ tokens' = { t \in tokens : clock + 1 <= t.exp }
  /\ lost' = lost \cap tokens'
  /\ UNCHANGED <<keys, deployed, since, rotated, retired, revived, operations>>

Init ==
  /\ operations \in Procedures
  /\ deployed = [current |-> FirstKey, previous |-> NoKey]
  /\ keys = [p \in Processes |-> deployed]
  /\ since = [p \in Processes |-> 0]
  /\ tokens = {}
  /\ rotated = [p \in Processes |-> FALSE]
  /\ retired = [p \in Processes |-> {}]
  /\ revived = [p \in Processes |-> {}]
  /\ lost = {}
  /\ clock = 0

Next ==
  \/ \E p \in Processes, k \in Keys : PromoteNewKey(p, k)
  \/ \E p \in Processes : RetireOldKey(p)
  \/ \E k \in Keys : Configure(k)
  \/ ClearPrevious
  \/ \E pair \in { keys[p] : p \in Processes } : Record(pair)
  \/ \E p \in Processes : Restart(p)
  \/ \E p \in Processes : Issue(p)
  \/ Tick

Spec == Init /\ [][Next]_vars

-----------------------------------------------------------------------------
(* Properties *)

\* The pairs, the tokens and the clock keep their types; there always is a
\* current key.
TypeOK ==
  /\ operations \in Procedures
  /\ keys \in [Processes -> KeyPairs]
  /\ deployed \in KeyPairs
  /\ since \in [Processes -> Nat]
  /\ tokens \subseteq Tokens
  /\ rotated \in [Processes -> BOOLEAN]
  /\ retired \in [Processes -> SUBSET Keys]
  /\ revived \in [Processes -> SUBSET Keys]
  /\ lost \subseteq Tokens
  /\ clock \in Nat

\* rotation.py:8: "Outstanding tokens signed by the old key remain valid until
\* they expire".  The process whose key signed a token accepts it until then,
\* through any number of rotations and restarts, unless a restart came between
\* a rotation in the process and its record in the secrets: the pair is built
\* from the settings alone (rotation.py:112-123), and the promoted key is gone.
OwnTokensAccepted ==
  \A t \in tokens :
    clock < t.exp => Verdict(keys[t.by], t) = "accepted" \/ t \in lost

\* rotation.py:14: "Only current key is accepted for verification from this point
\* on".  A key that a process has ceased to accept stays refused, but for the
\* keys that such a restart brings back: of a rotation in the process the
\* promise lasts until the process ends.
RetiredKeyRefused ==
  \A p \in Processes : KeysOf(keys[p]) \cap retired[p] \subseteq revived[p]

\* README.md: "Key rotation -- zero-downtime via KeyRotationService; previous
\* key accepted until expiry".  Any replica accepts a token until it expires.
TokensAccepted ==
  \A t \in tokens, p \in Processes :
    clock < t.exp => Verdict(keys[p], t) = "accepted"

\* The inductive invariant: a token that has not expired was signed with the
\* current key, or with the previous one before the pair last changed; the next
\* restart finds both, unless it undoes a rotation.
Covered(pair, t) ==
  t.key = pair.current \/ (t.key = pair.previous /\ t.exp <= since[t.by] + JWT_EXPIRY_SECONDS)

TokenInv ==
  \A t \in tokens :
    /\ t.exp <= clock + JWT_EXPIRY_SECONDS
    /\ clock < t.exp => Covered(keys[t.by], t) \/ t \in lost
TimeInv == \A p \in Processes : since[p] <= clock

\* A process that has not seen the last edit has the pair before it.
Pending(p) ==
  /\ KeysOf(deployed) \cap retired[p] \subseteq revived[p]
  /\ \/ keys[p] = deployed
     \/ /\ deployed.previous = keys[p].current
        /\ keys[p].previous = NoKey \/ Waited(p)
     \/ /\ deployed.current = keys[p].current
        /\ deployed.previous = NoKey
        /\ Waited(p)
PendingInv == \A p \in Processes : rotated[p] \/ Pending(p)

IInv == TypeOK /\ TokenInv /\ TimeInv /\ PendingInv /\ RetiredKeyRefused
=============================================================================
