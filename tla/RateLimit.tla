----------------------------- MODULE RateLimit -----------------------------
(***************************************************************************)
(* The way of a request through the authentication and the rate-limiting   *)
(* middleware (app/auth/middleware.py, app/rate_limit): a fixed-window     *)
(* counter in Redis per authenticated user or anonymous address, which     *)
(* lets every request pass that Redis does not answer for.                 *)
(*                                                                         *)
(* A client connection sends one request after another.  The replicas of   *)
(* the application share the counters; the Lua script is one step of Redis.*)
(* The clock ticks Second times a second, since Redis keeps times to live  *)
(* more finely than it reports them: rounded to the nearest second.        *)
(***************************************************************************)
EXTENDS Naturals

CONSTANTS
  Connections,
  Inputs,       \* what a connection may send, see Requests
  Mixes,        \* what the connections may send side by side
  Addresses, Tenants, Users,
  Unknown,      \* no address: no header says one, and the connection has none
  POLICIES,     \* the policies "anon" and "auth"
  Second,       \* ticks of the clock
  MaxAttempts,  \* how often the Redis client sends a command before it gives up
  MaxLost,      \* bound on the answers lost after the script has run
  Faults        \* which failures of the environment may occur

FaultKinds == {"redis", "lost", "flush", "restart"}
Requests ==
  [ path : {"exempt", "public", "protected"}, token : {"valid", "invalid"},
    forwarded : Addresses \cup {Unknown}, host : Addresses \cup {Unknown},
    tenant : Tenants, user : Users ]

ASSUME InputsAssumption ==
  Inputs \subseteq Requests /\ Mixes \subseteq [Connections -> Inputs]
ASSUME PoliciesAssumption ==
  POLICIES \in [{"anon", "auth"} -> [requests : Nat \ {0}, window_seconds : Nat \ {0}]]
ASSUME BoundsAssumption ==
  Second \in Nat \ {0} /\ MaxAttempts \in Nat \ {0} /\ MaxLost \in Nat
ASSUME FaultsAssumption == Faults \subseteq FaultKinds

VARIABLES
  sends,     \* what each connection sends, never changed
  pc,        \* where its request is, or how the last one was answered
  attempts,  \* of the Redis client at the command under way
  connected, \* _redis_client is set
  count,     \* the counter of a key, 0 when there is no key
  ttl,       \* how long it still lives, 0 also when it never expires
  wait,      \* how much of the Retry-After the client has not waited yet
  lost,      \* answers lost so far
  tried,     \* history: the ages of its party's last runs of the script
  admitted,  \* history: the ages of its party's last admissions by count
  streak     \* history: refusals in a row although it waited each time

vars == <<sends, pc, attempts, connected, count, ttl, wait, lost, tried, admitted, streak>>

Answers == {"new", "served", "unauthorized", "allowed", "degraded", "refused"}

\* The middleware takes the policy and the identifier from the security
\* context, and from the client's address when there is none: on a public
\* path the token is not looked at.  The address is what X-Forwarded-For
\* says, whoever has written it; those that have none share one.
Authenticated(i) == i.path = "protected" /\ i.token = "valid"
ClientIp(i) == IF i.forwarded # Unknown THEN i.forwarded ELSE i.host
Policy(i) == IF Authenticated(i) THEN "auth" ELSE "anon"

\* Faulty variant: the identifier of a user lacks the tenant.
IdentifierOfUser(i) == IF Authenticated(i) THEN i.user ELSE ClientIp(i)

Identifier(i) == IF Authenticated(i) THEN <<i.tenant, i.user>> ELSE ClientIp(i)
Key(c) == <<Policy(sends[c]), Identifier(sends[c])>>
Keys == { <<Policy(i), Identifier(i)>> : i \in Inputs }
Cfg(c) == POLICIES[Policy(sends[c])]
Limit(c) == Cfg(c).requests
Window(c) == Cfg(c).window_seconds * Second

\* Who a connection's requests are counted with: the same user of the same
\* tenant, or whoever comes with the same address.
SameParty(c, d) ==
  LET i == sends[c]
      j == sends[d]
  IN  /\ Authenticated(i) = Authenticated(j)
      /\ IF Authenticated(i) THEN i.tenant = j.tenant /\ i.user = j.user
                             ELSE ClientIp(i) = ClientIp(j)
Party(c) == { d \in Connections : SameParty(c, d) }

\* Ages of the last n events, the youngest first; the age of a window, w,
\* also stands for longer ago, or never.
Ages(n, w) == [1..n -> 0..w]
LongAgo(n, w) == [i \in 1..n |-> w]
Push(ages) == [ i \in DOMAIN ages |-> IF i = 1 THEN 0 ELSE ages[i - 1] ]
Older(ages, w) == [ i \in DOMAIN ages |-> IF ages[i] < w THEN ages[i] + 1 ELSE w ]

Init ==
  /\ sends \in Mixes
  /\ pc = [c \in Connections |-> "new"]
  /\ attempts = [c \in Connections |-> 0]
  /\ connected = FALSE
  /\ count = [k \in Keys |-> 0]
  /\ ttl = [k \in Keys |-> 0]
  /\ wait = [c \in Connections |-> 0]
  /\ lost = 0
  /\ tried = [c \in Connections |-> LongAgo(Limit(c), Window(c))]
  /\ admitted = [c \in Connections |-> LongAgo(2 * Limit(c), Window(c))]
  /\ streak = [c \in Connections |-> 0]
-----------------------------------------------------------------------------
\* A request arrives and passes the authentication middleware.
Arrive(c) ==
  /\ pc[c] \in Answers
  /\ pc' = [pc EXCEPT ![c] =
       CASE sends[c].path = "exempt" -> "served"
         [] sends[c].path = "protected" /\ sends[c].token # "valid" -> "unauthorized"
         [] OTHER -> "connect"]
  /\ streak' = [streak EXCEPT ![c] = IF wait[c] = 0 THEN @ ELSE 0]
  /\ wait' = [wait EXCEPT ![c] = 0]
  /\ UNCHANGED <<sends, attempts, connected, count, ttl, lost, tried, admitted>>

\* The limiter's client exists or is made now.
Connect(c) ==
  /\ pc[c] = "connect"
  /\ pc' = [pc EXCEPT ![c] = "script"]
  /\ connected' = TRUE
  /\ UNCHANGED <<sends, attempts, count, ttl, wait, lost, tried, admitted, streak>>

\* The PING of a new client fails: no limit applies.
ConnectFails(c) ==
  /\ "redis" \in Faults
  /\ pc[c] = "connect" /\ ~ connected
  /\ pc' = [pc EXCEPT ![c] = "degraded"]
  /\ streak' = [streak EXCEPT ![c] = 0]
  /\ UNCHANGED <<sends, attempts, connected, count, ttl, wait, lost, tried, admitted>>

-----------------------------------------------------------------------------
(* The script *)

\* Faulty variant: the expiry is set by the second increment.
ExpirySecond(c) == IF count[Key(c)] = 1 THEN Window(c) ELSE ttl[Key(c)]

\* Faulty variant: every increment sets the expiry.
ExpiryRenewed(c) == Window(c)

\* Only the first INCR of a window sets the expiry.  Counts past
\* the largest limit are not told apart.
Expiry(c) == IF count[Key(c)] = 0 THEN Window(c) ELSE ttl[Key(c)]
CountTop ==
  1 + (IF POLICIES["anon"].requests < POLICIES["auth"].requests
         THEN POLICIES["auth"].requests ELSE POLICIES["anon"].requests)
Script(c) ==
  /\ count' = [count EXCEPT ![Key(c)] = IF @ < CountTop THEN @ + 1 ELSE @]
  /\ ttl' = [ttl EXCEPT ![Key(c)] = Expiry(c)]
  /\ tried' = [d \in Connections |-> IF d \in Party(c) THEN Push(tried[d]) ELSE tried[d]]

\* What a refused client is told to wait, in seconds.
Reported(t) == (2 * t + Second) \div (2 * Second)

\* Faulty variant: the reported time to live is passed on as it is.
RetryAfterRaw(c, t) == Reported(t)

RetryAfter(c, t) == IF Reported(t) > 0 THEN Reported(t) ELSE Cfg(c).window_seconds

\* Faulty variant: the comparison is off by one.
AllowOneMore(c) ==
  /\ pc[c] = "script"
  /\ Script(c)
  /\ count'[Key(c)] <= Limit(c) + 1
  /\ pc' = [pc EXCEPT ![c] = "allowed"]
  /\ admitted' = [d \in Connections |-> IF d \in Party(c) THEN Push(admitted[d]) ELSE admitted[d]]
  /\ attempts' = [attempts EXCEPT ![c] = 0]
  /\ streak' = [d \in Connections |-> IF d \in Party(c) THEN 0 ELSE streak[d]]
  /\ UNCHANGED <<sends, connected, wait, lost>>

Allow(c) ==
  /\ pc[c] = "script"
  /\ Script(c)
  /\ count'[Key(c)] <= Limit(c)
  /\ pc' = [pc EXCEPT ![c] = "allowed"]
  /\ admitted' = [d \in Connections |-> IF d \in Party(c) THEN Push(admitted[d]) ELSE admitted[d]]
  /\ attempts' = [attempts EXCEPT ![c] = 0]
  /\ streak' = [d \in Connections |-> IF d \in Party(c) THEN 0 ELSE streak[d]]
  /\ UNCHANGED <<sends, connected, wait, lost>>

Refuse(c) ==
  /\ pc[c] = "script"
  /\ Script(c)
  /\ count'[Key(c)] > Limit(c)
  /\ pc' = [pc EXCEPT ![c] = "refused"]
  /\ wait' = [wait EXCEPT ![c] = RetryAfter(c, ttl'[Key(c)]) * Second]
  /\ attempts' = [attempts EXCEPT ![c] = 0]
  /\ streak' = [d \in Connections |->
       IF d = c THEN (IF streak[c] < 3 THEN streak[c] + 1 ELSE 3)
                ELSE IF d \in Party(c) THEN 0 ELSE streak[d]]
  /\ UNCHANGED <<sends, connected, lost, admitted>>

\* An attempt raises: the Redis client tries again, or check_rate_limit lets
\* the request pass.
GivesUp(c) ==
  \/ /\ attempts[c] + 1 < MaxAttempts
     /\ attempts' = [attempts EXCEPT ![c] = @ + 1]
     /\ pc' = pc
  \/ /\ attempts' = [attempts EXCEPT ![c] = 0]
     /\ pc' = [pc EXCEPT ![c] = "degraded"]

\* ... because the command did not reach Redis,
Unreached(c) ==
  /\ "redis" \in Faults
  /\ pc[c] = "script"
  /\ GivesUp(c)
  /\ streak' = [streak EXCEPT ![c] = 0]
  /\ UNCHANGED <<sends, connected, count, ttl, wait, lost, tried, admitted>>

\* ... or because its answer did not come back: the script has run.
AnswerLost(c) ==
  /\ "lost" \in Faults /\ lost < MaxLost
  /\ pc[c] = "script"
  /\ Script(c)
  /\ GivesUp(c)
  /\ lost' = lost + 1
  /\ streak' = [d \in Connections |-> IF d \in Party(c) THEN 0 ELSE streak[d]]
  /\ UNCHANGED <<sends, connected, wait, admitted>>
-----------------------------------------------------------------------------
\* Time passes: keys expire.
Tick ==
  /\ ttl' = [k \in Keys |-> IF ttl[k] = 0 THEN 0 ELSE ttl[k] - 1]
  /\ count' = [k \in Keys |-> IF ttl[k] = 1 THEN 0 ELSE count[k]]
  /\ wait' = [c \in Connections |-> IF wait[c] = 0 THEN 0 ELSE wait[c] - 1]
  /\ tried' = [c \in Connections |-> Older(tried[c], Window(c))]
  /\ admitted' = [c \in Connections |-> Older(admitted[c], Window(c))]
  /\ UNCHANGED <<sends, pc, attempts, connected, lost, streak>>

\* Redis restarts or evicts: the counters are gone.
Flush ==
  /\ "flush" \in Faults
  /\ \E k \in Keys : count[k] > 0
  /\ count' = [k \in Keys |-> 0]
  /\ ttl' = [k \in Keys |-> 0]
  /\ admitted' = [c \in Connections |-> LongAgo(2 * Limit(c), Window(c))]
  /\ UNCHANGED <<sends, pc, attempts, connected, wait, lost, tried, streak>>

\* The application shuts down, after its last request, and starts again.
Restart ==
  /\ "restart" \in Faults
  /\ connected /\ \A c \in Connections : pc[c] \in Answers
  /\ connected' = FALSE
  /\ UNCHANGED <<sends, pc, attempts, count, ttl, wait, lost, tried, admitted, streak>>

Serve(c) ==
  \/ Connect(c) \/ ConnectFails(c)
  \/ Allow(c) \/ Refuse(c) \/ Unreached(c) \/ AnswerLost(c)
Next ==
  \/ \E c \in Connections : Arrive(c) \/ Serve(c)
  \/ Tick \/ Flush \/ Restart

Spec == Init /\ [][Next]_vars

\* The Redis client's timeouts (one second) end every request; a client comes
\* again; time passes.
FairSpec ==
  /\ Spec
  /\ WF_vars(Tick)
  /\ \A c \in Connections : WF_vars(Arrive(c) \/ Serve(c))
-----------------------------------------------------------------------------
\* Every variable keeps its type; a counter stays below its cap and a time
\* to live within the window (check_rate_limit, _LUA_INCR).
TypeOK ==
  /\ sends \in Mixes
  /\ pc \in [Connections -> Answers \cup {"connect", "script"}]
  /\ attempts \in [Connections -> 0..MaxAttempts]
  /\ connected \in BOOLEAN
  /\ count \in [Keys -> 0..CountTop]
  /\ ttl \in [Keys -> Nat]
  /\ wait \in [Connections -> Nat]
  /\ lost \in 0..MaxLost
  /\ \A c \in Connections :
       /\ ttl[Key(c)] <= Window(c)
       /\ tried[c] \in Ages(Limit(c), Window(c))
       /\ admitted[c] \in Ages(2 * Limit(c), Window(c))
  /\ streak \in [Connections -> 0..3]

\* A counter is always on its way out: a key that lost its expiry would
\* refuse its user for good, whatever fails around the script (_LUA_INCR).
CountersExpire == \A k \in Keys : count[k] > 0 <=> ttl[k] > 0

\* What the two bounds below rest on: where a party's last runs of the
\* script, and its last admissions, lie relative to the window of its key.
RecentTries ==
  \A c \in Connections : \A i \in 1..Limit(c) :
    i <= count[Key(c)] => tried[c][i] + ttl[Key(c)] <= Window(c)
OldAdmissions ==
  \A c \in Connections : \A i \in 1..2 * Limit(c) :
    /\ i > Limit(c) + count[Key(c)] => admitted[c][i] = Window(c)
    /\ i > count[Key(c)] /\ ttl[Key(c)] > 0 => admitted[c][i] + ttl[Key(c)] >= Window(c)
    /\ i > Limit(c) /\ ttl[Key(c)] > 0 => admitted[c][i] + ttl[Key(c)] >= Window(c)

\* The inductive invariant of the limiter (check_rate_limit, _LUA_INCR).
IInv == TypeOK /\ CountersExpire /\ RecentTries /\ OldAdmissions

\* Nobody is refused for the requests of another: the script has run for
\* this user of this tenant, or for this address, as often as the limit allows
\* within one window before it refuses (build_auth_identifier,
\* build_anon_identifier, check_rate_limit).  The windows are a user's, not the
\* tenant's as the README of the repository has it, and an address is anybody's
\* who sends it in X-Forwarded-For: those who do are counted together.
RefusedForOwn ==
  [][\A c \in Connections : pc[c] = "script" /\ pc'[c] = "refused" =>
       tried[c][Limit(c)] < Window(c)]_vars

\* What a fixed window promises: while Redis keeps its counters, no span of
\* a window's length sees more than twice the limit admitted by count,
\* wherever the span begins (_LUA_INCR, check_rate_limit).
BurstBounded ==
  [][\A c \in Connections :
       pc[c] = "script" /\ pc'[c] = "allowed" => admitted[c][2 * Limit(c)] >= Window(c)]_vars

\* Redis rounds the time to live, so that Retry-After may end before the
\* window; but a client alone with its counter that waits as it is told is
\* refused at most once more (safe_ttl in check_rate_limit).
RetryWorks == \A c \in Connections : streak[c] <= 2

\* What it rests on: a request under way has nothing left to wait, the first
\* refusal leaves less than half a second of the window after the wait, and the
\* second none of it, since what is left of it then is reported as a whole one.
RetryInv ==
  \A c \in Connections :
    /\ pc[c] \in {"connect", "script"} => wait[c] = 0
    /\ streak[c] = 1 => 2 * ttl[Key(c)] < 2 * wait[c] + Second
    /\ streak[c] = 2 => ttl[Key(c)] <= wait[c]

\* After a refusal, somebody the counter is for passes again, however eager
\* the clients are (EXPIRE on the first increment only, _LUA_INCR).
NotRefusedForever ==
  \A c \in Connections :
    pc[c] = "refused" ~>
      \E d \in Connections : pc[d] \in {"allowed", "degraded"} /\ SameParty(c, d)
=============================================================================
