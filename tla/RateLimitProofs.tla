-------------------------- MODULE RateLimitProofs --------------------------
(***************************************************************************)
(* Proofs about RateLimit, for every set of connections, users, tenants    *)
(* and addresses, every limit and window, and every fault.                 *)
(***************************************************************************)
EXTENDS RateLimit, TLAPS

USE InputsAssumption, PoliciesAssumption, BoundsAssumption, FaultsAssumption

\* RecentTries and OldAdmissions of one connection: its limit L and window w,
\* its key's counter n and time to live t, and its history a.
TriesOK(L, w, n, t, a) == \A i \in 1..L : i <= n => a[i] + t <= w
AdmittedOK(L, w, n, t, a) ==
  \A i \in 1..2 * L :
    /\ i > L + n => a[i] = w
    /\ i > n /\ t > 0 => a[i] + t >= w
    /\ i > L /\ t > 0 => a[i] + t >= w

\* The counter and the time to live after the script, and after a tick.
Incremented(n) == IF n < CountTop THEN n + 1 ELSE n
Renewed(w, n, t) == IF n = 0 THEN w ELSE t
Counted(n, t) == IF t = 1 THEN 0 ELSE n
Lived(t) == IF t = 0 THEN 0 ELSE t - 1

LEMMA TopAboveLimits == CountTop \in Nat /\ \A p \in {"anon", "auth"} : POLICIES[p].requests < CountTop
BY DEF CountTop

LEMMA PushTyped ==
  ASSUME NEW m \in Nat, NEW w \in Nat, NEW a \in Ages(m, w)
  PROVE  Push(a) \in Ages(m, w)
BY DEF Push, Ages

LEMMA OlderTyped ==
  ASSUME NEW m \in Nat, NEW w \in Nat, NEW a \in Ages(m, w)
  PROVE  Older(a, w) \in Ages(m, w)
BY DEF Older, Ages

\* A run of the script is the youngest one of its window.
LEMMA TryPushed ==
  ASSUME NEW L \in Nat \ {0}, NEW w \in Nat \ {0}, L < CountTop, NEW n \in 0..CountTop, NEW t \in 0..w,
         n > 0 <=> t > 0, NEW a \in Ages(L, w), TriesOK(L, w, n, t, a)
  PROVE  TriesOK(L, w, Incremented(n), Renewed(w, n, t), Push(a))
<1> SUFFICES ASSUME NEW i \in 1..L, i <= Incremented(n)
             PROVE  Push(a)[i] + Renewed(w, n, t) <= w
  BY DEF TriesOK
<1>1. Push(a)[i] = IF i = 1 THEN 0 ELSE a[i - 1]
  BY DEF Push, Ages
<1>2. CASE i = 1
  BY <1>1, <1>2 DEF Renewed
<1>3. CASE i > 1
  <2>1. i - 1 \in 1..L /\ i - 1 <= n
    BY <1>3, TopAboveLimits DEF Incremented
  <2>2. a[i - 1] + t <= w
    BY <2>1 DEF TriesOK
  <2> QED
    BY <1>1, <1>3, <2>1, <2>2 DEF Renewed, Ages
<1> QED
  BY <1>2, <1>3

\* An admission is the youngest one of its window, which has not used up its
\* limit.
LEMMA AdmissionPushed ==
  ASSUME NEW L \in Nat \ {0}, NEW w \in Nat \ {0}, NEW n \in 0..CountTop, NEW t \in 0..w,
         n > 0 <=> t > 0, NEW a \in Ages(2 * L, w), AdmittedOK(L, w, n, t, a),
         L < CountTop, Incremented(n) <= L
  PROVE  AdmittedOK(L, w, Incremented(n), Renewed(w, n, t), Push(a))
<1>0. Incremented(n) = n + 1 /\ n + 1 <= L
  BY TopAboveLimits DEF Incremented
<1> SUFFICES ASSUME NEW i \in 1..2 * L
             PROVE  /\ i > L + (n + 1) => Push(a)[i] = w
                    /\ i > n + 1 /\ Renewed(w, n, t) > 0 => Push(a)[i] + Renewed(w, n, t) >= w
                    /\ i > L /\ Renewed(w, n, t) > 0 => Push(a)[i] + Renewed(w, n, t) >= w
  BY <1>0 DEF AdmittedOK
<1>1. Push(a)[i] = IF i = 1 THEN 0 ELSE a[i - 1]
  BY DEF Push, Ages
<1>2. CASE i = 1
  BY <1>0, <1>1, <1>2 DEF Renewed
<1>3. CASE i > 1
  <2>1. i - 1 \in 1..2 * L /\ a[i - 1] \in 0..w
    BY <1>3 DEF Ages
  <2>2. /\ i - 1 > L + n => a[i - 1] = w
        /\ i - 1 > n /\ t > 0 => a[i - 1] + t >= w
    BY <2>1 DEF AdmittedOK
  <2> QED
    BY <1>0, <1>1, <1>3, <2>1, <2>2 DEF Renewed
<1> QED
  BY <1>2, <1>3

\* A run of the script that admits nobody.
LEMMA AdmissionsStay ==
  ASSUME NEW L \in Nat \ {0}, NEW w \in Nat \ {0}, NEW n \in 0..CountTop, NEW t \in 0..w,
         n > 0 <=> t > 0, NEW a \in Ages(2 * L, w), AdmittedOK(L, w, n, t, a)
  PROVE  AdmittedOK(L, w, Incremented(n), Renewed(w, n, t), a)
<1> SUFFICES ASSUME NEW i \in 1..2 * L
             PROVE  /\ i > L + Incremented(n) => a[i] = w
                    /\ i > Incremented(n) /\ Renewed(w, n, t) > 0 => a[i] + Renewed(w, n, t) >= w
                    /\ i > L /\ Renewed(w, n, t) > 0 => a[i] + Renewed(w, n, t) >= w
  BY DEF AdmittedOK
<1>1. Incremented(n) >= n /\ Incremented(n) \in Nat
  BY TopAboveLimits DEF Incremented
<1>2. a[i] \in 0..w
  BY DEF Ages
<1> QED
  BY <1>1, <1>2, TopAboveLimits DEF AdmittedOK, Renewed

\* The clock ticks.
LEMMA TriesAge ==
  ASSUME NEW L \in Nat \ {0}, NEW w \in Nat \ {0}, NEW n \in 0..CountTop, NEW t \in 0..w,
         n > 0 <=> t > 0, NEW a \in Ages(L, w), TriesOK(L, w, n, t, a)
  PROVE  TriesOK(L, w, Counted(n, t), Lived(t), Older(a, w))
<1> SUFFICES ASSUME NEW i \in 1..L, i <= Counted(n, t)
             PROVE  Older(a, w)[i] + Lived(t) <= w
  BY DEF TriesOK
<1>1. Older(a, w)[i] = IF a[i] < w THEN a[i] + 1 ELSE w
  BY DEF Older, Ages
<1>2. a[i] \in 0..w /\ i <= n /\ t > 1
  BY TopAboveLimits DEF Ages, Counted
<1>3. a[i] + t <= w
  BY <1>2 DEF TriesOK
<1> QED
  BY <1>1, <1>2, <1>3 DEF Lived

LEMMA AdmissionsAge ==
  ASSUME NEW L \in Nat \ {0}, NEW w \in Nat \ {0}, NEW n \in 0..CountTop, NEW t \in 0..w,
         n > 0 <=> t > 0, NEW a \in Ages(2 * L, w), AdmittedOK(L, w, n, t, a)
  PROVE  AdmittedOK(L, w, Counted(n, t), Lived(t), Older(a, w))
<1> SUFFICES ASSUME NEW i \in 1..2 * L
             PROVE  /\ i > L + Counted(n, t) => Older(a, w)[i] = w
                    /\ i > Counted(n, t) /\ Lived(t) > 0 => Older(a, w)[i] + Lived(t) >= w
                    /\ i > L /\ Lived(t) > 0 => Older(a, w)[i] + Lived(t) >= w
  BY DEF AdmittedOK
<1>1. Older(a, w)[i] = IF a[i] < w THEN a[i] + 1 ELSE w
  BY DEF Older, Ages
<1>2. a[i] \in 0..w
  BY DEF Ages
<1>3. /\ i > L + n => a[i] = w
      /\ i > n /\ t > 0 => a[i] + t >= w
      /\ i > L /\ t > 0 => a[i] + t >= w
  BY DEF AdmittedOK
<1> QED
  BY <1>1, <1>2, <1>3, TopAboveLimits DEF Counted, Lived
-----------------------------------------------------------------------------
\* What IInv says of one connection.
ConnectionInv(c) ==
  /\ TriesOK(Limit(c), Window(c), count[Key(c)], ttl[Key(c)], tried[c])
  /\ AdmittedOK(Limit(c), Window(c), count[Key(c)], ttl[Key(c)], admitted[c])

LEMMA PerConnection ==
  RecentTries /\ OldAdmissions <=> \A c \in Connections : ConnectionInv(c)
BY DEF RecentTries, OldAdmissions, ConnectionInv, TriesOK, AdmittedOK

LEMMA Product ==
  ASSUME NEW m \in Nat \ {0}, NEW n \in Nat \ {0}
  PROVE  m * n \in Nat \ {0}
OBVIOUS

LEMMA LimitAndWindow ==
  ASSUME NEW c \in Connections
  PROVE  Limit(c) \in Nat \ {0} /\ Limit(c) < CountTop /\ Window(c) \in Nat \ {0}
<1>1. Policy(sends[c]) \in {"anon", "auth"}
  BY DEF Policy
<1>2. Cfg(c).requests \in Nat \ {0} /\ Cfg(c).window_seconds \in Nat \ {0}
  BY <1>1 DEF Cfg
<1>3. Cfg(c).requests < CountTop
  BY <1>1, TopAboveLimits DEF Cfg
<1>4. Window(c) \in Nat \ {0}
  BY <1>2, Product DEF Window
<1> QED
  BY <1>2, <1>3, <1>4 DEF Limit

LEMMA KeyFacts ==
  ASSUME TypeOK, NEW c \in Connections
  PROVE  /\ sends[c] \in Inputs
         /\ Key(c) \in Keys
         /\ Limit(c) \in Nat \ {0} /\ Limit(c) < CountTop /\ Window(c) \in Nat \ {0}
         /\ count[Key(c)] \in 0..CountTop /\ ttl[Key(c)] \in 0..Window(c)
         /\ tried[c] \in Ages(Limit(c), Window(c)) /\ admitted[c] \in Ages(2 * Limit(c), Window(c))
<1>1. sends[c] \in Inputs
  BY DEF TypeOK
<1>2. Key(c) \in Keys
  BY <1>1 DEF Key, Keys
<1>3. Limit(c) \in Nat \ {0} /\ Limit(c) < CountTop /\ Window(c) \in Nat \ {0}
  BY LimitAndWindow, TopAboveLimits
<1>4. count[Key(c)] \in 0..CountTop /\ ttl[Key(c)] \in Nat
  BY <1>2 DEF TypeOK
<1> QED
  BY <1>1, <1>2, <1>3, <1>4 DEF TypeOK

\* The keys tell parties apart, and nothing else.
LEMMA PartyIsKey ==
  ASSUME TypeOK, NEW c \in Connections, NEW d \in Connections
  PROVE  /\ d \in Party(c) <=> Key(d) = Key(c)
         /\ Key(d) = Key(c) => Limit(d) = Limit(c) /\ Window(d) = Window(c)
<1>0. Key(d) = Key(c) <=>
        Policy(sends[d]) = Policy(sends[c]) /\ Identifier(sends[d]) = Identifier(sends[c])
  BY DEF Key
<1>1. CASE Authenticated(sends[c]) /\ Authenticated(sends[d])
  BY <1>0, <1>1 DEF Party, SameParty, Policy, Identifier, Limit, Window, Cfg
<1>2. CASE ~ Authenticated(sends[c]) /\ ~ Authenticated(sends[d])
  <2>1. Policy(sends[d]) = Policy(sends[c])
    BY <1>2 DEF Policy
  <2>2. Identifier(sends[c]) = ClientIp(sends[c]) /\ Identifier(sends[d]) = ClientIp(sends[d])
    BY <1>2 DEF Identifier
  <2>3. d \in Party(c) <=> ClientIp(sends[c]) = ClientIp(sends[d])
    BY <1>2 DEF Party, SameParty, Authenticated
  <2> QED
    BY <1>0, <2>1, <2>2, <2>3 DEF Limit, Window, Cfg
<1>3. CASE Authenticated(sends[c]) # Authenticated(sends[d])
  <2>1. d \notin Party(c)
    BY <1>3 DEF Party, SameParty
  <2>2. Policy(sends[d]) # Policy(sends[c])
    BY <1>3 DEF Policy, Authenticated
  <2>3. Key(d) # Key(c)
    BY <2>2 DEF Key
  <2> QED
    BY <2>1, <2>3
<1> QED
  BY <1>1, <1>2, <1>3 DEF Authenticated

LEMMA SendsFixed ==
  ASSUME sends' = sends
  PROVE  \A c \in Connections : Key(c)' = Key(c) /\ Limit(c)' = Limit(c) /\ Window(c)' = Window(c)
BY DEF Key, Limit, Window, Cfg

Bounded(c) ==
  /\ ttl[Key(c)] <= Window(c)
  /\ tried[c] \in Ages(Limit(c), Window(c))
  /\ admitted[c] \in Ages(2 * Limit(c), Window(c))

\* What every step does to the counters and the histories.
DataInv ==
  /\ count \in [Keys -> 0..CountTop]
  /\ ttl \in [Keys -> Nat]
  /\ \A c \in Connections : Bounded(c)
  /\ CountersExpire
  /\ RecentTries
  /\ OldAdmissions

LEMMA ScriptKeeps ==
  ASSUME IInv, NEW s \in Connections, Script(s), sends' = sends,
         \/ admitted' = admitted
         \/ /\ count'[Key(s)] <= Limit(s)
            /\ admitted' = [d \in Connections |->
                 IF d \in Party(s) THEN Push(admitted[d]) ELSE admitted[d]]
  PROVE  DataInv'
<1> USE DEF IInv
<1>s. Key(s) \in Keys /\ Limit(s) \in Nat \ {0} /\ Limit(s) < CountTop /\ Window(s) \in Nat \ {0}
  BY KeyFacts
<1>1. /\ count' = [count EXCEPT ![Key(s)] = Incremented(count[Key(s)])]
      /\ ttl' = [ttl EXCEPT ![Key(s)] = Renewed(Window(s), count[Key(s)], ttl[Key(s)])]
  BY DEF Script, Incremented, Renewed, Expiry
<1>2. \A n \in 0..CountTop : Incremented(n) \in 0..CountTop /\ Incremented(n) > 0
  BY TopAboveLimits DEF Incremented
<1>3. count' \in [Keys -> 0..CountTop] /\ ttl' \in [Keys -> Nat]
  BY <1>s, <1>1, <1>2 DEF TypeOK, Renewed
<1>4. CountersExpire'
  BY <1>s, <1>1, <1>2, TopAboveLimits DEF CountersExpire, TypeOK, Renewed
<1>5. ASSUME NEW d \in Connections
      PROVE  /\ ttl'[Key(d)] <= Window(d)
             /\ tried'[d] \in Ages(Limit(d), Window(d)) /\ admitted'[d] \in Ages(2 * Limit(d), Window(d))
             /\ TriesOK(Limit(d), Window(d), count'[Key(d)], ttl'[Key(d)], tried'[d])
             /\ AdmittedOK(Limit(d), Window(d), count'[Key(d)], ttl'[Key(d)], admitted'[d])
  <2> DEFINE L == Limit(d)
             w == Window(d)
             n == count[Key(d)]
             t == ttl[Key(d)]
  <2>1. /\ Key(d) \in Keys /\ L \in Nat \ {0} /\ 2 * L \in Nat /\ L < CountTop /\ w \in Nat \ {0}
        /\ n \in 0..CountTop /\ t \in 0..w
        /\ tried[d] \in Ages(L, w) /\ admitted[d] \in Ages(2 * L, w)
    BY KeyFacts
  <2>2. n > 0 <=> t > 0
    BY <2>1 DEF CountersExpire
  <2>3. TriesOK(L, w, n, t, tried[d]) /\ AdmittedOK(L, w, n, t, admitted[d])
    BY PerConnection DEF ConnectionInv
  <2>4. d \in Party(s) <=> Key(d) = Key(s)
    BY PartyIsKey
  <2>5. CASE d \in Party(s)
    <3>1. count'[Key(d)] = Incremented(n) /\ ttl'[Key(d)] = Renewed(w, n, t)
      BY <1>1, <2>1, <2>4, <2>5, PartyIsKey DEF TypeOK
    <3>r. Renewed(w, n, t) <= w
      BY <2>1 DEF Renewed
    <3>2. tried'[d] = Push(tried[d])
      BY <2>5 DEF Script
    <3>3. Push(tried[d]) \in Ages(L, w) /\ TriesOK(L, w, Incremented(n), Renewed(w, n, t), Push(tried[d]))
      BY <2>1, <2>2, <2>3, PushTyped, TryPushed
    <3>4. CASE admitted' = admitted
      <4>1. AdmittedOK(L, w, Incremented(n), Renewed(w, n, t), admitted[d])
        BY <2>1, <2>2, <2>3, AdmissionsStay
      <4> QED
        BY <2>1, <3>1, <3>r, <3>2, <3>3, <3>4, <4>1
    <3>5. CASE /\ count'[Key(s)] <= Limit(s)
               /\ admitted' = [e \in Connections |->
                    IF e \in Party(s) THEN Push(admitted[e]) ELSE admitted[e]]
      <4>1. Incremented(n) <= L
        BY <2>4, <2>5, <3>1, <3>5, PartyIsKey
      <4>2. admitted'[d] = Push(admitted[d])
        BY <2>5, <3>5
      <4>3. Push(admitted[d]) \in Ages(2 * L, w)
        BY <2>1, PushTyped
      <4>4. AdmittedOK(L, w, Incremented(n), Renewed(w, n, t), Push(admitted[d]))
        BY <2>1, <2>2, <2>3, <4>1, AdmissionPushed
      <4> QED
        BY <3>1, <3>r, <3>2, <3>3, <4>2, <4>3, <4>4
    <3> QED
      BY <3>4, <3>5
  <2>6. CASE d \notin Party(s)
    <3>1. count'[Key(d)] = n /\ ttl'[Key(d)] = t
      BY <1>1, <2>1, <2>4, <2>6 DEF TypeOK
    <3>2. tried'[d] = tried[d] /\ admitted'[d] = admitted[d]
      BY <2>6 DEF Script
    <3> QED
      BY <2>1, <2>3, <3>1, <3>2
  <2> QED
    BY <2>5, <2>6
<1>6. (\A c \in Connections : ConnectionInv(c))'
  BY <1>5, SendsFixed DEF ConnectionInv, TriesOK, AdmittedOK
<1>7. RecentTries' /\ OldAdmissions'
  BY <1>6, PerConnection, PTL
<1>8. (\A d \in Connections : Bounded(d))'
  BY <1>5, SendsFixed DEF Bounded
<1> QED
  BY <1>3, <1>4, <1>7, <1>8 DEF DataInv

LEMMA TickKeeps ==
  ASSUME IInv, Tick
  PROVE  DataInv'
<1> USE DEF IInv
<1>1. /\ count' = [k \in Keys |-> Counted(count[k], ttl[k])]
      /\ ttl' = [k \in Keys |-> Lived(ttl[k])]
  BY DEF Tick, Counted, Lived
<1>2. count' \in [Keys -> 0..CountTop] /\ ttl' \in [Keys -> Nat]
  BY <1>1, TopAboveLimits DEF TypeOK, Counted, Lived
<1>3. CountersExpire'
  BY <1>1, TopAboveLimits DEF CountersExpire, TypeOK, Counted, Lived
<1>4. ASSUME NEW d \in Connections
      PROVE  /\ ttl'[Key(d)] <= Window(d)
             /\ tried'[d] \in Ages(Limit(d), Window(d)) /\ admitted'[d] \in Ages(2 * Limit(d), Window(d))
             /\ TriesOK(Limit(d), Window(d), count'[Key(d)], ttl'[Key(d)], tried'[d])
             /\ AdmittedOK(Limit(d), Window(d), count'[Key(d)], ttl'[Key(d)], admitted'[d])
  <2> DEFINE L == Limit(d)
             w == Window(d)
             n == count[Key(d)]
             t == ttl[Key(d)]
  <2>1. /\ Key(d) \in Keys /\ L \in Nat \ {0} /\ 2 * L \in Nat /\ w \in Nat \ {0}
        /\ n \in 0..CountTop /\ t \in 0..w
        /\ tried[d] \in Ages(L, w) /\ admitted[d] \in Ages(2 * L, w)
    BY KeyFacts
  <2>2. n > 0 <=> t > 0
    BY <2>1 DEF CountersExpire
  <2>3. TriesOK(L, w, n, t, tried[d]) /\ AdmittedOK(L, w, n, t, admitted[d])
    BY PerConnection DEF ConnectionInv
  <2>4. count'[Key(d)] = Counted(n, t) /\ ttl'[Key(d)] = Lived(t)
    BY <1>1, <2>1
  <2>5. tried'[d] = Older(tried[d], w) /\ admitted'[d] = Older(admitted[d], w)
    BY DEF Tick
  <2>l. Lived(t) <= w
    BY <2>1 DEF Lived
  <2>6. Older(tried[d], w) \in Ages(L, w) /\ Older(admitted[d], w) \in Ages(2 * L, w)
    BY <2>1, OlderTyped
  <2>7. TriesOK(L, w, Counted(n, t), Lived(t), Older(tried[d], w))
    BY <2>1, <2>2, <2>3, TriesAge
  <2>8. AdmittedOK(L, w, Counted(n, t), Lived(t), Older(admitted[d], w))
    BY <2>1, <2>2, <2>3, AdmissionsAge
  <2> QED
    BY <2>l, <2>4, <2>5, <2>6, <2>7, <2>8
<1>f. sends' = sends
  BY DEF Tick
<1>5. (\A c \in Connections : ConnectionInv(c))'
  BY <1>4, <1>f, SendsFixed DEF ConnectionInv, TriesOK, AdmittedOK
<1>6. RecentTries' /\ OldAdmissions'
  BY <1>5, PerConnection, PTL
<1>7. (\A d \in Connections : Bounded(d))'
  BY <1>4, <1>f, SendsFixed DEF Bounded
<1> QED
  BY <1>2, <1>3, <1>6, <1>7 DEF DataInv

\* No key, and histories that are empty or as they were.
LEMMA NoKeys ==
  ASSUME sends \in Mixes, count = [k \in Keys |-> 0], ttl = [k \in Keys |-> 0],
         \A c \in Connections :
           tried[c] \in Ages(Limit(c), Window(c)) /\ admitted[c] = LongAgo(2 * Limit(c), Window(c))
  PROVE  DataInv
<1>1. ASSUME NEW c \in Connections
      PROVE  Bounded(c) /\ ConnectionInv(c)
  <2>1. sends[c] \in Inputs
    OBVIOUS
  <2>2. Key(c) \in Keys
    BY <2>1 DEF Key, Keys
  <2>3. Limit(c) \in Nat \ {0} /\ 2 * Limit(c) \in Nat /\ Window(c) \in Nat \ {0}
    BY LimitAndWindow
  <2>4. count[Key(c)] = 0 /\ ttl[Key(c)] = 0
    BY <2>2
  <2>5. TriesOK(Limit(c), Window(c), 0, 0, tried[c])
    BY <2>3 DEF TriesOK
  <2>6. /\ admitted[c] \in Ages(2 * Limit(c), Window(c))
        /\ \A i \in 1..2 * Limit(c) : admitted[c][i] = Window(c)
    <3> DEFINE m == 2 * Limit(c)
               w == Window(c)
    <3>1. admitted[c] = [i \in 1..m |-> w] /\ w \in 0..w
      BY <2>3 DEF LongAgo
    <3> HIDE DEF m, w
    <3>2. admitted[c] \in [1..m -> 0..w] /\ \A i \in 1..m : admitted[c][i] = w
      BY <3>1
    <3> QED
      BY <3>2 DEF m, w, Ages
  <2>7. AdmittedOK(Limit(c), Window(c), 0, 0, admitted[c])
    BY <2>6 DEF AdmittedOK
  <2> QED
    BY <2>2, <2>3, <2>4, <2>5, <2>6, <2>7 DEF ConnectionInv, Bounded
<1>2. RecentTries /\ OldAdmissions
  BY <1>1, PerConnection
<1>3. CountersExpire
  BY DEF CountersExpire
<1> QED
  BY <1>1, <1>2, <1>3, TopAboveLimits DEF DataInv

\* A step that leaves the limiter's data alone.
LEMMA DataUnchanged ==
  ASSUME IInv, UNCHANGED <<sends, count, ttl, tried, admitted>>
  PROVE  DataInv'
<1>1. DataInv
  BY DEF IInv, TypeOK, DataInv, Bounded
<1>2. DataInv' = DataInv
  BY SendsFixed DEF DataInv, Bounded, CountersExpire, RecentTries, OldAdmissions, Keys,
       Key, Limit, Window, Cfg
<1> QED
  BY <1>1, <1>2
-----------------------------------------------------------------------------
\* Where the requests and the client stand.
ControlInv ==
  /\ sends \in Mixes
  /\ pc \in [Connections -> Answers \cup {"connect", "script"}]
  /\ attempts \in [Connections -> 0..MaxAttempts]
  /\ connected \in BOOLEAN
  /\ wait \in [Connections -> Nat]
  /\ lost \in 0..MaxLost
  /\ streak \in [Connections -> 0..3]

\* A refused client is told a whole number of seconds.
LEMMA WaitTyped ==
  ASSUME NEW c \in Connections, NEW t \in Nat
  PROVE  RetryAfter(c, t) * Second \in Nat
<1>1. Cfg(c).window_seconds \in Nat
  BY DEF Cfg, Policy
<1>2. 2 * t + Second \in Nat /\ 2 * Second \in Nat /\ 2 * Second > 0
  OBVIOUS
<1>3. \A m \in Nat, n \in Nat : n > 0 => m \div n \in Nat
  OBVIOUS
<1>4. Reported(t) \in Nat
  BY <1>2, <1>3 DEF Reported
<1>5. RetryAfter(c, t) \in Nat
  BY <1>1, <1>4 DEF RetryAfter
<1>6. \A m \in Nat, n \in Nat : m * n \in Nat
  OBVIOUS
<1> QED
  BY <1>5, <1>6

LEMMA InvIsTwo == IInv <=> ControlInv /\ DataInv
BY DEF IInv, TypeOK, ControlInv, DataInv, Bounded

LEMMA InitInv == Init => IInv
<1> SUFFICES ASSUME Init PROVE IInv
  OBVIOUS
<1>0. connected \in BOOLEAN
  BY DEF Init
<1>1. ControlInv
  BY <1>0 DEF Init, ControlInv, Answers
<1>2. ASSUME NEW c \in Connections
      PROVE  tried[c] \in Ages(Limit(c), Window(c)) /\ admitted[c] = LongAgo(2 * Limit(c), Window(c))
  BY LimitAndWindow DEF Init, LongAgo, Ages
<1>3. DataInv
  BY <1>2, NoKeys DEF Init
<1> QED
  BY <1>1, <1>3, InvIsTwo

LEMMA StepInv == IInv /\ [Next]_vars => IInv'
<1> SUFFICES ASSUME IInv, [Next]_vars PROVE ControlInv' /\ DataInv'
  BY InvIsTwo, PTL
<1> USE DEF Answers
<1>c. ControlInv
  BY InvIsTwo
<1>1. ASSUME NEW c \in Connections, Arrive(c) PROVE ControlInv' /\ DataInv'
  <2>1. ControlInv'
    BY <1>1, <1>c DEF Arrive, ControlInv
  <2> QED
    BY <1>1, <2>1, DataUnchanged DEF Arrive
<1>2. ASSUME NEW c \in Connections, Connect(c) PROVE ControlInv' /\ DataInv'
  <2>1. ControlInv'
    BY <1>2, <1>c DEF Connect, ControlInv
  <2> QED
    BY <1>2, <2>1, DataUnchanged DEF Connect
<1>3. ASSUME NEW c \in Connections, ConnectFails(c) PROVE ControlInv' /\ DataInv'
  <2>1. ControlInv'
    BY <1>3, <1>c DEF ConnectFails, ControlInv
  <2> QED
    BY <1>3, <2>1, DataUnchanged DEF ConnectFails
<1>4. ASSUME NEW c \in Connections, Allow(c) PROVE ControlInv' /\ DataInv'
  <2>1. ControlInv'
    BY <1>4, <1>c DEF Allow, ControlInv
  <2> QED
    BY <1>4, <2>1, ScriptKeeps DEF Allow
<1>5. ASSUME NEW c \in Connections, Refuse(c) PROVE ControlInv' /\ DataInv'
  <2>1. DataInv'
    BY <1>5, ScriptKeeps DEF Refuse
  <2>2. ttl'[Key(c)] \in Nat
    <3>1. Key(c) \in Keys /\ Window(c) \in Nat \ {0}
      BY KeyFacts DEF IInv
    <3> QED
      BY <1>5, <3>1 DEF Refuse, Script, Expiry, IInv, TypeOK
  <2>3. wait' \in [Connections -> Nat]
    <3>1. RetryAfter(c, ttl'[Key(c)]) * Second \in Nat
      BY <2>2, WaitTyped
    <3> QED
      BY <1>5, <1>c, <3>1 DEF Refuse, ControlInv
  <2>4. ControlInv'
    BY <1>5, <1>c, <2>3 DEF Refuse, ControlInv
  <2> QED
    BY <2>1, <2>4
<1>6. ASSUME NEW c \in Connections, Unreached(c) PROVE ControlInv' /\ DataInv'
  <2>1. ControlInv'
    BY <1>6, <1>c DEF Unreached, GivesUp, ControlInv
  <2> QED
    BY <1>6, <2>1, DataUnchanged DEF Unreached
<1>7. ASSUME NEW c \in Connections, AnswerLost(c) PROVE ControlInv' /\ DataInv'
  <2>1. ControlInv'
    BY <1>7, <1>c DEF AnswerLost, GivesUp, ControlInv
  <2> QED
    BY <1>7, <2>1, ScriptKeeps DEF AnswerLost
<1>8. CASE Tick
  <2>1. ControlInv'
    BY <1>8, <1>c DEF Tick, ControlInv
  <2> QED
    BY <1>8, <2>1, TickKeeps
<1>9. CASE Flush
  <2>1. ControlInv'
    BY <1>9, <1>c DEF Flush, ControlInv
  <2>2. /\ (sends \in Mixes)' /\ (count = [k \in Keys |-> 0])' /\ (ttl = [k \in Keys |-> 0])'
        /\ (\A c \in Connections :
             tried[c] \in Ages(Limit(c), Window(c)) /\ admitted[c] = LongAgo(2 * Limit(c), Window(c)))'
    BY <1>9, <2>1, KeyFacts DEF Flush, ControlInv, IInv, Limit, Window, Cfg, Keys
  <2>3. DataInv'
    BY <2>2, NoKeys, PTL
  <2> QED
    BY <2>1, <2>3
<1>10. CASE Restart
  <2>1. ControlInv'
    BY <1>10, <1>c DEF Restart, ControlInv
  <2> QED
    BY <1>10, <2>1, DataUnchanged DEF Restart
<1>11. CASE UNCHANGED vars
  <2>1. ControlInv'
    BY <1>11, <1>c DEF vars, ControlInv
  <2> QED
    BY <1>11, <2>1, DataUnchanged DEF vars
<1> QED
  BY <1>1, <1>2, <1>3, <1>4, <1>5, <1>6, <1>7, <1>8, <1>9, <1>10, <1>11 DEF Next, Serve
-----------------------------------------------------------------------------
(* Retry-After *)

LEMMA DivBounds ==
  ASSUME NEW a \in Nat, NEW b \in Nat \ {0}
  PROVE  /\ a \div b \in Nat
         /\ b * (a \div b) <= a
         /\ a < b * (a \div b) + b
OBVIOUS

\* What is reported falls short of the time to live by less than half a second,
\* and less than half a second is reported as none.
LEMMA Rounding ==
  ASSUME NEW t \in Nat
  PROVE  /\ Reported(t) \in Nat
         /\ 2 * t < 2 * (Reported(t) * Second) + Second
         /\ 2 * t < Second => Reported(t) = 0
<1> DEFINE a == 2 * t + Second
           b == 2 * Second
           q == a \div b
<1>1. a \in Nat /\ b \in Nat \ {0}
  OBVIOUS
<1>2. q \in Nat /\ b * q <= a /\ a < b * q + b
  <2> HIDE DEF a, b
  <2> QED
    BY <1>1, DivBounds
<1>3. b * q = 2 * (q * Second)
  <2>1. \A m \in Nat, n \in Nat : (2 * m) * n = 2 * (n * m)
    OBVIOUS
  <2> HIDE DEF q
  <2> QED
    BY <1>2, <2>1
<1>4. 2 * t < 2 * (q * Second) + Second
  <2>1. q * Second \in Nat
    BY <1>2, Product
  <2> DEFINE p == q * Second
  <2>2. 2 * t + Second < 2 * p + 2 * Second
    BY <1>2, <1>3
  <2> HIDE DEF p
  <2>3. 2 * t < 2 * p + Second
    BY <2>1, <2>2 DEF p
  <2> QED
    BY <2>3 DEF p
<1>5. ASSUME 2 * t < Second PROVE q = 0
  <2> SUFFICES ASSUME q # 0 PROVE FALSE
    OBVIOUS
  <2>1. a < b
    BY <1>5
  <2>2. \A m \in Nat \ {0}, n \in Nat \ {0} : m <= m * n
    OBVIOUS
  <2>3. b <= b * q
    BY <1>1, <1>2, <2>2
  <2>4. b * q \in Nat
    BY <1>1, <1>2
  <2> HIDE DEF q
  <2> QED
    BY <1>1, <1>2, <2>1, <2>3, <2>4
<1> QED
  BY <1>2, <1>4, <1>5 DEF Reported

\* RetryInv and RetryWorks of one connection: the time to live t of its key, its
\* wait w and its streak s.
WaitOK(t, w, s) ==
  /\ s = 1 => 2 * t < 2 * w + Second
  /\ s = 2 => t <= w
  /\ s <= 2
Retry ==
  \A c \in Connections :
    /\ pc[c] \in {"connect", "script"} => wait[c] = 0
    /\ WaitOK(ttl[Key(c)], wait[c], streak[c])

LEMMA RetryIsBoth == Retry <=> RetryInv /\ RetryWorks
BY DEF Retry, RetryInv, RetryWorks, WaitOK

LEMMA FirstRefusal ==
  ASSUME NEW c \in Connections, NEW t \in Nat
  PROVE  WaitOK(t, RetryAfter(c, t) * Second, 1)
<1>1. Reported(t) \in Nat /\ 2 * t < 2 * (Reported(t) * Second) + Second
  BY Rounding
<1>2. CASE Reported(t) > 0
  BY <1>1, <1>2 DEF RetryAfter, WaitOK
<1>3. CASE Reported(t) = 0
  <2>1. 2 * t < Second
    BY <1>1, <1>3
  <2>2. RetryAfter(c, t) * Second \in Nat
    BY WaitTyped
  <2> DEFINE w == RetryAfter(c, t) * Second
  <2> HIDE DEF w
  <2>3. w \in Nat
    BY <2>2 DEF w
  <2>4. WaitOK(t, w, 1)
    BY <2>1, <2>3 DEF WaitOK
  <2> QED
    BY <2>4 DEF w
<1> QED
  BY <1>1, <1>2, <1>3

\* Another connection's step of the same party ends the streak; one of another
\* party does not touch the key.
LEMMA ScriptRetry ==
  ASSUME IInv, Retry, NEW c \in Connections, Script(c), sends' = sends,
         NEW d \in Connections, d # c,
         streak'[d] = IF d \in Party(c) THEN 0 ELSE streak[d],
         wait'[d] = wait[d]
  PROVE  WaitOK(ttl'[Key(d)], wait'[d], streak'[d])
<1>1. Key(c) \in Keys /\ Key(d) \in Keys
  BY KeyFacts DEF IInv
<1>2. CASE d \in Party(c)
  BY <1>2 DEF WaitOK
<1>3. CASE d \notin Party(c)
  <2>1. Key(d) # Key(c)
    BY <1>3, PartyIsKey DEF IInv
  <2>2. ttl'[Key(d)] = ttl[Key(d)]
    BY <1>1, <2>1 DEF Script, IInv, TypeOK
  <2> QED
    BY <1>3, <2>2 DEF Retry
<1> QED
  BY <1>2, <1>3

LEMMA InitRetry == Init => Retry
<1> SUFFICES ASSUME Init, NEW c \in Connections
             PROVE  /\ pc[c] \in {"connect", "script"} => wait[c] = 0
                    /\ WaitOK(ttl[Key(c)], wait[c], streak[c])
  BY DEF Retry
<1>1. streak[c] = 0 /\ pc[c] = "new"
  BY DEF Init
<1> QED
  BY <1>1 DEF WaitOK

LEMMA RefuseRetry ==
  ASSUME IInv, Retry, NEW c \in Connections, Refuse(c)
  PROVE  Retry'
<1> DEFINE t == ttl[Key(c)]
<1>1. /\ Key(c) \in Keys /\ Limit(c) \in Nat \ {0} /\ count[Key(c)] \in 0..CountTop
      /\ t \in 0..Window(c) /\ Window(c) \in Nat \ {0} /\ streak[c] \in 0..3
      /\ Limit(c) < CountTop
  BY KeyFacts DEF IInv, TypeOK
<1>2. count[Key(c)] > 0 /\ t > 0 /\ ttl'[Key(c)] = t
  <2>1. count'[Key(c)] = IF count[Key(c)] < CountTop THEN count[Key(c)] + 1 ELSE count[Key(c)]
    BY <1>1 DEF Refuse, Script, IInv, TypeOK
  <2>2. count[Key(c)] > 0
    BY <1>1, <2>1, TopAboveLimits DEF Refuse
  <2>3. t > 0
    BY <1>1, <2>2 DEF IInv, CountersExpire
  <2> QED
    BY <1>1, <2>2, <2>3 DEF Refuse, Script, Expiry, IInv, TypeOK
<1>3. wait[c] = 0 /\ WaitOK(t, 0, streak[c])
  BY DEF Refuse, Retry
<1>4. wait'[c] = RetryAfter(c, t) * Second
  BY <1>2 DEF Refuse, IInv, TypeOK
<1>5. c \in Party(c) /\ streak'[c] = IF streak[c] < 3 THEN streak[c] + 1 ELSE 3
  BY PartyIsKey DEF Refuse, IInv
<1>6. WaitOK(ttl'[Key(c)], wait'[c], streak'[c])
  <2>1. CASE streak[c] = 0
    <3>1. streak'[c] = 1
      BY <1>5, <2>1
    <3>2. WaitOK(t, RetryAfter(c, t) * Second, 1)
      BY <1>1, FirstRefusal
    <3> QED
      BY <1>2, <1>4, <3>1, <3>2
  <2>2. CASE streak[c] = 1
    <3>1. 2 * t < Second
      BY <1>1, <1>3, <2>2 DEF WaitOK
    <3>n. t \in Nat
      BY <1>1
    <3>2. Reported(t) = 0
      <4> HIDE DEF t
      <4> QED
        BY <3>n, <3>1, Rounding
    <3>3. wait'[c] = Window(c)
      BY <1>4, <3>2 DEF RetryAfter, Window
    <3>4. streak'[c] = 2
      BY <1>5, <2>2
    <3>5. ttl'[Key(c)] <= wait'[c]
      BY <1>1, <1>2, <3>3
    <3> QED
      BY <3>4, <3>5 DEF WaitOK
  <2>3. CASE streak[c] = 2
    BY <1>1, <1>2, <1>3, <2>3 DEF WaitOK
  <2>4. streak[c] <= 2
    BY <1>3 DEF WaitOK
  <2> QED
    BY <1>1, <2>1, <2>2, <2>3, <2>4
<1>7. ASSUME NEW d \in Connections, d # c
      PROVE  WaitOK(ttl'[Key(d)], wait'[d], streak'[d])
  <2>1. wait'[d] = wait[d]
    BY <1>7 DEF Refuse, IInv, TypeOK
  <2>2. streak'[d] = IF d \in Party(c) THEN 0 ELSE streak[d]
    BY <1>7 DEF Refuse
  <2> QED
    BY <1>7, <2>1, <2>2, ScriptRetry DEF Refuse
<1>8. \A d \in Connections : Key(d)' = Key(d)
  BY SendsFixed DEF Refuse
<1>9. \A d \in Connections : pc'[d] \in {"connect", "script"} => wait'[d] = 0
  BY DEF Refuse, Retry, IInv, TypeOK
<1> QED
  BY <1>6, <1>7, <1>8, <1>9 DEF Retry

\* A step that leaves the counters alone, or ends the streak of all whose
\* counter it changes.
LEMMA OthersRetry ==
  ASSUME IInv, Retry, sends' = sends,
         \A d \in Connections :
           /\ pc'[d] \in {"connect", "script"} => wait'[d] = 0
           /\ WaitOK(ttl'[Key(d)], wait'[d], streak'[d])
  PROVE  Retry'
BY SendsFixed DEF Retry

LEMMA TickRetry ==
  ASSUME IInv, Retry, Tick
  PROVE  Retry'
<1> SUFFICES ASSUME NEW d \in Connections
             PROVE  /\ pc'[d] \in {"connect", "script"} => wait'[d] = 0
                    /\ WaitOK(ttl'[Key(d)], wait'[d], streak'[d])
  BY OthersRetry DEF Tick
<1> DEFINE t == ttl[Key(d)]
           w == wait[d]
<1>1. Key(d) \in Keys /\ t \in Nat /\ w \in Nat /\ streak[d] \in 0..3
  BY KeyFacts DEF IInv, TypeOK
<1>2. /\ ttl'[Key(d)] = (IF t = 0 THEN 0 ELSE t - 1)
      /\ wait'[d] = (IF w = 0 THEN 0 ELSE w - 1)
      /\ streak'[d] = streak[d] /\ pc'[d] = pc[d]
  BY <1>1 DEF Tick
<1>3. WaitOK(t, w, streak[d]) /\ (pc[d] \in {"connect", "script"} => w = 0)
  BY DEF Retry
<1> HIDE DEF t, w
<1> QED
  BY <1>1, <1>2, <1>3 DEF WaitOK

LEMMA StepRetry ==
  ASSUME IInv, Retry, [Next]_vars
  PROVE  Retry'
<1> USE DEF Answers
<1>t. /\ \A c \in Connections : Key(c) \in Keys /\ ttl[Key(c)] \in Nat
      /\ streak \in [Connections -> 0..3] /\ wait \in [Connections -> Nat]
      /\ pc \in [Connections -> Answers \cup {"connect", "script"}]
  BY KeyFacts DEF IInv, TypeOK
<1>r. \A d \in Connections :
        /\ pc[d] \in {"connect", "script"} => wait[d] = 0
        /\ WaitOK(ttl[Key(d)], wait[d], streak[d])
  BY DEF Retry
<1>z. \A t, w : WaitOK(t, w, 0)
  BY DEF WaitOK
<1>1. ASSUME NEW c \in Connections, Arrive(c) PROVE Retry'
  <2>1. ASSUME NEW d \in Connections
        PROVE  /\ pc'[d] \in {"connect", "script"} => wait'[d] = 0
               /\ WaitOK(ttl'[Key(d)], wait'[d], streak'[d])
    <3>1. CASE d = c
      <4>1. wait'[c] = 0 /\ ttl' = ttl
            /\ streak'[c] = IF wait[c] = 0 THEN streak[c] ELSE 0
        BY <1>1, <1>t DEF Arrive
      <4> QED
        BY <1>r, <1>z, <3>1, <4>1
    <3>2. CASE d # c
      BY <1>1, <1>t, <1>r, <3>2 DEF Arrive
    <3> QED
      BY <3>1, <3>2
  <2> QED
    BY <1>1, <2>1, OthersRetry DEF Arrive
<1>2. ASSUME NEW c \in Connections, Connect(c) PROVE Retry'
  BY <1>2, <1>t, <1>r, OthersRetry DEF Connect
<1>3. ASSUME NEW c \in Connections, ConnectFails(c) PROVE Retry'
  BY <1>3, <1>t, <1>r, <1>z, OthersRetry DEF ConnectFails
<1>4. ASSUME NEW c \in Connections, Allow(c) \/ AnswerLost(c) PROVE Retry'
  <2>1. /\ Script(c) /\ sends' = sends /\ wait' = wait /\ pc[c] = "script"
        /\ \A d \in Connections : streak'[d] = IF d \in Party(c) THEN 0 ELSE streak[d]
        /\ \A d \in Connections : pc'[d] = pc[d] \/ d = c
    BY <1>4, <1>t DEF Allow, AnswerLost, GivesUp
  <2>2. c \in Party(c)
    BY PartyIsKey DEF IInv
  <2>3. ASSUME NEW d \in Connections
        PROVE  /\ pc'[d] \in {"connect", "script"} => wait'[d] = 0
               /\ WaitOK(ttl'[Key(d)], wait'[d], streak'[d])
    <3>1. CASE d = c
      BY <1>r, <1>z, <2>1, <2>2, <3>1
    <3>2. CASE d # c
      BY <1>r, <2>1, <3>2, ScriptRetry
    <3> QED
      BY <3>1, <3>2
  <2> QED
    BY <2>1, <2>3, OthersRetry
<1>5. ASSUME NEW c \in Connections, Refuse(c) PROVE Retry'
  BY <1>5, RefuseRetry
<1>6. ASSUME NEW c \in Connections, Unreached(c) PROVE Retry'
  <2>1. /\ sends' = sends /\ wait' = wait /\ ttl' = ttl /\ pc[c] = "script"
        /\ \A d \in Connections : streak'[d] = IF d = c THEN 0 ELSE streak[d]
        /\ \A d \in Connections : pc'[d] = pc[d] \/ d = c
    BY <1>6, <1>t DEF Unreached, GivesUp
  <2> QED
    BY <2>1, <1>r, <1>z, OthersRetry
<1>7. CASE Tick
  BY <1>7, TickRetry
<1>8. CASE Flush
  <2>1. ASSUME NEW d \in Connections
        PROVE  /\ pc'[d] \in {"connect", "script"} => wait'[d] = 0
               /\ WaitOK(ttl'[Key(d)], wait'[d], streak'[d])
    <3>1. ttl'[Key(d)] = 0 /\ wait'[d] = wait[d] /\ streak'[d] = streak[d] /\ pc'[d] = pc[d]
      BY <1>8, <1>t DEF Flush
    <3>2. WaitOK(0, wait[d], streak[d])
      BY <1>r, <1>t DEF WaitOK
    <3> QED
      BY <1>r, <3>1, <3>2
  <2> QED
    BY <1>8, <2>1, OthersRetry DEF Flush
<1>9. CASE Restart
  BY <1>9, <1>r, OthersRetry DEF Restart
<1>10. CASE UNCHANGED vars
  BY <1>10, <1>r, OthersRetry DEF vars
<1> QED
  BY <1>1, <1>2, <1>3, <1>4, <1>5, <1>6, <1>7, <1>8, <1>9, <1>10 DEF Next, Serve
-----------------------------------------------------------------------------
\* The inductive invariant of the limiter (check_rate_limit, _LUA_INCR).
THEOREM InvHolds == Spec => []IInv
BY InitInv, StepInv, PTL DEF Spec

\* Every counter expires: no key stays without a time to live (_LUA_INCR).
THEOREM CountersExpireHolds == Spec => []CountersExpire
<1>1. IInv => CountersExpire
  BY DEF IInv
<1> QED
  BY <1>1, InvHolds, PTL

\* A refusal follows more than Limit runs of the script for the same user of
\* the same tenant, or the same address, within one window
\* (check_rate_limit, build_auth_identifier, build_anon_identifier).
THEOREM RefusedForOwnHolds == Spec => RefusedForOwn
<1>1. ASSUME IInv, [Next]_vars, NEW c \in Connections, pc[c] = "script", pc'[c] = "refused"
      PROVE  tried[c][Limit(c)] < Window(c)
  <2>1. Refuse(c)
    <3>1. pc \in [Connections -> Answers \cup {"connect", "script"}] /\ Next
      BY <1>1 DEF IInv, TypeOK, vars
    <3>2. ASSUME NEW d \in Connections, Arrive(d) PROVE FALSE
      BY <1>1, <3>1, <3>2 DEF Arrive, Answers
    <3>3. ASSUME NEW d \in Connections, Connect(d) \/ ConnectFails(d) PROVE FALSE
      BY <1>1, <3>1, <3>3 DEF Connect, ConnectFails
    <3>4. ASSUME NEW d \in Connections, Allow(d) PROVE FALSE
      BY <1>1, <3>1, <3>4 DEF Allow
    <3>5. ASSUME NEW d \in Connections, Unreached(d) \/ AnswerLost(d) PROVE FALSE
      BY <1>1, <3>1, <3>5 DEF Unreached, AnswerLost, GivesUp
    <3>6. ASSUME NEW d \in Connections, Refuse(d) PROVE d = c
      BY <1>1, <3>1, <3>6 DEF Refuse
    <3>7. ~ Tick /\ ~ Flush /\ ~ Restart
      BY <1>1 DEF Tick, Flush, Restart
    <3> QED
      BY <3>1, <3>2, <3>3, <3>4, <3>5, <3>6, <3>7 DEF Next, Serve
  <2>2. /\ Key(c) \in Keys /\ Limit(c) \in Nat \ {0} /\ Limit(c) < CountTop /\ Window(c) \in Nat \ {0}
        /\ count[Key(c)] \in 0..CountTop /\ ttl[Key(c)] \in 0..Window(c)
        /\ tried[c] \in Ages(Limit(c), Window(c))
    BY <1>1, KeyFacts DEF IInv
  <2>3. count[Key(c)] >= Limit(c)
    BY <1>1, <2>1, <2>2, TopAboveLimits DEF Refuse, Script, IInv, TypeOK
  <2>4. ttl[Key(c)] > 0
    BY <1>1, <2>2, <2>3 DEF IInv, CountersExpire
  <2>5. tried[c][Limit(c)] + ttl[Key(c)] <= Window(c) /\ tried[c][Limit(c)] \in 0..Window(c)
    BY <1>1, <2>2, <2>3 DEF IInv, RecentTries, Ages
  <2> QED
    BY <2>2, <2>4, <2>5
<1>2. IInv /\ [Next]_vars =>
        [\A c \in Connections : pc[c] = "script" /\ pc'[c] = "refused" =>
           tried[c][Limit(c)] < Window(c)]_vars
  BY <1>1
<1> QED
  BY <1>2, InvHolds, PTL DEF Spec, RefusedForOwn

\* Wherever a span of a window's length begins, at most twice the limit is
\* admitted by count in it (check_rate_limit, _LUA_INCR).
THEOREM BurstBoundedHolds == Spec => BurstBounded
<1>1. ASSUME IInv, [Next]_vars, NEW c \in Connections, pc[c] = "script", pc'[c] = "allowed"
      PROVE  admitted[c][2 * Limit(c)] >= Window(c)
  <2>1. Allow(c)
    <3>1. pc \in [Connections -> Answers \cup {"connect", "script"}] /\ Next
      BY <1>1 DEF IInv, TypeOK, vars
    <3>2. ASSUME NEW d \in Connections, Arrive(d) PROVE FALSE
      BY <1>1, <3>1, <3>2 DEF Arrive, Answers
    <3>3. ASSUME NEW d \in Connections, Connect(d) \/ ConnectFails(d) PROVE FALSE
      BY <1>1, <3>1, <3>3 DEF Connect, ConnectFails
    <3>4. ASSUME NEW d \in Connections, Refuse(d) PROVE FALSE
      BY <1>1, <3>1, <3>4 DEF Refuse
    <3>5. ASSUME NEW d \in Connections, Unreached(d) \/ AnswerLost(d) PROVE FALSE
      BY <1>1, <3>1, <3>5 DEF Unreached, AnswerLost, GivesUp
    <3>6. ASSUME NEW d \in Connections, Allow(d) PROVE d = c
      BY <1>1, <3>1, <3>6 DEF Allow
    <3>7. ~ Tick /\ ~ Flush /\ ~ Restart
      BY <1>1 DEF Tick, Flush, Restart
    <3> QED
      BY <3>1, <3>2, <3>3, <3>4, <3>5, <3>6, <3>7 DEF Next, Serve
  <2>2. /\ Key(c) \in Keys /\ Limit(c) \in Nat \ {0} /\ Limit(c) < CountTop /\ Window(c) \in Nat \ {0}
        /\ count[Key(c)] \in 0..CountTop
    BY <1>1, KeyFacts DEF IInv
  <2>3. count[Key(c)] < Limit(c)
    BY <1>1, <2>1, <2>2, TopAboveLimits DEF Allow, Script, IInv, TypeOK
  <2>4. 2 * Limit(c) \in 1..2 * Limit(c) /\ 2 * Limit(c) > Limit(c) + count[Key(c)]
    BY <2>2, <2>3
  <2>5. admitted[c][2 * Limit(c)] = Window(c)
    BY <1>1, <2>4 DEF IInv, OldAdmissions
  <2> QED
    BY <2>2, <2>5
<1>2. IInv /\ [Next]_vars =>
        [\A c \in Connections : pc[c] = "script" /\ pc'[c] = "allowed" =>
           admitted[c][2 * Limit(c)] >= Window(c)]_vars
  BY <1>1
<1> QED
  BY <1>2, InvHolds, PTL DEF Spec, BurstBounded

\* What is left of a window after a refused client has waited as it was told
\* (safe_ttl in check_rate_limit).
THEOREM RetryHolds == Spec => [](IInv /\ Retry)
<1>1. IInv /\ Retry /\ [Next]_vars => Retry'
  BY StepRetry
<1> QED
  BY <1>1, InitRetry, InvHolds, PTL DEF Spec

\* A client alone with its counter that waits as it is told is refused at most
\* once more, however Redis rounds and whatever fails (safe_ttl in
\* check_rate_limit).
THEOREM RetryWorksHolds == Spec => []RetryWorks
<1>1. Retry => RetryWorks
  BY RetryIsBoth
<1> QED
  BY <1>1, RetryHolds, PTL
=============================================================================
