------------------------- MODULE OrderCancelProofs -------------------------
(***************************************************************************)
(* Proofs about OrderCancel, for every set of requests, orders, tenants    *)
(* and users, every window, every overlap and every combination of faults. *)
(***************************************************************************)
EXTENDS OrderCancel, TLAPS

USE IdsAssumption, TimeAssumption, FaultsAssumption, AbsentAssumption

\* What IInv says of one request.
RequestInv(r) ==
  /\ pc[r] \in {"challenge", "mutate", "commit"} =>
       /\ context[r].tenant = orders[Order(r)].tenant
       /\ context[r].user = orders[Order(r)].user
       /\ response[r] = "none"
  /\ pc[r] = "lookup" => response[r] = "none"
  /\ pc[r] \in {"mutate", "commit"} => r \in verified
  /\ pc[r] # "idle" => context[r] # Absent
  /\ pc[r] = "idle" => response[r] = "none"
  /\ r \in cancelled_by => pc[r] = "done"
  /\ updating[r] => pc[r] = "commit"
  /\ r \in cancelled_by =>
       /\ context[r] # Absent
       /\ context[r].tenant = orders[Order(r)].tenant
       /\ context[r].user = orders[Order(r)].user
       /\ r \in verified
       /\ orders[Order(r)].status = "cancelled"
  /\ response[r] = "cancelled" => r \in cancelled_by
  /\ response[r] \in Refusals => r \notin cancelled_by

\* The part of IInv that speaks of one request at a time.
Placed == PlaceInv /\ CancelledByOwner /\ AnswerTrue

LEMMA PerRequest == TypeOK => (Placed <=> \A r \in Requests : RequestInv(r))
<1> SUFFICES ASSUME TypeOK PROVE Placed <=> \A r \in Requests : RequestInv(r)
  OBVIOUS
<1>1. ASSUME Placed PROVE \A r \in Requests : RequestInv(r)
  BY <1>1 DEF Placed, PlaceInv, CancelledByOwner, AnswerTrue, RequestInv
<1>2. ASSUME \A r \in Requests : RequestInv(r) PROVE Placed
  <2>1. PlaceInv
    BY <1>2 DEF PlaceInv, RequestInv
  <2>2. CancelledByOwner
    BY <1>2 DEF CancelledByOwner, RequestInv, TypeOK
  <2>3. AnswerTrue
    BY <1>2 DEF AnswerTrue, RequestInv
  <2> QED
    BY <2>1, <2>2, <2>3 DEF Placed
<1> QED
  BY <1>1, <1>2

\* Rows keep their owner, and a cancelled order stays cancelled.
RowsKept ==
  \A o \in Orders :
    /\ orders'[o].tenant = orders[o].tenant
    /\ orders'[o].user = orders[o].user
    /\ orders[o].status = "cancelled" => orders'[o].status = "cancelled"

\* A request that does not move is not affected by what happens to rows.
LEMMA OtherRequest ==
  ASSUME TypeOK, NEW q \in Requests, RequestInv(q), RowsKept,
         pc'[q] = pc[q], context'[q] = context[q], updating'[q] = updating[q],
         response'[q] = response[q], q \in verified' <=> q \in verified,
         q \in cancelled_by' <=> q \in cancelled_by
  PROVE  RequestInv(q)'
<1>1. pc[q] # "idle" => Order(q) \in Orders /\ Order(q)' = Order(q)
  BY DEF RequestInv, TypeOK, Contexts, Order
<1>2. CASE pc[q] = "idle"
  BY <1>2 DEF RequestInv, Refusals
<1>3. CASE pc[q] # "idle"
  BY <1>1, <1>3 DEF RequestInv, RowsKept, Refusals
<1> QED
  BY <1>2, <1>3

LEMMA EffectType ==
  ASSUME TypeOK, NEW r \in Requests, context[r] # Absent, Effect(r)
  PROVE  /\ orders' \in [Orders -> OrderRows]
         /\ cancelled_by' \subseteq Requests /\ overtaken' \subseteq Requests
         /\ RowsKept /\ orders'[Order(r)].status = "cancelled"
         /\ Order(r) \in Orders
<1>1. Order(r) \in Orders
  BY DEF TypeOK, Contexts, Order
<1>2. orders' = [orders EXCEPT ![Order(r)] = [orders[Order(r)] EXCEPT !.status = "cancelled"]]
  BY DEF Effect
<1>3. [orders[Order(r)] EXCEPT !.status = "cancelled"] \in OrderRows
  BY <1>1 DEF TypeOK, OrderRows, Statuses
<1> QED
  BY <1>1, <1>2, <1>3 DEF TypeOK, OrderRows, RowsKept, Effect, Pending

LEMMA CancelType ==
  ASSUME TypeOK, PlaceInv, NEW r \in Requests, Cancel(r)
  PROVE  TypeOK' /\ RowsKept
<1> USE DEF Goto, Answer, InFlight, Refusals
<1>1. ASSUME NEW c \in Contexts, Receive(r, c) PROVE TypeOK' /\ RowsKept
  BY <1>1 DEF Receive, TypeOK, RowsKept
<1>2. CASE Lookup(r)
  BY <1>2 DEF Lookup, TypeOK, RowsKept
<1>3. CASE Challenge(r)
  BY <1>3 DEF Challenge, TypeOK, RowsKept
<1>4. CASE Mutate(r)
  BY <1>4 DEF Mutate, TypeOK, RowsKept
<1>5. CASE Commit(r)
  <2>1. context[r] # Absent
    BY <1>5 DEF Commit, PlaceInv
  <2> QED
    BY <1>5, <2>1, EffectType DEF Commit, TypeOK
<1>6. CASE CommitFails(r)
  <2>1. context[r] # Absent
    BY <1>6 DEF CommitFails, PlaceInv
  <2>2. CASE Effect(r)
    BY <1>6, <2>1, <2>2, EffectType DEF CommitFails, TypeOK
  <2>3. CASE UNCHANGED <<orders, cancelled_by, overtaken>>
    BY <1>6, <2>3 DEF CommitFails, TypeOK, RowsKept
  <2> QED
    BY <1>6, <2>2, <2>3 DEF CommitFails
<1>7. CASE StatementFails(r)
  BY <1>7 DEF StatementFails, TypeOK, RowsKept
<1>8. CASE Rollback(r)
  BY <1>8 DEF Rollback, TypeOK, RowsKept
<1>9. CASE ProcessDies(r)
  BY <1>9 DEF ProcessDies, TypeOK, RowsKept
<1> QED
  BY <1>1, <1>2, <1>3, <1>4, <1>5, <1>6, <1>7, <1>8, <1>9 DEF Cancel

\* The request that moves.
LEMMA OwnStep ==
  ASSUME TypeOK, TypeOK', RowsKept, NEW r \in Requests, RequestInv(r), Cancel(r)
  PROVE  RequestInv(r)'
<1> USE DEF Goto, Answer, InFlight, Refusals
<1>1. ASSUME NEW c \in Contexts, Receive(r, c) PROVE RequestInv(r)'
  <2>1. /\ context'[r] # Absent /\ pc'[r] \in {"lookup", "done"}
        /\ response'[r] \in {"none", "tenant_isolation", "authorization"}
        /\ pc'[r] = "lookup" => response'[r] = "none"
        /\ r \notin cancelled_by' /\ ~updating'[r]
    BY <1>1 DEF Receive, TypeOK, RequestInv
  <2> QED
    BY <2>1 DEF RequestInv
<1>2. CASE Lookup(r)
  BY <1>2 DEF Lookup, Target, TypeOK, RequestInv, Order
<1>3. CASE Challenge(r)
  BY <1>3 DEF Challenge, TypeOK, RequestInv, Order
<1>4. CASE Mutate(r)
  BY <1>4 DEF Mutate, TypeOK, RequestInv, Order
<1>5. CASE Commit(r)
  <2>1. context[r] # Absent /\ Effect(r) /\ context' = context
    BY <1>5 DEF Commit, RequestInv
  <2>2. Order(r)' = Order(r) /\ Order(r) \in Orders /\ orders'[Order(r)].status = "cancelled"
    BY <2>1, EffectType DEF Order
  <2> QED
    BY <1>5, <2>1, <2>2 DEF Commit, Effect, TypeOK, RequestInv, RowsKept
<1>6. CASE CommitFails(r)
  <2>1. context[r] # Absent /\ context' = context
    BY <1>6 DEF CommitFails, RequestInv
  <2>2. CASE Effect(r)
    <3>1. Order(r)' = Order(r) /\ Order(r) \in Orders /\ orders'[Order(r)].status = "cancelled"
      BY <2>1, <2>2, EffectType DEF Order
    <3> QED
      BY <1>6, <2>1, <2>2, <3>1 DEF CommitFails, Effect, TypeOK, RequestInv, RowsKept
  <2>3. CASE UNCHANGED <<orders, cancelled_by, overtaken>>
    BY <1>6, <2>1, <2>3 DEF CommitFails, TypeOK, RequestInv
  <2> QED
    BY <1>6, <2>2, <2>3 DEF CommitFails
<1>7. CASE StatementFails(r)
  BY <1>7 DEF StatementFails, TypeOK, RequestInv, Order
<1>8. CASE Rollback(r)
  BY <1>8 DEF Rollback, TypeOK, RequestInv, Order
<1>9. CASE ProcessDies(r)
  BY <1>9 DEF ProcessDies, TypeOK, RequestInv, Order
<1> QED
  BY <1>1, <1>2, <1>3, <1>4, <1>5, <1>6, <1>7, <1>8, <1>9 DEF Cancel

\* The request that moves touches nothing of another.
LEMMA OthersKept ==
  ASSUME TypeOK, NEW r \in Requests, Cancel(r), NEW q \in Requests, q # r
  PROVE  /\ pc'[q] = pc[q] /\ context'[q] = context[q] /\ updating'[q] = updating[q]
         /\ response'[q] = response[q]
         /\ (q \in verified' <=> q \in verified)
         /\ (q \in cancelled_by' <=> q \in cancelled_by)
  BY DEF TypeOK, Cancel, Receive, Lookup, Challenge, Mutate, Commit, CommitFails, Effect,
         StatementFails, Rollback, ProcessDies, Goto, Answer

\* Fulfilment and soft deletion keep owners and never revive an order.
LEMMA WorldStep ==
  ASSUME TypeOK, (\E o \in Orders : Fulfil(o) \/ SoftDelete(o)) \/ Tick
  PROVE  TypeOK' /\ RowsKept /\ UNCHANGED <<pc, context, updating, response, verified, cancelled_by>>
<1>1. CASE Tick
  BY <1>1 DEF Tick, TypeOK, RowsKept
<1>2. ASSUME NEW o \in Orders, NEW from \in Statuses \ {"cancelled"}, NEW to \in Statuses,
             Advance(o, from, to)
      PROVE  orders' \in [Orders -> OrderRows] /\ RowsKept
  <2>1. orders' = [orders EXCEPT ![o] = [orders[o] EXCEPT !.status = to]]
    BY <1>2 DEF Advance
  <2>2. [orders[o] EXCEPT !.status = to] \in OrderRows
    BY DEF TypeOK, OrderRows
  <2> QED
    BY <1>2, <2>1, <2>2 DEF Advance, TypeOK, RowsKept, OrderRows
<1>3. ASSUME NEW o \in Orders, Fulfil(o)
      PROVE  TypeOK' /\ RowsKept /\ UNCHANGED <<pc, context, updating, response, verified, cancelled_by>>
  <2>1. orders' \in [Orders -> OrderRows] /\ RowsKept
    BY <1>2, <1>3 DEF Fulfil, Statuses
  <2>2. overtaken' \subseteq Requests
    BY <1>3 DEF Fulfil, Advance, Pending, TypeOK
  <2> QED
    BY <1>3, <2>1, <2>2 DEF Fulfil, TypeOK
<1>4. ASSUME NEW o \in Orders, SoftDelete(o)
      PROVE  TypeOK' /\ RowsKept /\ UNCHANGED <<pc, context, updating, response, verified, cancelled_by>>
  <2>1. orders' = [orders EXCEPT ![o] = [orders[o] EXCEPT !.deleted = TRUE]]
    BY <1>4 DEF SoftDelete
  <2>2. [orders[o] EXCEPT !.deleted = TRUE] \in OrderRows
    BY DEF TypeOK, OrderRows
  <2> QED
    BY <1>4, <2>1, <2>2 DEF SoftDelete, TypeOK, RowsKept, OrderRows
<1> QED
  BY <1>1, <1>3, <1>4

-----------------------------------------------------------------------------
(* What was validated still holds unless the request has been overtaken *)

Waiting == {"challenge", "mutate", "commit"}

\* A request that stays where it is, and whose order or clock has moved, is
\* overtaken.
LEMMA OtherWaits ==
  ASSUME TypeOK, Placed, WaitInv, NEW q \in Requests,
         pc'[q] = pc[q], context'[q] = context[q], overtaken \subseteq overtaken',
         q \notin overtaken', pc'[q] \in Waiting,
         q \in overtaken' \/ (clock' = clock /\
            orders'[Order(q)].status = orders[Order(q)].status /\
            orders'[Order(q)].cancellable_until = orders[Order(q)].cancellable_until)
  PROVE  Cancellable(orders[Order(q)])'
<1>1. Cancellable(orders[Order(q)])
  BY DEF WaitInv, Waiting
<1> QED
  BY <1>1 DEF Cancellable, Order

\* The commit of r overtakes all the others that wait for its order.
LEMMA EffectOvertakes ==
  ASSUME TypeOK, Placed, NEW r \in Requests, context[r] # Absent, Effect(r),
         NEW q \in Requests, q # r, pc[q] \in Waiting
  PROVE  /\ overtaken \subseteq overtaken'
         /\ q \in overtaken' \/ orders'[Order(q)] = orders[Order(q)]
<1>1. pc[q] \in InFlight /\ context[q] # Absent
  BY DEF Placed, PlaceInv, Waiting, InFlight
<1>2. Order(q) \in Orders /\ Order(r) \in Orders
  BY <1>1 DEF TypeOK, Contexts, Order
<1>3. CASE Order(q) = Order(r)
  BY <1>1, <1>3 DEF Effect, Pending
<1>4. CASE Order(q) # Order(r)
  BY <1>2, <1>4 DEF Effect, TypeOK
<1> QED
  BY <1>3, <1>4 DEF Effect

LEMMA CancelWaits ==
  ASSUME TypeOK, Placed, WaitInv, NEW r \in Requests, Cancel(r)
  PROVE  WaitInv'
<1> SUFFICES ASSUME NEW q \in Requests, q \notin overtaken', pc'[q] \in Waiting
             PROVE  Cancellable(orders[Order(q)])'
  BY DEF WaitInv, Waiting
<1> USE DEF Goto
<1>1. CASE q = r
  <2>1. UNCHANGED <<orders, clock, context, overtaken>>
    BY <1>1 DEF Cancel, Receive, Lookup, Challenge, Mutate, Commit, CommitFails, StatementFails,
                Rollback, ProcessDies, TypeOK, Waiting
  <2>2. CASE Lookup(r)
    BY <1>1, <2>1, <2>2 DEF Lookup, TypeOK, Cancellable, Order, Waiting
  <2>3. CASE Challenge(r) \/ Mutate(r)
    BY <1>1, <2>1, <2>3 DEF Challenge, Mutate, WaitInv, Cancellable, Order
  <2>4. Lookup(r) \/ Challenge(r) \/ Mutate(r)
    BY <1>1 DEF Cancel, Receive, Commit, CommitFails, StatementFails, Rollback, ProcessDies,
                TypeOK, Waiting
  <2> QED
    BY <2>2, <2>3, <2>4
<1>2. CASE q # r
  <2>1. pc'[q] = pc[q] /\ context'[q] = context[q] /\ clock' = clock
    BY <1>2, OthersKept DEF Cancel, Receive, Lookup, Challenge, Mutate, Commit, CommitFails,
                            StatementFails, Rollback, ProcessDies
  <2>2. \/ UNCHANGED <<orders, overtaken>>
        \/ context[r] # Absent /\ Effect(r)
    BY DEF Cancel, Receive, Lookup, Challenge, Mutate, Commit, CommitFails,
           StatementFails, Rollback, ProcessDies, Placed, PlaceInv
  <2>3. CASE UNCHANGED <<orders, overtaken>>
    BY <2>1, <2>3, OtherWaits
  <2>4. CASE context[r] # Absent /\ Effect(r)
    BY <1>2, <2>1, <2>4, EffectOvertakes, OtherWaits
  <2> QED
    BY <2>2, <2>3, <2>4
<1> QED
  BY <1>1, <1>2

LEMMA WorldWaits ==
  ASSUME TypeOK, Placed, WaitInv, (\E o \in Orders : Fulfil(o) \/ SoftDelete(o)) \/ Tick
  PROVE  WaitInv' /\ overtaken \subseteq overtaken'
<1>1. overtaken \subseteq overtaken' /\ UNCHANGED <<pc, context>>
  BY DEF Fulfil, Advance, SoftDelete, Tick
<1> SUFFICES ASSUME NEW q \in Requests, q \notin overtaken', pc'[q] \in Waiting
             PROVE  Cancellable(orders[Order(q)])'
  BY <1>1 DEF WaitInv, Waiting
<1>2. pc[q] \in InFlight /\ Order(q) \in Orders
  <2>1. pc[q] \in InFlight /\ context[q] # Absent
    BY <1>1 DEF Placed, PlaceInv, Waiting, InFlight
  <2> QED
    BY <2>1 DEF TypeOK, Contexts, Order
<1>3. CASE Tick
  BY <1>2, <1>3 DEF Tick
<1>4. ASSUME NEW o \in Orders, Fulfil(o) PROVE Cancellable(orders[Order(q)])'
  <2>1. Order(q) # o
    BY <1>1, <1>2, <1>4 DEF Fulfil, Advance, Pending
  <2>2. orders'[Order(q)] = orders[Order(q)] /\ clock' = clock
    BY <1>2, <1>4, <2>1 DEF Fulfil, Advance, TypeOK
  <2> QED
    BY <1>1, <2>2, OtherWaits
<1>5. ASSUME NEW o \in Orders, SoftDelete(o) PROVE Cancellable(orders[Order(q)])'
  <2>1. orders' = [orders EXCEPT ![o] = [orders[o] EXCEPT !.deleted = TRUE]] /\ clock' = clock
    BY <1>5 DEF SoftDelete
  <2>2. /\ orders'[Order(q)].status = orders[Order(q)].status
        /\ orders'[Order(q)].cancellable_until = orders[Order(q)].cancellable_until
    BY <1>2, <2>1 DEF TypeOK, OrderRows
  <2> QED
    BY <1>1, <2>1, <2>2, OtherWaits
<1> QED
  BY <1>1, <1>3, <1>4, <1>5

\* A request is told "cancelled" at its commit.  Had another been told so for
\* the same order, the status would have been "cancelled" before.
LEMMA CancelOnce ==
  ASSUME TypeOK, Placed, WaitInv, CancelledOnceAlone, NEW r \in Requests, Cancel(r)
  PROVE  CancelledOnceAlone'
<1>1. overtaken \subseteq overtaken'
  BY DEF Cancel, Receive, Lookup, Challenge, Mutate, Commit, CommitFails, Effect,
         StatementFails, Rollback, ProcessDies
<1>2. CASE Commit(r)
  <2>1. ASSUME NEW q \in Requests, q # r, response[q] = "cancelled", Order(q) = Order(r)
        PROVE  r \in overtaken
    <3>1. orders[Order(r)].status = "cancelled"
      BY <2>1 DEF Placed, AnswerTrue
    <3>2. ~Cancellable(orders[Order(r)])
      BY <3>1 DEF Cancellable, CANCELLABLE_STATUSES
    <3> QED
      BY <1>2, <3>2 DEF WaitInv, Commit
  <2>2. context' = context /\ \A q \in Requests \ {r} : response'[q] = response[q]
    BY <1>2 DEF Commit, Answer, TypeOK
  <2> QED
    BY <1>1, <2>1, <2>2 DEF CancelledOnceAlone, BothCancelled, Order
<1>3. CASE ~Commit(r)
  <2>1. response'[r] # "cancelled" \/ UNCHANGED <<response, context>>
    BY <1>3 DEF Cancel, Receive, Lookup, Challenge, Mutate, CommitFails, StatementFails,
                Rollback, ProcessDies, Answer, TypeOK, Placed, PlaceInv
  <2>2. \A q \in Requests \ {r} : response'[q] = response[q] /\ context'[q] = context[q]
    BY OthersKept
  <2> QED
    BY <1>1, <2>1, <2>2 DEF CancelledOnceAlone, BothCancelled, Order
<1> QED
  BY <1>2, <1>3

-----------------------------------------------------------------------------
(* Theorems *)

\* The invariant holds in every behaviour of the cancellations.
THEOREM InvHolds == Spec => []IInv
<1>1. Init => IInv
  <2> SUFFICES ASSUME Init PROVE IInv
    OBVIOUS
  <2>1. TypeOK
    BY DEF Init, TypeOK
  <2>2. \A r \in Requests : RequestInv(r)
    BY DEF Init, RequestInv, Refusals
  <2>3. WaitInv /\ CancelledOnceAlone
    BY DEF Init, WaitInv, CancelledOnceAlone, BothCancelled
  <2> QED
    BY <2>1, <2>2, <2>3, PerRequest DEF IInv, Placed
<1>2. IInv /\ [Next]_vars => IInv'
  <2> SUFFICES ASSUME IInv, [Next]_vars PROVE IInv'
    OBVIOUS
  <2>1. TypeOK /\ PlaceInv /\ Placed /\ \A q \in Requests : RequestInv(q)
    BY PerRequest DEF IInv, Placed
  <2>2. ASSUME NEW r \in Requests, Cancel(r) PROVE TypeOK' /\ \A q \in Requests : RequestInv(q)'
    <3>1. TypeOK' /\ RowsKept
      BY <2>1, <2>2, CancelType
    <3>2. RequestInv(r)'
      BY <2>1, <2>2, <3>1, OwnStep
    <3>3. ASSUME NEW q \in Requests, q # r PROVE RequestInv(q)'
      BY <2>1, <2>2, <3>1, <3>3, OthersKept, OtherRequest
    <3> QED
      BY <3>1, <3>2, <3>3
  <2>3. ASSUME (\E o \in Orders : Fulfil(o) \/ SoftDelete(o)) \/ Tick
        PROVE  /\ TypeOK' /\ \A q \in Requests : RequestInv(q)'
               /\ UNCHANGED <<context, response>>
    <3>1. TypeOK' /\ RowsKept /\ UNCHANGED <<pc, context, updating, response, verified, cancelled_by>>
      BY <2>1, <2>3, WorldStep
    <3>2. ASSUME NEW q \in Requests PROVE RequestInv(q)'
      BY <2>1, <3>1, OtherRequest
    <3> QED
      BY <3>1, <3>2
  <2>4. CASE UNCHANGED vars
    BY <2>4 DEF vars, IInv, TypeOK, PlaceInv, CancelledByOwner, AnswerTrue, Order, WaitInv,
                CancelledOnceAlone, BothCancelled, Cancellable
  <2>5. ASSUME TypeOK', \A q \in Requests : RequestInv(q)' PROVE Placed'
    <3>1. PlaceInv'
      BY <2>5 DEF PlaceInv, RequestInv
    <3>2. CancelledByOwner'
      BY <2>5 DEF CancelledByOwner, RequestInv, TypeOK
    <3>3. AnswerTrue'
      BY <2>5 DEF AnswerTrue, RequestInv
    <3> QED
      BY <3>1, <3>2, <3>3 DEF Placed
  <2>6. ASSUME NEW r \in Requests, Cancel(r) PROVE IInv'
    BY <2>1, <2>2, <2>5, <2>6, CancelWaits, CancelOnce DEF IInv, Placed
  <2>7. ASSUME (\E o \in Orders : Fulfil(o) \/ SoftDelete(o)) \/ Tick PROVE IInv'
    <3>1. CancelledOnceAlone'
      BY <2>1, <2>3, <2>7, WorldWaits DEF IInv, CancelledOnceAlone, BothCancelled, Order
    <3> QED
      BY <2>1, <2>3, <2>5, <2>7, <3>1, WorldWaits DEF IInv, Placed
  <2> QED
    BY <2>4, <2>6, <2>7 DEF Next
<1> QED
  BY <1>1, <1>2, PTL DEF Spec

\* An order that is too late to cancel, by its status or by its window, is not
\* cancelled unless it became so while the request waited.
THEOREM CancelledInTimeAloneHolds == Spec => CancelledInTimeAlone
<1>1. IInv /\ [Next]_vars =>
        [\A r \in Requests :
           updating'[r] /\ ~updating[r] /\ TooLate(orders[Order(r)]) => r \in overtaken]_vars
  <2> SUFFICES ASSUME IInv, Next, NEW r \in Requests, updating'[r], ~updating[r]
               PROVE  TooLate(orders[Order(r)]) => r \in overtaken
    BY DEF vars
  <2>1. pc[r] = "mutate"
    <3>1. ASSUME NEW q \in Requests, Cancel(q) PROVE pc[r] = "mutate"
      BY <3>1 DEF Cancel, Receive, Lookup, Challenge, Mutate, Commit, CommitFails,
                  StatementFails, Rollback, ProcessDies, IInv, TypeOK
    <3> QED
      BY <3>1 DEF Next, Fulfil, SoftDelete, Tick
  <2>2. r \notin overtaken => Cancellable(orders[Order(r)])
    BY <2>1 DEF IInv, WaitInv
  <2>3. orders[Order(r)].status \in Statuses /\ orders[Order(r)].cancellable_until \in Nat \cup {NoLimit}
        /\ clock \in Nat
    BY <2>1 DEF IInv, TypeOK, PlaceInv, OrderRows, Contexts, Order
  <2> QED
    BY <2>2, <2>3 DEF Cancellable, CANCELLABLE_STATUSES, TooLate
<1> QED
  BY <1>1, InvHolds, PTL DEF Spec, CancelledInTimeAlone

\* Of two requests that are told they have cancelled an order, one was
\* overtaken: two cancellations that do not overlap cannot both succeed.
THEOREM CancelledOnceAloneHolds == Spec => []CancelledOnceAlone
<1>1. IInv => CancelledOnceAlone
  BY DEF IInv
<1> QED
  BY <1>1, InvHolds, PTL

\* Only the owner, in the order's tenant and with a challenge passed, cancels.
THEOREM CancelledByOwnerHolds == Spec => []CancelledByOwner
<1>1. IInv => CancelledByOwner
  BY DEF IInv
<1> QED
  BY <1>1, InvHolds, PTL

\* What the caller is told is what has become of the order.
THEOREM AnswerTrueHolds == Spec => []AnswerTrue
<1>1. IInv => AnswerTrue
  BY DEF IInv
<1> QED
  BY <1>1, InvHolds, PTL
=============================================================================
