------------------------------- MODULE OrderSync -------------------------------
(***************************************************************************)
(* The life of an rsitrade buy and of the sells it leads to: the polling   *)
(* loop of src/src/core/order_sync.py, the requests the manager sends to   *)
(* src/src/internal_api.py while the loop is running, and the exchange.    *)
(*                                                                         *)
(* The bot is one asyncio program: a coroutine runs undisturbed from one   *)
(* await to the next, so an action is a stretch of code between two        *)
(* awaits.  There are two coroutines, the loop and a request (`Actors`);   *)
(* what a coroutine keeps across an await is in its job.                   *)
(*                                                                         *)
(* A coroutine holds the dict of an order, not its uuid, across awaits: it *)
(* sees what others write to the dict until a reload puts a new dict in    *)
(* the list, and from then on it reads a stale one.  Dicts therefore have  *)
(* an identity, and `mem` maps uuids to dicts and dicts to their contents. *)
(*                                                                         *)
(* One user, one ticker and one exchange: the orders are the buy, the      *)
(* sells placed for it and the orders these are replaced by.  The table    *)
(* follows the memory at once (OrderStore models how it comes to).         *)
(***************************************************************************)
EXTENDS Integers, FiniteSets, FiniteSetsExt, Functions

CONSTANTS
    Volume,        \* what the buy asks for
    FailLimit,     \* _STATUS_CHECK_FAIL_LIMIT and _REORDER_FAIL_LIMIT
    StopRetries,   \* _STOPLOSS_PLACE_RETRIES
    Lossy,         \* whether the exchange's answer to a call may get lost
    Requests,      \* the requests the manager makes: a subset of {"cancel", "sync", "status"}
    MaxOrders,     \* bound: orders placed at the exchange
    MaxRequests,   \* bound: requests of the manager
    MaxCrashes     \* bound: restarts of the bot

ASSUME SyncAssumption ==
    /\ Volume \in Nat \ {0} /\ FailLimit \in Nat \ {0} /\ StopRetries \in Nat \ {0}
    /\ Lossy \in BOOLEAN /\ Requests \subseteq {"cancel", "sync", "status"}
    /\ MaxOrders \in Nat \ {0} /\ MaxRequests \in Nat /\ MaxCrashes \in Nat

VARIABLES
    ex,         \* the exchange: uuid -> its order
    mem,        \* OrderManager: uuid -> dict, dict -> entry
    loop,       \* the sync_orders or startup_recovery call: the dicts still to visit
    job,        \* actor -> what it does with one order and is in the middle of
    fails,      \* _status_check_failures and _reorder_failures: uuid -> failures in a row
    log,        \* the trade log: actor, uuid -> volume it has logged
    reserving,  \* supports_reserved_orders of the exchange; never changes
    crashes,    \* restarts so far
    requests,   \* requests so far
    source,     \* history: uuid of a linked sell -> the buy it was placed for
    waived,     \* history: <<buy, reason>> where the code stops to look for its fills
    orphaned,   \* history: orders the bot lost or let go of, each where it does so
    raced       \* history: entries and orders no longer match one to one (see Replaced)

vars == <<ex, mem, loop, job, fails, log, reserving, crashes, requests,
          source, waived, orphaned, raced>>
hist == <<source, waived, orphaned, raced>>
bounds == <<reserving, crashes, requests>>

Actors == {"loop", "api"}
Reserved == 0                  \* the uuid "reserved:..." of an order not yet placed
Uuids == 1..MaxOrders
AnyUuid == {Reserved} \cup Uuids
NoBuy == -1                    \* not a linked sell
Dicts == 1..(2 * MaxOrders + 4)
NoDict == 0

Kinds == {"buy", "sell", "stop"}
    \* strategies "rsitrade" with linked_to, "rsitrade_sell" with stop_price, "stoploss"
Statuses == {"placed", "waiting", "cancel_requested"}
    \* waiting: "reserved" and "pending_reorder"; placed: all others
Entries == [uuid: AnyUuid, kind: Kinds, vol: 0..Volume, filled: 0..Volume,
            status: Statuses, of: {NoBuy} \cup AnyUuid]

Side(kind) == IF kind = "buy" THEN "bid" ELSE "ask"
IsStrategy(e) == e.kind \in {"buy", "sell"}
Reorders(e) == reserving /\ IsStrategy(e)
Max2(a, b) == IF a >= b THEN a ELSE b

-----------------------------------------------------------------------------
(* The exchange *)

Unplaced == [state |-> "none", side |-> "bid", vol |-> 0, exec |-> 0]
NewOrder(side, vol) == [state |-> "wait", side |-> side, vol |-> vol, exec |-> 0]
Room == \E u \in Uuids : ex[u].state = "none"
NextUuid == CHOOSE u \in Uuids : ex[u].state = "none"
Live(u) == u \in Uuids /\ ex[u].state = "wait"

\* What get_order_status says of an order; a call that fails answers nothing.
NoAnswer == [state |-> "none", exec |-> 0]
Answer(u) ==
    IF u = Reserved \/ ex[u].state = "none" THEN NoAnswer
    ELSE [state |-> IF ex[u].state = "wait" /\ ex[u].exec > 0 THEN "partial" ELSE ex[u].state,
          exec |-> ex[u].exec]
Answers(u) == {NoAnswer, Answer(u)}

FillSome(u) ==
    /\ Live(u)
    /\ ex' = [ex EXCEPT ![u].exec = @ + 1,
                        ![u].state = IF ex[u].exec + 1 = ex[u].vol THEN "done" ELSE "wait"]
    /\ UNCHANGED <<mem, loop, job, fails, log, bounds, hist>>

\* The user cancels the order at the exchange, or it expires with the session.
CancelledThere(u) ==
    /\ Live(u)
    /\ ex' = [ex EXCEPT ![u].state = "cancel"]
    /\ UNCHANGED <<mem, loop, job, fails, log, bounds, hist>>

-----------------------------------------------------------------------------
(* OrderManager: every call names an order by its uuid *)

Put(f, k, v) == [x \in DOMAIN f \cup {k} |-> IF x = k THEN v ELSE f[x]]
Has(m, u) == u \in DOMAIN m.index
At(m, u) == m.obj[m.index[u]]
FreeDict(m, k) ==
    LET free == Dicts \ DOMAIN m.obj
    IN CHOOSE d \in free : Cardinality({f \in free : f <= d}) = k

Rewritten(m, d, e) == [index |-> m.index, obj |-> [m.obj EXCEPT ![d] = e]]
UpdateFill(m, u, v) ==
    IF Has(m, u) THEN Rewritten(m, m.index[u], [At(m, u) EXCEPT !.filled = v, !.status = "placed"]) ELSE m
UpdateStatus(m, u, s) ==
    IF Has(m, u) THEN Rewritten(m, m.index[u], [At(m, u) EXCEPT !.status = s]) ELSE m
RemoveOrder(m, u) == [index |-> Restrict(m.index, DOMAIN m.index \ {u}), obj |-> m.obj]
AddOrder(m, e) ==
    LET d == FreeDict(m, 1)
    IN [index |-> Put(m.index, e.uuid, d), obj |-> Put(m.obj, d, e)]

\* The row of an order that already has the new uuid is overwritten: one entry is left.
ReplaceUuid(m, old, new) ==
    IF ~Has(m, old) THEN m
    ELSE LET d == m.index[old]
         IN [index |-> Put(Restrict(m.index, DOMAIN m.index \ {old}), new, d),
             obj |-> [m.obj EXCEPT ![d] = [@ EXCEPT !.uuid = new, !.of = old, !.status = "placed"]]]

\* A reload puts new dicts in the list.  A dict that no coroutine holds may
\* keep its identity, for nobody can tell.  Cancel requests the manager has
\* written to the table are read in.
Reload(m, held, asked) ==
    LET cut == {u \in DOMAIN m.index : m.index[u] \in held}
        new == [u \in DOMAIN m.index |->
                   IF u \in cut THEN FreeDict(m, Cardinality({v \in cut : v <= u})) ELSE m.index[u]]
        row(u) == IF u \in asked THEN [At(m, u) EXCEPT !.status = "cancel_requested"] ELSE At(m, u)
        read(d) == row(CHOOSE u \in DOMAIN new : new[u] = d)
    IN [index |-> new,
        obj |-> [d \in DOMAIN m.obj \cup Range(new) |-> IF d \in Range(new) THEN read(d) ELSE m.obj[d]]]

\* The dicts the coroutines hold; all others are garbage once off the list.
Held == loop.todo \cup loop.asked \cup DOMAIN loop.answers \cup {job[a].ref : a \in Actors}
Memory(m) ==
    mem' = [index |-> m.index, obj |-> Restrict(m.obj, DOMAIN m.obj \cap (Held' \cup Range(m.index)))]

LinkedSells(m, b) == {u \in DOMAIN m.index : At(m, u).kind = "sell" /\ At(m, u).of = b}
LinkedVolume(m, b) == MapThenSumSet(LAMBDA u : At(m, u).vol, LinkedSells(m, b))

-----------------------------------------------------------------------------
(* What a coroutine is doing *)

NothingToDo(phase) == [phase |-> phase, todo |-> {}, asked |-> {}, answers |-> <<>>]
NoJob == [pc |-> "free", ref |-> NoDict, ans |-> NoAnswer, n |-> 0, tries |-> 0,
          u |-> Reserved, own |-> Reserved, hit |-> Reserved]
Free(a) == job[a].pc = "free"
Idle == Free("loop") /\ loop.todo = {} /\ loop.asked = {} /\ DOMAIN loop.answers = {}
Ord(a) == mem.obj[job[a].ref]
Finish(a) == job' = [job EXCEPT ![a] = NoJob]
Await(a, pc, d, ans, n) ==
    job' = [job EXCEPT ![a] = [NoJob EXCEPT !.pc = pc, !.ref = d, !.ans = ans, !.n = n]]

\* Some keep the uuid they were called with, `u`; a cancel logs `n` for the uuid `own`.
AwaitWith(a, pc, d, n, u, own) ==
    job' = [job EXCEPT ![a] = [NoJob EXCEPT !.pc = pc, !.ref = d, !.n = n, !.u = u, !.own = own]]

\* A call of create_order or cancel_order reaches the exchange; `hit` is the
\* order it has made or cancelled.  Its caller goes on later, with the answer,
\* or with an error: when nothing was done, or when the answer got lost.  The
\* exchange takes no order of nothing.
Creating == {"sell", "create", "place"}
Cancelling == {"cancel", "stop"}
Reached(a) == job[a].hit # Reserved
Fails(a) == ~Reached(a) \/ Lossy
Lost(a) == IF job[a].pc \in Creating THEN {job[a].hit} \ {Reserved} ELSE {}
InFlight == UNION {Lost(a) : a \in Actors}

CreateArrives(a) ==
    /\ job[a].pc \in Creating /\ ~Reached(a) /\ job[a].n > 0 /\ Room
    /\ LET side == IF job[a].pc = "create" THEN Side(Ord(a).kind) ELSE "ask"
       IN ex' = [ex EXCEPT ![NextUuid] = NewOrder(side, job[a].n)]
    /\ job' = [job EXCEPT ![a].hit = NextUuid]
    /\ source' = IF job[a].pc = "sell" THEN [source EXCEPT ![NextUuid] = Ord(a).uuid] ELSE source
    /\ UNCHANGED <<mem, loop, fails, log, bounds, waived, orphaned, raced>>

CancelArrives(a) ==
    /\ job[a].pc \in Cancelling /\ ~Reached(a) /\ Live(job[a].u)
    /\ ex' = [ex EXCEPT ![job[a].u].state = "cancel"]
    /\ job' = [job EXCEPT ![a].hit = job[a].u]
    /\ UNCHANGED <<mem, loop, fails, log, bounds, hist>>

NoFails == [kind \in {"status", "reorder"} |-> [u \in AnyUuid |-> 0]]
NoneFailed(kind, u) == [fails EXCEPT ![kind][u] = 0]
\* Mutant: one failure more is allowed.
TooManyLate(kind, u) == fails[kind][u] + 1 > FailLimit
TooMany(kind, u) == fails[kind][u] + 1 >= FailLimit
OneMoreFailed(kind, u) == [fails EXCEPT ![kind][u] = IF TooMany(kind, u) THEN 0 ELSE @ + 1]

Init ==
    /\ reserving \in BOOLEAN
    /\ \E u \in {1} \cup (IF reserving THEN {Reserved} ELSE {}) :
          /\ ex = [v \in Uuids |-> IF v = u THEN NewOrder("bid", Volume) ELSE Unplaced]
          /\ mem = [index |-> [v \in {u} |-> 1],
                    obj |-> [d \in {1} |->
                       [uuid |-> u, kind |-> "buy", vol |-> Volume, filled |-> 0,
                        status |-> IF u = Reserved THEN "waiting" ELSE "placed",
                        of |-> NoBuy]]]
    /\ loop = NothingToDo("scan")
    /\ job = [a \in Actors |-> NoJob]
    /\ fails = NoFails
    /\ log = [a \in Actors |-> [u \in AnyUuid |-> 0]]
    /\ crashes = 0 /\ requests = 0
    /\ source = [u \in Uuids |-> NoBuy]
    /\ waived = {} /\ orphaned = {} /\ raced = FALSE

-----------------------------------------------------------------------------
(* The trade log: append_trade does not look whether the order is there *)

Logged(a, u, n) == [log EXCEPT ![a][u] = @ + n]
IsTradeLogged(u) == \E a \in Actors : log[a][u] > 0

-----------------------------------------------------------------------------
(* _process_order_fill, from the point where the sell, if any, is settled *)

\* The status is written when it differs from the one the dict shows.
NewStatus(m, e) == {m, UpdateStatus(m, e.uuid, "placed")}

\* Done: logged and removed.  Cancelled: kept for a new submission where the
\* exchange takes reserved orders, otherwise dropped after a message.
Settle(a, m, d, ans) ==
    LET e == m.obj[d]
    IN \/ /\ ans.state = "done"
          /\ log' = Logged(a, e.uuid, IF ans.exec > 0 THEN ans.exec ELSE e.filled)
          /\ Finish(a) /\ Memory(RemoveOrder(m, e.uuid))
       \/ /\ ans.state = "cancel" /\ Reorders(e)
          /\ Finish(a) /\ Memory(UpdateStatus(m, e.uuid, "waiting"))
          /\ UNCHANGED log
       \/ /\ ans.state = "cancel" /\ ~Reorders(e)
          /\ Await(a, "drop", d, ans, 0) /\ Memory(m)
          /\ UNCHANGED log
       \/ /\ ans.state \in {"wait", "partial"}
          /\ Finish(a)
          /\ \E told \in NewStatus(m, e) : Memory(told)
          /\ UNCHANGED log

\* Mutant: a buy whose sell failed is settled like any other.
KeepForRetrySettling(a, d, ans) == Settle(a, mem, d, ans)

\* A sell that could not be placed keeps its buy for the next cycle.
KeepForRetry(a, d, ans) ==
    LET e == mem.obj[d]
    IN /\ Finish(a)
       /\ \E told \in NewStatus(mem, e) : Memory(told)
       /\ UNCHANGED log

\* _process_order_fill up to its first await.
ProcessFill(a, d, ans) ==
    LET e == mem.obj[d]
        sold == LinkedVolume(mem, e.uuid)
        told == UpdateFill(mem, e.uuid, ans.exec)
    IN \/ /\ ans.exec > e.filled /\ e.kind = "buy" /\ sold < ans.exec
          /\ Await(a, "sell", d, ans, ans.exec - sold) /\ Memory(mem)
          /\ UNCHANGED log
       \/ /\ ans.exec > e.filled /\ e.kind = "buy" /\ sold >= ans.exec
          /\ Settle(a, told, d, ans)
       \/ /\ ans.exec > e.filled /\ e.kind # "buy" /\ ans.state = "done"
          /\ Await(a, "settle", d, ans, 0) /\ Memory(told)
          /\ UNCHANGED log
       \/ /\ ans.exec > e.filled /\ e.kind # "buy" /\ ans.state # "done"
          /\ Settle(a, told, d, ans)
       \/ /\ ans.exec <= e.filled
          /\ Settle(a, mem, d, ans)

-----------------------------------------------------------------------------
(* _create_linked_sell_order from the price lookup on; only the loop calls it *)

\* After the sell, startup_recovery goes on to the next buy and sync_orders
\* settles this one.
SellDone(m) ==
    /\ IF loop.phase = "recover" THEN Finish("loop")
       ELSE Await("loop", "settle", job["loop"].ref, job["loop"].ans, 0)
    /\ Memory(m) /\ UNCHANGED log
SellPutOff ==
    IF loop.phase = "recover" THEN Finish("loop") /\ Memory(mem) /\ UNCHANGED log
    ELSE KeepForRetry("loop", job["loop"].ref, job["loop"].ans)

LinkedSell(u, vol, buy) ==
    [uuid |-> u, kind |-> "sell", vol |-> vol, filled |-> 0, status |-> "placed", of |-> buy]

\* Mutant: the fill is not written with the sell.
SellPlacedWithoutFill ==
    /\ UNCHANGED loop
    /\ job["loop"].pc = "sell" /\ Reached("loop")
    /\ LET u == job["loop"].hit
       IN /\ SellDone(AddOrder(mem, LinkedSell(u, job["loop"].n, Ord("loop").uuid)))
          /\ raced' = (raced \/ Has(mem, u))
    /\ UNCHANGED <<ex, fails, bounds, source, waived, orphaned>>

SellPlaced ==
    /\ UNCHANGED loop
    /\ job["loop"].pc = "sell" /\ Reached("loop")
    /\ LET b == Ord("loop").uuid
           u == job["loop"].hit
       IN /\ SellDone(UpdateFill(AddOrder(mem, LinkedSell(u, job["loop"].n, b)), b,
                                 job["loop"].ans.exec))
          /\ raced' = (raced \/ Has(mem, u))
    /\ UNCHANGED <<ex, fails, bounds, source, waived, orphaned>>

\* No price, or an order that was not accepted while the balance suffices.
SellFails ==
    /\ UNCHANGED loop
    /\ job["loop"].pc = "sell" /\ Fails("loop")
    /\ orphaned' = orphaned \cup Lost("loop")
    /\ SellPutOff
    /\ UNCHANGED <<ex, fails, bounds, source, waived, raced>>

\* The balance is smaller than the sell: the coins are taken to be sold elsewhere.
SellSkipped ==
    /\ UNCHANGED loop
    /\ job["loop"].pc = "sell" /\ Fails("loop")
    /\ orphaned' = orphaned \cup Lost("loop")
    /\ waived' = waived \cup {<<Ord("loop").uuid, "sold elsewhere">>}
    /\ LET told == UpdateFill(mem, Ord("loop").uuid, job["loop"].ans.exec)
       IN \/ SellDone(told)
          \/ Finish("loop") /\ Memory(told) /\ UNCHANGED log   \* the message fails: "failed"
    /\ UNCHANGED <<ex, fails, bounds, source, raced>>

\* The message is sent; the order is logged and removed, put back or dropped.
SettleOrder ==
    /\ UNCHANGED loop
    /\ job["loop"].pc = "settle"
    /\ Settle("loop", mem, job["loop"].ref, job["loop"].ans)
    /\ UNCHANGED <<ex, fails, bounds, hist>>

DropOrder ==
    /\ UNCHANGED loop
    /\ job["loop"].pc = "drop"
    /\ Finish("loop") /\ Memory(RemoveOrder(mem, Ord("loop").uuid))
    /\ UNCHANGED <<ex, fails, log, bounds, hist>>

\* A message that cannot be sent raises out of sync_orders: the cycle is over.
\* The other messages are the last thing done about an order.
MessageFails ==
    /\ loop.phase = "scan" /\ job["loop"].pc \in {"settle", "drop", "free"} /\ ~Idle
    /\ loop' = NothingToDo("scan")
    /\ Finish("loop") /\ Memory(mem)
    /\ UNCHANGED <<ex, fails, log, bounds, hist>>

-----------------------------------------------------------------------------
(* _submit_reserved_or_reorder: the loop's and the sync request's *)

Waiting(e) == reserving /\ e.status = "waiting"
Remaining(e) == Max2(e.vol - e.filled, 0)

\* Nothing left to order: removed.  Trading halted, or no placement at this
\* hour: put off.  Otherwise the exchange is asked for its open orders.
Submit(a, d) ==
    LET e == mem.obj[d]
    IN \/ /\ Remaining(e) = 0
          /\ Finish(a) /\ Memory(RemoveOrder(mem, e.uuid))
       \/ /\ Remaining(e) > 0
          /\ Finish(a) /\ Memory(mem)
       \/ /\ Remaining(e) > 0
          /\ Await(a, "look", d, NoAnswer, Remaining(e)) /\ Memory(mem)

\* The entry goes on under the uuid `new` with the fill it had: a buy that has
\* filled in part will not see the fills that only make up for it.  When the
\* other coroutine has submitted or removed the order during the awaits, there
\* are two orders for one entry, or an order without one; when the order that is
\* adopted is another entry's, there are two entries for one order.
Overtaken(e) == ~Has(mem, e.uuid) \/ ~Waiting(At(mem, e.uuid))
Replaced(e, new) ==
    /\ waived' = waived \cup (IF e.kind = "buy" /\ Has(mem, e.uuid) /\ At(mem, e.uuid).filled > 0
                               THEN {<<new, "resubmitted">>} ELSE {})
    /\ raced' = (raced \/ (new # e.uuid /\ (Overtaken(e) \/ Has(mem, new))))
    /\ UNCHANGED <<source, orphaned>>

\* An open order with the same side, price and volume is taken to be this one.
AdoptOpenOrder(a) ==
    /\ UNCHANGED loop
    /\ job[a].pc = "look"
    /\ LET e == Ord(a)
       IN \E u \in {v \in Uuids : Live(v) /\ ex[v].side = Side(e.kind) /\ ex[v].vol = job[a].n} :
             /\ fails' = NoneFailed("reorder", e.uuid)
             /\ Replaced(e, u)
             /\ Finish(a) /\ Memory(ReplaceUuid(mem, e.uuid, u))
    /\ UNCHANGED <<ex, log, bounds>>

\* None is found, or the query fails.
NoOpenOrder(a) ==
    /\ job[a].pc = "look"
    /\ job' = [job EXCEPT ![a].pc = "create"]
    /\ UNCHANGED <<ex, mem, loop, fails, log, bounds, hist>>

OrderSubmitted(a) ==
    /\ UNCHANGED loop
    /\ job[a].pc = "create" /\ Reached(a)
    /\ LET e == Ord(a)
           u == job[a].hit
       IN /\ fails' = NoneFailed("reorder", e.uuid)
          /\ Replaced(e, u)
          /\ Finish(a) /\ Memory(ReplaceUuid(mem, e.uuid, u))
    /\ UNCHANGED <<ex, log, bounds>>

SubmitFails(a) ==
    /\ UNCHANGED loop
    /\ job[a].pc = "create" /\ Fails(a)
    /\ LET e == Ord(a)
           enough == TooMany("reorder", e.uuid)
       IN /\ orphaned' = orphaned \cup Lost(a)
          /\ raced' = (raced \/ (enough /\ Overtaken(e)))
          /\ fails' = OneMoreFailed("reorder", e.uuid)
          /\ Finish(a) /\ Memory(IF enough THEN RemoveOrder(mem, e.uuid) ELSE mem)
    /\ UNCHANGED <<ex, log, bounds, source, waived>>

-----------------------------------------------------------------------------
(* cancel_and_remove_order: of a request, and of a cancel the manager asked for *)

GiveUp(a) ==
    waived' = waived \cup (IF Ord(a).kind = "buy" THEN {<<job[a].u, "cancelled">>} ELSE {})

CancelAccepted(a) ==
    /\ UNCHANGED loop
    /\ job[a].pc = "cancel" /\ Reached(a)
    /\ log' = Logged(a, job[a].own, job[a].n)
    /\ GiveUp(a)
    /\ Finish(a) /\ Memory(RemoveOrder(mem, job[a].u))
    /\ UNCHANGED <<ex, fails, bounds, source, orphaned, raced>>

CancelFails(a) ==
    /\ job[a].pc = "cancel" /\ Fails(a)
    /\ job' = [job EXCEPT ![a].pc = "recheck"]
    /\ UNCHANGED <<ex, mem, loop, fails, log, bounds, hist>>

\* Mutant: a status query without an answer is taken for an order that is over.
RecheckUnanswered(a) ==
    /\ UNCHANGED loop
    /\ job[a].pc = "recheck"
    /\ \E ans \in Answers(job[a].u) :
          \/ /\ ans.state \in {"none", "done", "cancel"}
             /\ log' = Logged(a, job[a].own, job[a].n)
             /\ GiveUp(a)
             /\ Finish(a) /\ Memory(RemoveOrder(mem, job[a].u))
          \/ /\ ans.state \in {"wait", "partial"}
             /\ Finish(a) /\ Memory(mem)
             /\ UNCHANGED <<log, waived, raced>>
    /\ UNCHANGED <<ex, fails, bounds, source, orphaned, raced>>

\* An order that is over anyway is removed too.
Recheck(a) ==
    /\ UNCHANGED loop
    /\ job[a].pc = "recheck"
    /\ \E ans \in Answers(job[a].u) :
          \/ /\ ans.state \in {"done", "cancel"}
             /\ log' = Logged(a, job[a].own, job[a].n)
             /\ GiveUp(a)
             /\ Finish(a) /\ Memory(RemoveOrder(mem, job[a].u))
          \/ /\ ans.state \notin {"done", "cancel"}
             /\ Finish(a) /\ Memory(mem)
             /\ UNCHANGED <<log, waived, raced>>
    /\ UNCHANGED <<ex, fails, bounds, source, orphaned, raced>>

\* Mutant: an order that is done is logged and removed at once.
AskBeforeCancelAtOnce ==
    /\ UNCHANGED loop
    /\ job["loop"].pc = "ask"
    /\ LET own == job["loop"].own
       IN \E ans \in Answers(own) :
             \/ /\ ans.state = "done"
                /\ Finish("loop") /\ Memory(RemoveOrder(mem, own))
                /\ log' = Logged("loop", own, ans.exec)
             \/ /\ ans.state # "done"
                /\ AwaitWith("loop", "cancel", job["loop"].ref, Max2(Ord("loop").filled, ans.exec),
                             Ord("loop").uuid, own)
                /\ Memory(mem) /\ UNCHANGED log
    /\ UNCHANGED <<ex, fails, bounds, hist>>

\* Mutant: what the dict shows and what the exchange says are added up.
AskBeforeCancelSum ==
    /\ UNCHANGED loop
    /\ job["loop"].pc = "ask"
    /\ LET d == job["loop"].ref
           own == job["loop"].own
       IN \E ans \in Answers(own) :
             \/ /\ ans.state = "done"
                /\ ProcessFill("loop", d, ans)
             \/ /\ ans.state # "done"
                /\ AwaitWith("loop", "cancel", d, Ord("loop").filled + ans.exec,
                             Ord("loop").uuid, own)
                /\ Memory(mem) /\ UNCHANGED log
    /\ UNCHANGED <<ex, fails, bounds, hist>>

\* _handle_cancel_requested asks for the fills before it cancels.
AskBeforeCancel ==
    /\ UNCHANGED loop
    /\ job["loop"].pc = "ask"
    /\ LET d == job["loop"].ref
           own == job["loop"].own
       IN \E ans \in Answers(own) :
             \/ /\ ans.state = "done"
                /\ ProcessFill("loop", d, ans)
             \/ /\ ans.state # "done"
                /\ AwaitWith("loop", "cancel", d, Max2(Ord("loop").filled, ans.exec),
                               Ord("loop").uuid, own)
                /\ Memory(mem) /\ UNCHANGED log
    /\ UNCHANGED <<ex, fails, bounds, hist>>

-----------------------------------------------------------------------------
(* _apply_stop_loss *)

StopCancelled ==
    /\ job["loop"].pc = "stop" /\ Reached("loop")
    /\ job' = [job EXCEPT !["loop"] = [@ EXCEPT !.pc = "place", !.hit = Reserved,
                                              !.n = Remaining(Ord("loop"))]]
    /\ UNCHANGED <<ex, mem, loop, fails, log, bounds, hist>>

\* Mutant: the sell is removed although it could not be cancelled.
StopNotCancelledRemoved ==
    /\ UNCHANGED loop
    /\ job["loop"].pc = "stop" /\ Fails("loop")
    /\ Finish("loop") /\ Memory(RemoveOrder(mem, Ord("loop").uuid))
    /\ UNCHANGED <<ex, fails, log, bounds, hist>>

StopNotCancelled ==
    /\ UNCHANGED loop
    /\ job["loop"].pc = "stop" /\ Fails("loop")
    /\ Finish("loop") /\ Memory(mem)
    /\ UNCHANGED <<ex, fails, log, bounds, hist>>

StopPlaced ==
    /\ UNCHANGED loop
    /\ job["loop"].pc = "place" /\ Reached("loop")
    /\ LET u == job["loop"].hit
       IN /\ Finish("loop")
          /\ Memory(AddOrder(RemoveOrder(mem, Ord("loop").uuid),
                             [uuid |-> u, kind |-> "stop", vol |-> job["loop"].n, filled |-> 0,
                              status |-> "placed", of |-> NoBuy]))
          /\ raced' = (raced \/ Has(mem, u))
    /\ UNCHANGED <<ex, fails, log, bounds, source, waived, orphaned>>

\* Tried StopRetries times, and then the sell is gone without a stop.
StopFails ==
    /\ UNCHANGED loop
    /\ job["loop"].pc = "place" /\ Fails("loop")
    /\ orphaned' = orphaned \cup Lost("loop")
    /\ IF job["loop"].tries + 1 < StopRetries
       THEN job' = [job EXCEPT !["loop"] = [@ EXCEPT !.tries = job["loop"].tries + 1, !.hit = Reserved]] /\ Memory(mem)
       ELSE Finish("loop") /\ Memory(RemoveOrder(mem, Ord("loop").uuid))
    /\ UNCHANGED <<ex, fails, log, bounds, source, waived, raced>>

-----------------------------------------------------------------------------
(* sync_orders *)

\* order_sync_loop: the reload, then the list of dicts to scan.  The failure
\* counters of orders that are no longer tracked are dropped.
StartCycle ==
    /\ Idle
    /\ \E asked \in {{}} \cup {{u} : u \in DOMAIN mem.index} :
          LET m == Reload(mem, Held, asked)
          IN /\ asked # {} => "status" \in Requests /\ requests < MaxRequests
             /\ requests' = requests + Cardinality(asked)
             /\ loop' = [loop EXCEPT !.phase = "scan", !.todo = Range(m.index)]
             /\ UNCHANGED job /\ Memory(m)
             /\ fails' = [kind \in DOMAIN fails |-> [u \in AnyUuid |-> IF Has(m, u) THEN fails[kind][u] ELSE 0]]
    /\ UNCHANGED <<ex, log, reserving, crashes, hist>>

Scan(d) ==
    /\ loop.phase = "scan" /\ Free("loop")
    /\ LET e == mem.obj[d]
           visited == [loop EXCEPT !.todo = @ \ {d}]
       IN \/ /\ ~Has(mem, e.uuid) \/ reserving            \* gone; or next_check_at is to come
             /\ loop' = visited /\ UNCHANGED job /\ Memory(mem)
          \/ /\ Has(mem, e.uuid) /\ e.status = "cancel_requested"
             /\ loop' = visited
             /\ IF e.uuid = Reserved THEN UNCHANGED job /\ Memory(RemoveOrder(mem, e.uuid))
                ELSE AwaitWith("loop", "ask", d, 0, Reserved, e.uuid) /\ Memory(mem)
          \/ /\ Has(mem, e.uuid) /\ e.status # "cancel_requested" /\ reserving   \* market closed
             /\ loop' = visited /\ UNCHANGED job
             /\ Memory(UpdateStatus(mem, e.uuid, IF Waiting(e) THEN "waiting" ELSE "placed"))
          \/ /\ Has(mem, e.uuid) /\ Waiting(e)
             /\ loop' = visited /\ Submit("loop", d)
          \/ /\ Has(mem, e.uuid) /\ e.status # "cancel_requested" /\ ~Waiting(e)
             /\ loop' = [visited EXCEPT !.asked = @ \cup {d}]
             /\ UNCHANGED job /\ Memory(mem)
    /\ UNCHANGED <<ex, fails, log, bounds, hist>>

\* The queries run side by side, and none is acted upon before all are answered.
Query(d) ==
    /\ loop.phase = "scan" /\ loop.todo = {} /\ Free("loop")
    /\ \E ans \in IF Has(mem, mem.obj[d].uuid) THEN Answers(mem.obj[d].uuid) ELSE {NoAnswer} :
          loop' = [loop EXCEPT !.asked = @ \ {d}, !.answers = Put(@, d, ans)]
    /\ UNCHANGED <<ex, mem, job, fails, log, bounds, hist>>

Answered(d) ==
    /\ loop.phase = "scan" /\ loop.todo = {} /\ loop.asked = {} /\ Free("loop")
    /\ loop' = [loop EXCEPT !.answers = Restrict(@, DOMAIN @ \ {d})]

Forgotten(d) ==
    /\ Answered(d)
    /\ ~Has(mem, mem.obj[d].uuid) \/ (loop.answers[d] = NoAnswer /\ ~reserving)
    /\ UNCHANGED job /\ Memory(mem)
    /\ UNCHANGED <<ex, fails, log, bounds, hist>>

\* No answer where reserved orders are supported: counted, and in the end the
\* order is taken to be gone and submitted again, or dropped.
Unanswered(d) ==
    /\ Answered(d)
    /\ LET e == mem.obj[d]
           enough == TooMany("status", e.uuid)
       IN /\ Has(mem, e.uuid) /\ loop.answers[d] = NoAnswer /\ reserving
          /\ fails' = OneMoreFailed("status", e.uuid)
          /\ orphaned' = IF enough THEN orphaned \cup {e.uuid} ELSE orphaned
          /\ UNCHANGED job
          /\ Memory(CASE ~enough -> mem
                      [] enough /\ IsStrategy(e) -> UpdateStatus(mem, e.uuid, "waiting")
                      [] OTHER -> RemoveOrder(mem, e.uuid))
    /\ UNCHANGED <<ex, log, bounds, source, waived, raced>>

Process(d) ==
    /\ Answered(d)
    /\ LET e == mem.obj[d]
           ans == loop.answers[d]
       IN /\ Has(mem, e.uuid) /\ ans # NoAnswer
          /\ fails' = NoneFailed("status", e.uuid)
          /\ \/ /\ e.kind = "sell" /\ ans.state = "wait"   \* the price is below stop_price
                /\ AwaitWith("loop", "stop", d, 0, e.uuid, e.uuid) /\ Memory(mem)
                /\ UNCHANGED log
             \/ ProcessFill("loop", d, ans)
    /\ UNCHANGED <<ex, bounds, hist>>

-----------------------------------------------------------------------------
(* A restart, and startup_recovery before the loop *)

Crash ==
    /\ crashes < MaxCrashes
    /\ crashes' = crashes + 1
    /\ loop' = [phase |-> "recover", asked |-> {}, answers |-> <<>>,
                todo |-> {mem.index[u] : u \in {v \in DOMAIN mem.index : At(mem, v).kind = "buy"}}]
    /\ job' = [a \in Actors |-> NoJob]
    /\ fails' = NoFails
    /\ orphaned' = orphaned \cup InFlight
    /\ Memory(mem)
    /\ UNCHANGED <<ex, log, reserving, requests, source, waived, raced>>

\* The buys are asked about one by one; one that filled while the bot was away
\* gets its sell.
Recover(d) ==
    /\ loop.phase = "recover" /\ Free("loop")
    /\ loop' = [loop EXCEPT !.todo = @ \ {d}]
    /\ LET e == mem.obj[d]
           sold == LinkedVolume(mem, e.uuid)
       IN \E ans \in IF Has(mem, e.uuid) THEN Answers(e.uuid) ELSE {NoAnswer} :
             \/ /\ ans.exec <= e.filled
                /\ UNCHANGED job /\ Memory(mem)
             \/ /\ ans.exec > e.filled /\ sold >= ans.exec
                /\ UNCHANGED job /\ Memory(UpdateFill(mem, e.uuid, ans.exec))
             \/ /\ ans.exec > e.filled /\ sold < ans.exec
                /\ Await("loop", "sell", d, ans, ans.exec - sold) /\ Memory(mem)
    /\ UNCHANGED <<ex, fails, log, bounds, hist>>

-----------------------------------------------------------------------------
(* The requests of the manager *)

\* post_init opens the internal API when startup_recovery is over.
Accept(kind) ==
    /\ kind \in Requests /\ requests < MaxRequests /\ Free("api")
    /\ loop.phase = "recover" => Idle
    /\ requests' = requests + 1 /\ UNCHANGED loop
    /\ UNCHANGED <<ex, fails, log, reserving, crashes, hist>>

\* _internal_cancel_order_handler
CancelRequest(u) ==
    /\ Accept("cancel") /\ Has(mem, u)
    /\ AwaitWith("api", "cancel", mem.index[u], 0, u, u) /\ Memory(mem)

\* _internal_sync_order_handler: the reload, then a submission or a status query.
SyncRequest(u) ==
    /\ Accept("sync") /\ Has(mem, u)
    /\ LET m == Reload(mem, Held, {})
           e == At(m, u)
       IN \/ /\ e.status = "waiting"
             /\ UNCHANGED job /\ Memory(m)                   \* market closed
          \/ /\ e.status = "waiting"
             /\ Await("api", "submit", m.index[u], NoAnswer, 0) /\ Memory(m)
          \/ /\ e.status # "waiting"
             /\ AwaitWith("api", "query", m.index[u], 0, u, u) /\ Memory(m)

SubmitOnRequest ==
    /\ UNCHANGED loop
    /\ job["api"].pc = "submit"
    /\ IF Waiting(Ord("api")) THEN Submit("api", job["api"].ref) ELSE Finish("api") /\ Memory(mem)
    /\ UNCHANGED <<ex, fails, log, bounds, hist>>

\* Mutant: an order without an answer is written as not filled.
QueryOnRequestOfNothing ==
    /\ UNCHANGED loop
    /\ job["api"].pc = "query"
    /\ Finish("api") /\ Memory(UpdateFill(mem, job["api"].u, 0))
    /\ UNCHANGED <<ex, log, fails, bounds, hist>>

\* The fills of an order are written without a sell, also those of a buy.
QueryOnRequest ==
    /\ UNCHANGED loop
    /\ job["api"].pc = "query"
    /\ LET e == Ord("api")
           u == job["api"].u
       IN \E ans \in Answers(u) :
             /\ Finish("api")
             /\ \/ ans = NoAnswer /\ Memory(mem) /\ UNCHANGED log
                \/ /\ ans.state = "done"
                   /\ log' = IF IsTradeLogged(u) THEN log ELSE Logged("api", u, ans.exec)
                   /\ Memory(RemoveOrder(mem, u))
                \/ /\ ans.state = "cancel"
                   /\ Memory(RemoveOrder(mem, u)) /\ UNCHANGED log
                \/ /\ ans.state \in {"wait", "partial"}
                   /\ Memory(UpdateFill(mem, u, ans.exec)) /\ UNCHANGED log
             /\ waived' = waived \cup (IF e.kind = "buy" /\ ans.exec > 0 THEN {<<u, "synced">>} ELSE {})
    /\ UNCHANGED <<ex, fails, bounds, source, orphaned, raced>>

-----------------------------------------------------------------------------
Exchange == \E u \in Uuids : FillSome(u) \/ CancelledThere(u)
SellStep == SellPlaced \/ SellFails \/ SellSkipped
SettleStep == SettleOrder \/ DropOrder \/ MessageFails
Arrive(a) == CreateArrives(a) \/ CancelArrives(a)
SubmitStep(a) == AdoptOpenOrder(a) \/ NoOpenOrder(a) \/ OrderSubmitted(a) \/ SubmitFails(a)
CancelStep(a) == CancelAccepted(a) \/ CancelFails(a) \/ Recheck(a)
StopStep == StopCancelled \/ StopNotCancelled \/ StopPlaced \/ StopFails
CycleStep ==
    \/ StartCycle
    \/ \E d \in loop.todo : Scan(d) \/ Recover(d)
    \/ \E d \in loop.asked : Query(d)
    \/ \E d \in DOMAIN loop.answers : Forgotten(d) \/ Unanswered(d) \/ Process(d)
RequestStep ==
    \/ \E u \in AnyUuid : CancelRequest(u) \/ SyncRequest(u)
    \/ SubmitOnRequest \/ QueryOnRequest

Next ==
    \/ Exchange \/ CycleStep \/ SellStep \/ SettleStep \/ AskBeforeCancel \/ StopStep
    \/ \E a \in Actors : Arrive(a) \/ SubmitStep(a) \/ CancelStep(a)
    \/ RequestStep \/ Crash

Spec == Init /\ [][Next]_vars

-----------------------------------------------------------------------------
(* Properties *)

Answered1 == [state: {"none", "wait", "partial", "done", "cancel"}, exec: 0..Volume]
Pcs == {"free", "sell", "settle", "drop", "look", "create", "ask", "cancel", "recheck",
        "stop", "place", "submit", "query"}

Reasons == {"sold elsewhere", "resubmitted", "cancelled", "synced"}

\* The variables have their types, a uuid leads to a dict that carries it, and
\* no coroutine holds a dict that does not exist.
TypeOK ==
    /\ ex \in [Uuids -> [state: {"none", "wait", "done", "cancel"}, side: {"bid", "ask"},
                         vol: 0..Volume, exec: 0..Volume]]
    /\ DOMAIN mem.index \subseteq AnyUuid /\ DOMAIN mem.obj \subseteq Dicts
    /\ \A d \in DOMAIN mem.obj : mem.obj[d] \in Entries
    /\ \A u \in DOMAIN mem.index : mem.index[u] \in DOMAIN mem.obj /\ At(mem, u).uuid = u
    /\ loop.phase \in {"recover", "scan"}
    /\ \A d \in DOMAIN loop.answers : loop.answers[d] \in Answered1
    /\ \A a \in Actors : job[a].pc \in Pcs /\ job[a].ans \in Answered1
    /\ Held \ {NoDict} \subseteq DOMAIN mem.obj
    /\ fails \in [{"status", "reorder"} -> [AnyUuid -> 0..(FailLimit - 1)]]
    /\ log \in [Actors -> [AnyUuid -> Nat]] /\ source \in [Uuids -> {NoBuy} \cup AnyUuid]
    /\ waived \subseteq AnyUuid \X Reasons /\ orphaned \subseteq Uuids /\ raced \in BOOLEAN

Sum(S, f(_)) == MapThenSumSet(f, S)
SellsOf(b) == {u \in Uuids : source[u] = b}

\* Until two submissions of one order have met, the sells tracked for a tracked buy
\* never add up to more than the fill that is written down for it:
\* _create_linked_sell_order places only what is missing and writes the fill in the
\* same stretch of code.
SellsWithinFill ==
    ~raced => \A b \in DOMAIN mem.index :
        At(mem, b).kind = "buy" /\ b \notin orphaned => LinkedVolume(mem, b) <= At(mem, b).filled

Covered(b) == Sum(SellsOf(b), LAMBDA u : ex[u].vol) >= ex[b].exec
GoneAndUncovered(b, reasons) ==
    /\ ex[b].side = "bid" /\ ex[b].state \in {"done", "cancel"} /\ ~Covered(b)
    /\ ~Has(mem, b) /\ b \notin orphaned \cup InFlight /\ ~raced
    /\ \A r \in reasons : <<b, r>> \notin waived

\* A buy that is over at the exchange leaves the list only when sells have been
\* placed for all it bought, unless the call that made it has not returned, or the
\* bot gave it up where it says so.
BuysLeaveCovered == \A b \in Uuids : ~GoneAndUncovered(b, Reasons)

\* The same, but a buy the manager has asked to sync is no exception:
\* "rsitrade/gridrsi 매수 체결 완료 및 `linked_to` 존재 시 목표 익절가 계산 후 즉시 매도 주문 전송"
\* (docs/205_main_handlers.md).
SyncedBuysLeaveCovered == \A b \in Uuids : ~GoneAndUncovered(b, Reasons \ {"synced"})

\* An order that is open at the exchange is on the list, unless the call that
\* made it has not returned, or the bot was not told of it or let go of it where
\* it says so.
LiveOrdersAreTracked ==
    \A u \in Uuids :
        Live(u) /\ u \notin orphaned \cup InFlight /\ ~raced => Has(mem, u)

\* Neither coroutine logs more than was executed, over all cycles, restarts,
\* resubmissions and answers that come late (the two together may log a trade
\* twice).  The sums are over all orders of a side: a resubmitted order logs the
\* fill of the order it replaced under its own uuid.
LogWithinExecuted ==
    ~raced => \A a \in Actors, side \in {"bid", "ask"} :
        LET orders == {u \in Uuids : ex[u].side = side}
        IN Sum(orders, LAMBDA u : log[a][u]) <= Sum(orders, LAMBDA u : ex[u].exec)

\* What is sold or on sale for a buy is never more than it bought: "아직 매도가 발행되지
\* 않은 추가 체결분에 대해" (order_sync.py, _create_linked_sell_order).
Committed(u) == IF ex[u].state = "wait" THEN ex[u].vol ELSE ex[u].exec
NeverOversold ==
    \A b \in Uuids :
        ex[b].side = "bid" => Sum(SellsOf(b), Committed) <= ex[b].exec
=============================================================================
