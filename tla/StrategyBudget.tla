--------------------------- MODULE StrategyBudget ---------------------------
(***************************************************************************)
(* One strategy template of the manager: its row in strategy_templates,    *)
(* whose params hold the budget, the orders and trades that name it, and   *)
(* its rows of budget_ledger.  Requests of the web API and the daily batch *)
(* of a TOP N strategy read the row, work on their copy of the params and  *)
(* write the whole of it back; only batches exclude each other.            *)
(*                                                                         *)
(* A request is its reads, then the list of writes computed from them: a   *)
(* write is one call to the database or the bot, and between two calls     *)
(* others run.  The bot's own writes are in the section "The bot".         *)
(***************************************************************************)
EXTENDS BudgetPlan, Integers, SequencesExt, FiniteSetsExt

CONSTANTS
    Scenarios,   \* [type, ticker, mode, begun, links, asks, faults, orders]: the template, the
                 \* requests made of it in turn, how much may fail, how many orders there may be
    Slots,       \* requests in flight
    Codes, Rankings,   \* [days -> sequence of codes]
    RankStart, RankEnd, RankBuffer, HoldPromoted, ConfirmDays, SplitDays, MaxLoops, SmallChange,
    Volume,      \* bought of a code in a cycle
    Budget, Daily,             \* monthly_budget and daily_fixed_budget at first
    TopUps, Plans, Initials,   \* what requests may ask for
    Kept,        \* how many uuids the lists keep: 500
    MaxDay, MaxOrders   \* bounds

VARIABLES
    scen,     \* which of Scenarios, for good
    row,      \* [there, readable, plan]: the template's row
    reqs,     \* [Slots -> request]: see Idle
    book,     \* [uuids -> what an order is]: [code, side, vol, group, root, of]
    orders,   \* [uuids -> [status, filled, sent]]: the table, for this template
    trades,   \* [uuids -> volume]: the trade log, for this template
    bot,      \* the bot's writes under way: [do, uuid]
    ledger,   \* [epoch, total, days, refunds, net]: its rows, summed up
    sched,    \* [day, due, attempted]: the scheduler's loop
    past      \* histories: see StrategyInit

strategyVars == <<scen, row, reqs, book, orders, trades, bot, ledger, sched, past>>

Step == INSTANCE TopNPlan WITH Quantity <- Volume
Universe == INSTANCE UniverseTargets

Roots == 1..MaxOrders

Nothing == [u \in {} |-> 0]

\* A request: what it is for, how far it is, its copy of the params, what it has read, its
\* writes to come, its last row of the ledger, whether the template's is as it read it.
Idle == [kind |-> "idle", pc |-> "", arg |-> {}, plan |-> {}, seen |-> Nothing, held |-> Nothing,
         writes |-> <<>>, posted |-> {}, fresh |-> TRUE]

FirstPlan(s) ==
    [epoch |-> 1, mode |-> s.mode, monthly |-> Budget, daily |-> Daily,
     carry |-> IF s.begun /\ s.mode = "total" THEN Budget ELSE 0,
     spent |-> 0, credited |-> 0, month |-> 1, recycles |-> TRUE, begun |-> s.begun,
     accounted |-> <<>>, recycled |-> <<>>, pending |-> {}, sells |-> {},
     bought |-> {}, cycle |-> 1, streaks |-> [c \in Codes |-> 0], exits |-> [c \in Codes |-> 0],
     group |-> 0, lastRun |-> 0, active |-> TRUE, archived |-> FALSE]

StrategyInit ==
    /\ scen \in Scenarios
    /\ row = [there |-> TRUE, readable |-> TRUE, plan |-> FirstPlan(scen)]
    /\ reqs = [s \in Slots |-> Idle]
    /\ book = Nothing /\ orders = Nothing /\ trades = Nothing /\ bot = {}
    /\ ledger = [epoch |-> 1, total |-> row.plan.carry, days |-> {}, refunds |-> {}, net |-> Nothing]
    /\ sched = [day |-> 1, due |-> FALSE, attempted |-> {}]
    /\ past = [slips |-> {},      \* how the epoch's ledger and balance came apart, if they did
               torn |-> FALSE,    \* a row was written over that had changed since it was read
               disputed |-> {},   \* orders the tables do not, or did not in time, tell the truth of
               linked |-> {},     \* buys with a linked sell, and the sells
               done |-> [r \in Roots |-> 0],      \* what was executed at the exchange
               runs |-> [d \in 1..MaxDay |-> 0],  \* scheduled batches that ended
               asked |-> 0, faults |-> 0]

Put(f, x, y) == [z \in DOMAIN f \cup {x} |-> IF z = x THEN y ELSE f[z]]
Drop(f, x) == [z \in DOMAIN f \ {x} |-> f[z]]
Fault == past.faults < scen.faults
Faulty(h) == [h EXCEPT !.faults = @ + 1]
Dispute(h, u) == [h EXCEPT !.disputed = @ \cup {book[u].root}]
Sorted(S) == SetToSortSeq(S, <)
Single == scen.type = "single"
Busy == {s \in Slots : reqs[s].kind # "idle"}
NextUuid == Cardinality(DOMAIN book) + 1
Cost(u) == UnitPrice[book[u].code] * book[u].vol

(***************************************************************************)
(* Reading the tables.                                                     *)
(***************************************************************************)
OfSide(table, side) == {u \in DOMAIN table : book[u].side = side}
Traded(S) == FoldSet(LAMBDA u, n : n + trades[u], 0, S)
Executed(u) == IF u \in DOMAIN trades THEN trades[u] ELSE 0

\* get_template_holdings
Holding(code) ==
    AtLeast0(Traded({u \in OfSide(trades, "bid") : book[u].code = code})
             - Traded({u \in OfSide(trades, "ask") : book[u].code = code}))
Holdings == [code \in {c \in Codes : Holding(c) > 0} |-> Holding(code)]

\* A batch finds its orders' trades by group and code.
ExecutedIn(group, code) ==
    Traded({u \in OfSide(trades, "bid") : book[u].group = group /\ book[u].code = code})

LastGroup == Max({0} \cup {book[u].group : u \in DOMAIN orders \cup DOMAIN trades})

(***************************************************************************)
(* sync_single_strategy_budget_events: orders not seen before are charged, *)
(* those that ended short are refunded, sells are recycled.  seen is the   *)
(* table as it was read; the trades are read after it.                     *)
(***************************************************************************)
Last500(seq) == SubSeq(seq, Len(seq) - Least(Len(seq), Kept) + 1, Len(seq))

Take(acc, u) == [acc EXCEPT !.plan.accounted = Append(@, u)]
Known(acc, u) == Contains(acc.plan.accounted, u)
Await(acc, u) ==
    [acc EXCEPT !.plan.pending = @ \cup {[uuid |-> u, code |-> book[u].code, vol |-> book[u].vol,
                                          group |-> book[u].group, epoch |-> acc.plan.epoch]}]

\* An order placed again goes on under the account of the first.
Inherit(acc, u) ==
    LET orig == book[u].of
    IN  IF orig # 0 /\ Known(acc, orig) /\ ~Known(acc, u)
        THEN [Take(acc, u) EXCEPT !.plan.pending =
                {IF p.uuid = orig THEN [p EXCEPT !.uuid = u] ELSE p : p \in @}]
        ELSE acc

Charge(acc, u, cost) == IF Known(acc, u) THEN acc ELSE Take(Spend(acc, cost, u), u)
ChargeOpen(acc, u) == IF Known(acc, u) THEN acc ELSE Await(Charge(acc, u, Cost(u)), u)
ChargeTraded(acc, u) == Charge(acc, u, UnitPrice[book[u].code] * trades[u])

\* Mutant: a sell is not noted as recycled.
RecycleSellUnnoted(acc, u) ==
    IF Contains(acc.plan.recycled, u) THEN acc ELSE Recycle(acc, UnitPrice[book[u].code] * trades[u], u)

RecycleSell(acc, u) ==
    IF Contains(acc.plan.recycled, u) THEN acc
    ELSE [Recycle(acc, UnitPrice[book[u].code] * trades[u], u) EXCEPT !.plan.recycled = Append(@, u)]

Ended == {"cancel"}

\* Mutant: an order whose cancellation was asked for counts as cancelled.
EndsAtRequest(seen, p) ==
    IF p.uuid \in DOMAIN seen
    THEN IF seen[p.uuid].status \in Ended \cup {"cancel_requested"} THEN {seen[p.uuid].filled} ELSE {}
    ELSE {Executed(p.uuid)}

\* {} while it is open, else {what was filled}.
Ends(seen, p) ==
    IF p.uuid \in DOMAIN seen
    THEN IF seen[p.uuid].status \in Ended THEN {Max({seen[p.uuid].filled, Executed(p.uuid)})} ELSE {}
    ELSE {Executed(p.uuid)}

Settle(seen, acc, u) ==
    LET p == CHOOSE q \in acc.plan.pending : q.uuid = u
        end == Ends(seen, p)
    IN  IF end = {} THEN acc
        ELSE [Refund(acc, p, Max(end)) EXCEPT !.plan.pending = @ \ {p}]

SyncEvents(plan, seen) ==
    LET SettleOne(acc, u) == Settle(seen, acc, u)
        start == Initialised([plan |-> plan, rows |-> <<>>])
        heirs == FoldLeft(Inherit, start, Sorted(DOMAIN seen))
        open == {u \in OfSide(seen, "bid") : seen[u].status \notin Ended}
        charged == FoldLeft(ChargeTraded, FoldLeft(ChargeOpen, heirs, Sorted(open)), Sorted(OfSide(trades, "bid")))
        settled == FoldLeft(SettleOne, charged, Sorted({p.uuid : p \in charged.plan.pending}))
        recycled == IF settled.plan.recycles THEN FoldLeft(RecycleSell, settled, Sorted(OfSide(trades, "ask")))
                    ELSE settled
    IN  [recycled EXCEPT !.plan.accounted = Last500(@), !.plan.recycled = Last500(@)]

(***************************************************************************)
(* The writes of a request.                                                *)
(***************************************************************************)
Post(entry) == [do |-> "post", entry |-> entry]
Posts(acc) == [i \in DOMAIN acc.rows |-> Post(acc.rows[i])]
Save(plan, must) == [do |-> "save", plan |-> plan, must |-> must]
Upload(u) == [do |-> "upload", uuid |-> u]
Delete(u) == [do |-> "delete", uuid |-> u]
Cancel(u) == [do |-> "cancel", uuid |-> u]
Do(what) == [do |-> what]

PostAndSave(acc) == Append(Posts(acc), Save(acc.plan, TRUE))

\* sync_single_strategy_budget_events with persist: saved when something changed.
SyncAndSave(acc, plan) ==
    IF acc.plan = plan THEN Posts(acc) ELSE Append(Posts(acc), Save(acc.plan, FALSE))

Planned(acc, kind, arg) ==
    CASE kind = "topup" -> TopUp(acc, arg)
      [] kind = "plan" -> ChangePlan(acc, arg, arg.today, sched.day)
      [] kind = "update" -> IF Single THEN ChangePlan(Initialised(acc), arg, TRUE, sched.day)
                            ELSE Configured(acc, arg)
      [] kind = "reset" -> ResetPlan(acc, arg.initial, arg.cycle)
      [] kind = "hold" -> [acc EXCEPT !.plan.active = ~arg]
      [] kind \in {"stop", "liquidate"} ->
           [acc EXCEPT !.plan.active = FALSE, !.plan.exits = [c \in Codes |-> 0]]
      [] kind = "archive" -> [acc EXCEPT !.plan.active = FALSE, !.plan.archived = TRUE]
      [] kind = "restore" -> [acc EXCEPT !.plan.active = FALSE, !.plan.archived = FALSE]

(***************************************************************************)
(* api_execute_template of a grid or an rsitrade.  credit_daily_allowance  *)
(* gives (amount, params); the endpoint takes it for the params, writes it *)
(* to the row and fails on it.                                             *)
(***************************************************************************)
Execution(acc, plan) ==
    LET credited == Credit([acc EXCEPT !.rows = <<>>], sched.day)
    IN  CASE acc.plan.mode # "total" -> SyncAndSave(acc, plan) \o Posts(credited) \o <<Do("garble")>>
          [] acc.plan.carry > 0 -> Append(SyncAndSave(acc, plan), Do("place"))
          [] OTHER -> SyncAndSave(acc, plan)

(***************************************************************************)
(* run_strategy_progression: what the last batch bought is settled, its    *)
(* sells recycled, the day credited, the day's orders made.                *)
(***************************************************************************)
Lapsed == {"cancel", "failed", "rejected", "market_closed", "pending_reorder", "reserved"}
Stale == {"market_closed", "pending_reorder", "reserved"}

\* The row of an order, or of the one placed again for it.
RowsOf(seen, p) ==
    LET again == {u \in DOMAIN seen : book[u].of = p.uuid}
    IN  IF again # {} THEN again ELSE {p.uuid} \cap DOMAIN seen

WithStatus(seen, pending, statuses) ==
    {p \in pending : \E u \in RowsOf(seen, p) : seen[u].status \in statuses}

Deferred(seen, pending) == WithStatus(seen, pending, {"cancel_requested"})

Missing(seen, pending) ==
    {p \in pending : RowsOf(seen, p) = {} /\ ExecutedIn(p.group, p.code) < p.vol}

FilledOf(seen, p) ==
    IF RowsOf(seen, p) = {} THEN ExecutedIn(p.group, p.code) ELSE seen[CHOOSE u \in RowsOf(seen, p) : TRUE].filled

Reconciled(plan, seen) ==
    LET gone == WithStatus(seen, plan.pending, Lapsed) \cup Missing(seen, plan.pending)
        RefundOne(acc, p) == Refund(acc, p, FilledOf(seen, p))
        refunded == FoldLeft(RefundOne, [plan |-> plan, rows |-> <<>>],
                             SetToSortSeq(gone, LAMBDA p, q : p.uuid < q.uuid))
    IN  [refunded EXCEPT !.plan.bought = @ \ {p.code : p \in gone},
                         !.plan.pending = Deferred(seen, plan.pending)]

SellsRecycled(acc) ==
    LET sold == {u \in OfSide(trades, "ask") : book[u].group \in acc.plan.sells}
        recycled == IF acc.plan.recycles THEN FoldLeft(RecycleSell, acc, Sorted(sold)) ELSE acc
    IN  [recycled EXCEPT !.plan.sells = {}]

\* The account of a batch that read r.seen, once the day is credited.
CreditedDay(r) == Credit(SellsRecycled(Reconciled(r.plan, r.seen)), sched.day)

NextGroup(plan) == Max({plan.group, LastGroup}) + 1

\* The day's new orders, sells first, with the uuids they are given here.
DayOrders(sells, codes, buys, group) ==
    [i \in 1..(Len(codes) + Len(buys)) |->
        [code |-> (codes \o buys)[i], side |-> IF i <= Len(codes) THEN "ask" ELSE "bid",
         vol |-> IF i <= Len(codes) THEN sells[codes[i]] ELSE Volume,
         group |-> group, root |-> NextUuid + i - 1, of |-> 0]]

CostOf(new) == UnitPrice[new.code] * new.vol
SpendFor(acc, new) == IF new.side = "bid" THEN Spend(acc, CostOf(new), new.root) ELSE acc

\* spend_for_buy starts from the balance before step_single_day took the costs off it.
UploadAndPost(before, new) ==
    IF new.side = "bid" THEN <<Upload(new.root), Post(Last(SpendFor(before, new).rows))>> ELSE <<Upload(new.root)>>
DayUploads(credited, news) ==
    FlattenSeq([i \in DOMAIN news |->
        UploadAndPost(FoldLeft(SpendFor, [credited EXCEPT !.rows = <<>>], SubSeq(news, 1, i - 1)), news[i])])

\* The template's plan after the day.
DayPlan(plan, news, group, epoch) ==
    [plan EXCEPT
        !.group = group,
        !.sells = IF \E i \in DOMAIN news : news[i].side = "ask" THEN {group} ELSE {},
        !.pending = @ \cup {[uuid |-> new.root, code |-> new.code, vol |-> new.vol, group |-> group, epoch |-> epoch] :
                              new \in {n \in Range(news) : n.side = "bid"}}]

AtRest(r) == {u \in DOMAIN r.seen : r.seen[u].status \in Stale /\ \E p \in r.plan.pending : u \in RowsOf(r.seen, p)}

DayWrites(r, credited, step, news, group) ==
    [news |-> news,
     writes |-> [i \in 1..Cardinality(AtRest(r)) |-> Delete(Sorted(AtRest(r))[i])] \o Posts(credited)
                  \o DayUploads(credited, news) \o <<Save(DayPlan(step.plan, news, group, r.plan.epoch), TRUE)>>]

DayOf(r, credited, step) ==
    DayWrites(r, credited, step,
              DayOrders(step.sells, SetToSeq(DOMAIN step.sells), step.buys, NextGroup(r.plan)), NextGroup(r.plan))

StepOf(r, credited) ==
    DayOf(r, credited, Step!StepSingleDay(credited.plan, sched.day, Universe!Resolve({}, {}, Rankings[sched.day]),
                                         Rankings[sched.day], r.held, FALSE))

\* The day's orders, and the writes of a batch that read r.seen and r.held.
Batch(r) == StepOf(r, CreditedDay(r))

Created(news) ==
    [u \in 1..(Cardinality(DOMAIN book) + Len(news)) |->
        IF u \in DOMAIN book THEN book[u] ELSE news[u - Cardinality(DOMAIN book)]]


(***************************************************************************)
(* Requests begin by reading the row.                                      *)
(***************************************************************************)
Syncing == {"ledger", "topup", "plan", "execute"}
Cancelling == {"stop", "liquidate"}
BatchRuns == \E s \in Slots : reqs[s].kind = "batch"

Args(kind) ==
    CASE kind = "topup" -> TopUps
      [] kind = "plan" -> Plans
      [] kind = "update" -> {p \in Plans : p.today}
      [] kind = "reset" -> Initials
      [] kind = "hold" -> BOOLEAN
      [] OTHER -> {"user"}

\* The orders _cancel_open_orders asks the bot to cancel, and reset_budget_plan marks.
OpenOrders == {u \in DOMAIN orders : orders[u].status \notin {"cancel_requested", "cancel"}}

\* What a request does at once when nothing more is read for it.
Writes(kind, arg) ==
    LET planned == Planned([plan |-> row.plan, rows |-> <<>>], kind, arg)
    IN  CASE kind \in Cancelling ->
               [i \in 1..Cardinality(OpenOrders) |-> Cancel(Sorted(OpenOrders)[i])]
                 \o (IF kind = "liquidate" THEN <<Do("liquidate")>> ELSE <<>>)
                 \o <<Save(planned.plan, TRUE)>>
                 \o (IF Single THEN <<Do("reread")>> ELSE <<>>)
          [] kind = "reset" -> <<Do("cancelBids")>> \o PostAndSave(planned)
          [] OTHER -> PostAndSave(planned)

Reads(kind) ==
    CASE kind = "batch" -> "holdings"
      [] kind \in {"archive", "delete"} \/ (Single /\ kind \in Syncing) -> "orders"
      [] OTHER -> "write"

\* archive and delete refuse a strategy that runs, delete one that is not archived.
Allowed(kind) ==
    /\ row.there /\ row.readable
    /\ kind = "batch" => ~BatchRuns
    /\ kind \in {"archive", "delete"} => ~row.plan.active
    /\ kind = "delete" => row.plan.archived

Start(s, kind, arg) ==
    /\ Allowed(kind)
    /\ s \notin Busy /\ \A t \in Slots : t < s => t \in Busy
    /\ reqs' = [reqs EXCEPT ![s] = [Idle EXCEPT !.kind = kind, !.pc = Reads(kind),
                                    !.arg = IF Reads(kind) = "write" THEN {} ELSE arg,
                                    !.plan = IF Reads(kind) = "write" THEN {} ELSE row.plan,
                                    !.writes = IF Reads(kind) = "write" THEN Writes(kind, arg) ELSE <<>>]]

Begin(s, kind, arg) ==
    /\ past.asked < Len(scen.asks) /\ kind = scen.asks[past.asked + 1]
    /\ arg \in Args(kind)
    /\ Start(s, kind, arg)
    /\ past' = [past EXCEPT !.asked = @ + 1]
    /\ UNCHANGED <<scen, row, book, orders, trades, bot, ledger, sched>>

\* The scheduler's task finds the lock taken, or runs the batch.
BeginScheduled(s) ==
    /\ sched.due
    /\ sched' = [sched EXCEPT !.due = FALSE]
    /\ IF Allowed("batch") THEN Start(s, "batch", "scheduled") ELSE UNCHANGED reqs
    /\ UNCHANGED <<scen, row, book, orders, trades, bot, ledger, past>>

(***************************************************************************)
(* What they read next.                                                    *)
(***************************************************************************)
At(s, pc) == reqs[s].kind # "idle" /\ reqs[s].pc = pc

ReadHoldings(s) ==
    /\ At(s, "holdings")
    /\ reqs' = [reqs EXCEPT ![s] =
                   CASE @.kind = "batch" -> [@ EXCEPT !.held = Holdings, !.pc = "orders"]
                     [] Holdings # Nothing -> Idle
                     [] OTHER -> [@ EXCEPT !.pc = "write", !.writes = <<Do("remove")>>]]
    /\ UNCHANGED <<scen, row, book, orders, trades, bot, ledger, sched, past>>

AfterOrders(r, seen) ==
    LET open == {u \in DOMAIN seen : seen[u].status \in {"wait", "partial", "pending_reorder", "reserved"}}
    IN  CASE r.kind \notin {"archive", "delete"} -> [r EXCEPT !.seen = seen, !.pc = "trades"]
          [] open # {} -> Idle
          [] r.kind = "delete" -> [r EXCEPT !.pc = "holdings"]
          [] OTHER -> [r EXCEPT !.pc = "write",
                                !.writes = PostAndSave(Planned([plan |-> r.plan, rows |-> <<>>], "archive", {}))]

ReadOrders(s) ==
    /\ At(s, "orders")
    /\ reqs' = [reqs EXCEPT ![s] = AfterOrders(@, orders)]
    /\ UNCHANGED <<scen, row, book, orders, trades, bot, ledger, sched, past>>

\* A query that fails is logged and goes on without rows.
ReadOrdersFails(s) ==
    /\ At(s, "orders") /\ Fault
    /\ reqs' = [reqs EXCEPT ![s] = AfterOrders(@, Nothing)]
    /\ past' = Faulty([past EXCEPT !.disputed = @ \cup {book[u].root : u \in DOMAIN orders}])
    /\ UNCHANGED <<scen, row, book, orders, trades, bot, ledger, sched>>

ReadTrades(s) ==
    LET r == reqs[s]
        acc == SyncEvents(r.plan, r.seen)
        planned == Planned(acc, r.kind, r.arg)
    IN  /\ At(s, "trades") /\ r.kind # "batch"
        /\ reqs' = [reqs EXCEPT ![s] =
              LET writes == CASE r.kind = "ledger" -> SyncAndSave(acc, r.plan)
                              [] r.kind = "execute" -> Execution(acc, r.plan)
                              [] OTHER -> PostAndSave(planned)
              IN  IF writes = <<>> THEN Idle
                  ELSE [Idle EXCEPT !.kind = r.kind, !.pc = "write", !.fresh = r.fresh, !.writes = writes,
                                    !.plan = IF r.kind = "execute" THEN acc.plan ELSE {}]]
        /\ UNCHANGED <<scen, row, book, orders, trades, bot, ledger, sched, past>>

Batched(s, batch) ==
    /\ Cardinality(DOMAIN book) + Len(batch.news) <= scen.orders
    /\ book' = Created(batch.news)
    /\ reqs' = [reqs EXCEPT ![s].pc = "write", ![s].writes = batch.writes]
    /\ UNCHANGED <<scen, row, orders, trades, bot, ledger, sched, past>>

MakeBatch(s) ==
    /\ At(s, "trades") /\ reqs[s].kind = "batch"
    /\ Batched(s, Batch(reqs[s]))

(***************************************************************************)
(* What they write.                                                        *)
(***************************************************************************)
Writing(s, do) == At(s, "write") /\ Head(reqs[s].writes).do = do

Onward(s, r) ==
    reqs' = [reqs EXCEPT ![s] = IF Len(r.writes) = 1 THEN Idle ELSE [r EXCEPT !.writes = Tail(@)]]

Slip(h, why) == [h EXCEPT !.slips = @ \cup why]

\* The rows' sum, their unique keys, and what each order was charged and not refunded.
Entered(e) ==
    LET root == book[e.key].root
        before == IF root \in DOMAIN ledger.net THEN ledger.net[root] ELSE 0
    IN  CASE e.kind = "reset" /\ e.epoch > ledger.epoch -> [ledger EXCEPT !.epoch = e.epoch, !.total = e.delta, !.net = Nothing]
          [] e.kind = "credit" -> [ledger EXCEPT !.total = @ + e.delta, !.days = @ \cup {<<e.epoch, e.key>>}]
          [] e.kind = "refund" -> [ledger EXCEPT !.total = @ + e.delta, !.refunds = @ \cup {<<e.epoch, e.key>>},
                                                !.net = Put(@, root, before - e.delta)]
          [] e.kind = "spend" -> [ledger EXCEPT !.total = @ + e.delta, !.net = Put(@, root, before - e.delta)]
          [] OTHER -> [ledger EXCEPT !.total = @ + e.delta]

Rejected(e) ==
    \/ (e.kind = "credit" /\ <<e.epoch, e.key>> \in ledger.days)
    \/ (e.kind = "refund" /\ <<e.epoch, e.key>> \in ledger.refunds)

Overlap(s) == ~reqs[s].fresh \/ \E t \in Slots \ {s} : reqs[t].posted # {}

PostRow(s) ==
    LET e == Head(reqs[s].writes).entry
        why == (IF Overlap(s) THEN {"overlap"} ELSE {}) \cup (IF e.clamped THEN {"clamped"} ELSE {})
    IN  /\ Writing(s, "post") /\ ~Rejected(e)
        /\ ledger' = Entered(e)
        /\ past' = IF e.kind = "reset" /\ e.epoch > ledger.epoch /\ ~Overlap(s) THEN [past EXCEPT !.slips = {}] ELSE Slip(past, why)
        /\ Onward(s, [reqs[s] EXCEPT !.posted = {e}])
        /\ UNCHANGED <<scen, row, book, orders, trades, bot, sched>>

\* The insert is refused by the unique index or fails: both are only logged.
PostFails(s) ==
    /\ Writing(s, "post")
    /\ IF Rejected(Head(reqs[s].writes).entry) THEN past' = Slip(past, {"unwritten"})
       ELSE Fault /\ past' = Faulty(Slip(past, {"unwritten"}))
    /\ Onward(s, reqs[s])
    /\ UNCHANGED <<scen, row, book, orders, trades, bot, ledger, sched>>

SaveParams(s) ==
    LET r == reqs[s]
        ended == r.kind = "batch" /\ r.arg = "scheduled"
    IN  /\ Writing(s, "save")
        /\ row' = IF row.there THEN [row EXCEPT !.plan = Head(r.writes).plan, !.readable = TRUE] ELSE row
        /\ past' = [(CASE ~row.there /\ r.posted # {} -> Slip(past, {"unsaved"})
                       [] ~r.fresh -> Slip(past, {"overlap"})
                       [] OTHER -> past)
                      EXCEPT !.torn = @ \/ ~r.fresh,
                             !.runs = IF ended THEN [@ EXCEPT ![sched.day] = @ + 1] ELSE @]
        /\ reqs' = [t \in Slots |->
              IF t # s THEN [reqs[t] EXCEPT !.fresh = @ /\ t \notin Busy]
              ELSE IF Len(r.writes) = 1 THEN Idle
              ELSE [r EXCEPT !.writes = Tail(@), !.posted = {}]]
        /\ UNCHANGED <<scen, book, orders, trades, bot, ledger, sched>>

\* The update fails: sync only logs it, the others answer with an error.
SaveFails(s) ==
    /\ Writing(s, "save") /\ Fault
    /\ past' = Faulty(IF reqs[s].posted = {} THEN past ELSE Slip(past, {"unsaved"}))
    /\ IF Head(reqs[s].writes).must THEN reqs' = [reqs EXCEPT ![s] = Idle] ELSE Onward(s, reqs[s])
    /\ UNCHANGED <<scen, row, book, orders, trades, bot, ledger, sched>>

DeleteOrder(s) ==
    LET u == Head(reqs[s].writes).uuid
    IN  /\ Writing(s, "delete")
        /\ orders' = Drop(orders, u)
        /\ past' = IF \E t \in bot : t.uuid = u THEN Dispute(past, u) ELSE past
        /\ Onward(s, reqs[s])
        /\ UNCHANGED <<scen, row, book, trades, bot, ledger, sched>>

Reserved == [status |-> "reserved", filled |-> 0, sent |-> FALSE]

UploadOrder(s) ==
    /\ Writing(s, "upload")
    /\ orders' = Put(orders, Head(reqs[s].writes).uuid, Reserved)
    /\ Onward(s, reqs[s])
    /\ UNCHANGED <<scen, row, book, trades, bot, ledger, sched, past>>

\* The batch ends in an exception; what it uploaded and posted stays.
UploadFails(s) ==
    /\ Writing(s, "upload") /\ Fault
    /\ past' = Faulty(IF reqs[s].posted = {} THEN past ELSE Slip(past, {"unsaved"}))
    /\ reqs' = [reqs EXCEPT ![s] = Idle]
    /\ UNCHANGED <<scen, row, book, orders, trades, bot, ledger, sched>>

\* The params are overwritten by the pair (amount, params): no request can read them again.
Garble(s) ==
    /\ Writing(s, "garble")
    /\ row' = [row EXCEPT !.readable = FALSE]
    /\ past' = Slip(past, {"garbled"})
    /\ reqs' = [reqs EXCEPT ![s] = Idle]
    /\ UNCHANGED <<scen, book, orders, trades, bot, ledger, sched>>

\* reset_budget_plan asks the bot to cancel what is not bought yet.
CancelBids(s) ==
    /\ Writing(s, "cancelBids")
    /\ orders' = [u \in DOMAIN orders |->
                     IF /\ book[u].side = "bid"
                        /\ orders[u].status \in {"wait", "reserved", "partial", "pending_reorder"}
                     THEN [orders[u] EXCEPT !.status = "cancel_requested"] ELSE orders[u]]
    /\ Onward(s, reqs[s])
    /\ UNCHANGED <<scen, row, book, trades, bot, ledger, sched, past>>

\* The bot cancels an order it sent and drops it; what was filled of it is not logged.  Of
\* what it cannot cancel the manager marks the orders that are not at the exchange.
CancelOne(s) ==
    LET u == Head(reqs[s].writes).uuid
    IN  /\ Writing(s, "cancel")
        /\ \/ /\ u \in DOMAIN orders /\ orders[u].sent /\ \A t \in bot : t.uuid # u
              /\ orders' = Drop(orders, u)
              /\ past' = IF orders[u].filled > 0 THEN Dispute(past, u) ELSE past
           \/ /\ u \in DOMAIN orders /\ orders[u].status \in Stale /\ ~orders[u].sent
              /\ orders' = [orders EXCEPT ![u].status = "cancel"]
              /\ UNCHANGED past
           \/ /\ u \notin DOMAIN orders
              /\ UNCHANGED <<orders, past>>
           \/ /\ Fault
              /\ past' = Faulty(past)
              /\ UNCHANGED orders
        /\ Onward(s, reqs[s])
        /\ UNCHANGED <<scen, row, book, trades, bot, ledger, sched>>

\* execute_grid, execute_rsitrade: the bot buys for the balance the request knows.
Place(s, answered) ==
    LET r == reqs[s]
        code == scen.ticker
        vol == r.plan.carry \div UnitPrice[code]
    IN  /\ Writing(s, "place") /\ NextUuid <= scen.orders /\ vol > 0
        /\ book' = Put(book, NextUuid, [code |-> code, side |-> "bid", vol |-> vol, group |-> LastGroup + 1,
                                        root |-> NextUuid, of |-> 0])
        /\ orders' = Put(orders, NextUuid, [status |-> "wait", filled |-> 0, sent |-> TRUE])
        /\ IF answered
           THEN /\ reqs' = [reqs EXCEPT ![s].kind = "ledger", ![s].pc = "orders", ![s].writes = <<>>]
                /\ UNCHANGED past
           ELSE /\ Fault /\ past' = Faulty(past)
                /\ reqs' = [reqs EXCEPT ![s] = Idle]
        /\ UNCHANGED <<scen, row, trades, bot, ledger, sched>>

\* The bot refuses: its answer ends the request.
PlaceFails(s) ==
    /\ Writing(s, "place")
    /\ reqs' = [reqs EXCEPT ![s] = Idle]
    /\ UNCHANGED <<scen, row, book, orders, trades, bot, ledger, sched, past>>

\* stop_strategy sells what the trades say is held.
Liquidate(s) ==
    LET codes == SetToSeq(DOMAIN Holdings)
        News == [i \in DOMAIN codes |-> [code |-> codes[i], side |-> "ask", vol |-> Holdings[codes[i]],
                                         group |-> 0, root |-> NextUuid + i - 1, of |-> 0]]
    IN  /\ Writing(s, "liquidate")
        /\ Cardinality(DOMAIN book) + Len(codes) <= scen.orders
        /\ book' = Created(News)
        /\ reqs' = [reqs EXCEPT ![s].writes = [i \in DOMAIN codes |-> Upload(NextUuid + i - 1)] \o Tail(@)]
        /\ UNCHANGED <<scen, row, orders, trades, bot, ledger, sched, past>>

RemoveTemplate(s) ==
    /\ Writing(s, "remove")
    /\ row' = [row EXCEPT !.there = FALSE]
    /\ reqs' = [reqs EXCEPT ![s] = Idle]
    /\ UNCHANGED <<scen, book, orders, trades, bot, ledger, sched, past>>

\* api_stop_strategy reads the row again and synchronises it.
Reread(s) ==
    /\ Writing(s, "reread")
    /\ reqs' = [reqs EXCEPT ![s] = IF row.there /\ row.readable
                                   THEN [Idle EXCEPT !.kind = "ledger", !.pc = "orders", !.plan = row.plan]
                                   ELSE Idle]
    /\ UNCHANGED <<scen, row, book, orders, trades, bot, ledger, sched, past>>

(***************************************************************************)
(* The bot and the exchange, as far as this template's orders go.          *)
(***************************************************************************)
Settled(u) == \A t \in bot : t.uuid # u
\* A batch is about to delete and refund the order it found at rest.
Condemned(u) == \E s \in Slots : /\ reqs[s].kind = "batch" /\ u \in DOMAIN reqs[s].seen
                                 /\ reqs[s].seen[u].status \in Stale
GoesOn(h, u) == IF Condemned(u) THEN Dispute(h, u) ELSE h

Open(u) == orders[u].sent /\ orders[u].status \in {"wait", "partial", "market_closed", "cancel_requested"} /\ Settled(u)
Left(u) == book[u].vol - orders[u].filled

\* A reserved or expired order is sent for what is left of it and has a new uuid from then on.
Submit(u) ==
    /\ orders[u].status \in {"reserved", "pending_reorder"} /\ NextUuid <= scen.orders
    /\ book' = Put(book, NextUuid, [book[u] EXCEPT !.of = u])
    /\ orders' = Put(Drop(orders, u), NextUuid, [orders[u] EXCEPT !.status = "wait", !.sent = TRUE])
    /\ past' = GoesOn(past, u)
    /\ UNCHANGED <<scen, row, reqs, trades, bot, ledger, sched>>

PartFill(u) ==
    /\ Open(u) /\ orders[u].status # "cancel_requested" /\ Left(u) > 1
    /\ orders' = [orders EXCEPT ![u].filled = @ + 1, ![u].status = "partial"]
    /\ past' = GoesOn([past EXCEPT !.done = [@ EXCEPT ![book[u].root] = @ + 1]], u)
    /\ UNCHANGED <<scen, row, reqs, book, trades, bot, ledger, sched>>

CloseMarket(u) ==
    /\ Open(u) /\ orders[u].status \in {"wait", "partial"}
    /\ orders' = [orders EXCEPT ![u].status = "market_closed"]
    /\ UNCHANGED <<scen, row, reqs, book, trades, bot, ledger, sched, past>>

\* Cancelled by the exchange: what was filled of it is not logged.
Expire(u, again) ==
    /\ Open(u) /\ orders[u].status \in {"wait", "partial"}
    /\ again => Single
    /\ IF again THEN orders' = [orders EXCEPT ![u].status = "pending_reorder"]
       ELSE orders' = Drop(orders, u)
    /\ past' = IF orders[u].filled > 0 THEN Dispute(past, u) ELSE past
    /\ UNCHANGED <<scen, row, reqs, book, trades, bot, ledger, sched>>

\* Executed in full: the trade is logged and the row removed by two writes in any order.
Complete(u) ==
    /\ Open(u)
    /\ bot' = bot \cup {[do |-> "log", uuid |-> u], [do |-> "drop", uuid |-> u]}
    /\ orders' = [orders EXCEPT ![u].filled = book[u].vol]
    /\ past' = GoesOn([past EXCEPT !.done = [@ EXCEPT ![book[u].root] = @ + Left(u)]], u)
    /\ UNCHANGED <<scen, row, reqs, book, trades, ledger, sched>>

\* The bot does the cancellation asked for; an order it never sent it cannot cancel.
FinishCancel(u) ==
    /\ Open(u) /\ orders[u].status = "cancel_requested"
    /\ bot' = bot \cup {[do |-> "drop", uuid |-> u]}
                 \cup (IF orders[u].filled > 0 THEN {[do |-> "log", uuid |-> u]} ELSE {})
    /\ UNCHANGED <<scen, row, reqs, book, orders, trades, ledger, sched, past>>

LogTrade(u) ==
    /\ [do |-> "log", uuid |-> u] \in bot
    /\ bot' = bot \ {[do |-> "log", uuid |-> u]}
    /\ trades' = Put(trades, u, IF u \in DOMAIN orders THEN orders[u].filled ELSE past.done[book[u].root])
    /\ UNCHANGED <<scen, row, reqs, book, orders, ledger, sched, past>>

LogFails(u) ==
    /\ [do |-> "log", uuid |-> u] \in bot /\ Fault
    /\ bot' = bot \ {[do |-> "log", uuid |-> u]}
    /\ past' = Faulty(Dispute(past, u))
    /\ UNCHANGED <<scen, row, reqs, book, orders, trades, ledger, sched>>

DropRow(u) ==
    /\ [do |-> "drop", uuid |-> u] \in bot
    /\ bot' = bot \ {[do |-> "drop", uuid |-> u]}
    /\ orders' = Drop(orders, u)
    /\ past' = IF [do |-> "log", uuid |-> u] \in bot THEN Dispute(past, u) ELSE past
    /\ UNCHANGED <<scen, row, reqs, book, trades, ledger, sched>>

\* A buy of rsitrade that was filled gets its sell, which names it as the order it follows.
LinkSell(u) ==
    /\ scen.links /\ book[u].side = "bid" /\ orders[u].filled = book[u].vol
    /\ book[u].root \notin past.linked
    /\ NextUuid <= scen.orders
    /\ book' = Put(book, NextUuid, [book[u] EXCEPT !.side = "ask", !.root = NextUuid, !.of = u])
    /\ orders' = Put(orders, NextUuid, [status |-> "wait", filled |-> 0, sent |-> TRUE])
    /\ past' = [past EXCEPT !.linked = @ \cup {book[u].root, NextUuid}]
    /\ UNCHANGED <<scen, row, reqs, trades, bot, ledger, sched>>

BotStep(u) ==
    \/ Submit(u) \/ PartFill(u) \/ CloseMarket(u) \/ (\E again \in BOOLEAN : Expire(u, again))
    \/ Complete(u) \/ FinishCancel(u) \/ LinkSell(u)
BotWrite(t) == LogTrade(t.uuid) \/ LogFails(t.uuid) \/ DropRow(t.uuid)

(***************************************************************************)
(* The scheduler's loop, and the process it runs in.                       *)
(***************************************************************************)
\* Mutant: only the loop's own memory tells whether today's batch was run.
ScheduleFromMemory ==
    /\ ~Single /\ row.there /\ row.readable /\ row.plan.active /\ ~row.plan.archived
    /\ sched.day \notin sched.attempted
    /\ sched' = [sched EXCEPT !.due = TRUE, !.attempted = @ \cup {sched.day}]
    /\ UNCHANGED <<scen, row, reqs, book, orders, trades, bot, ledger, past>>

Schedule ==
    /\ ~Single /\ row.there /\ row.readable
    /\ row.plan.active /\ ~row.plan.archived
    /\ row.plan.lastRun # sched.day /\ sched.day \notin sched.attempted
    /\ sched' = [sched EXCEPT !.due = TRUE, !.attempted = @ \cup {sched.day}]
    /\ UNCHANGED <<scen, row, reqs, book, orders, trades, bot, ledger, past>>

NewDay ==
    /\ scen.mode # "total" /\ sched.day < MaxDay /\ Busy = {} /\ ~sched.due
    /\ sched' = [sched EXCEPT !.day = @ + 1, !.attempted = {}]
    /\ UNCHANGED <<scen, row, reqs, book, orders, trades, bot, ledger, past>>

Restart ==
    /\ Fault
    /\ sched.attempted # {} \/ Busy # {}
    /\ reqs' = [s \in Slots |-> Idle]
    /\ sched' = [sched EXCEPT !.due = FALSE, !.attempted = {}]
    /\ past' = Faulty(IF \E s \in Slots : reqs[s].posted # {} THEN Slip(past, {"unsaved"}) ELSE past)
    /\ UNCHANGED <<scen, row, book, orders, trades, bot, ledger>>

RequestStep(s) ==
    \/ ReadHoldings(s) \/ ReadOrders(s) \/ ReadOrdersFails(s) \/ ReadTrades(s) \/ MakeBatch(s)
    \/ PostRow(s) \/ PostFails(s) \/ SaveParams(s) \/ SaveFails(s) \/ DeleteOrder(s)
    \/ UploadOrder(s) \/ UploadFails(s) \/ Garble(s) \/ CancelBids(s) \/ CancelOne(s)
    \/ (\E answered \in BOOLEAN : Place(s, answered))
    \/ PlaceFails(s) \/ Liquidate(s) \/ RemoveTemplate(s) \/ Reread(s)

(***************************************************************************)
(* Properties.                                                             *)
(***************************************************************************)

\* The account and the tables have their types; no request writes without writes to do.
StrategyTypeOK ==
    /\ row.plan.carry \in Nat /\ row.plan.spent \in Nat /\ row.plan.epoch \in Nat \ {0}
    /\ row.plan.credited \in 0..MaxDay /\ row.plan.lastRun \in 0..MaxDay
    /\ row.plan.bought \subseteq Codes
    /\ \A p \in row.plan.pending : p.uuid \in DOMAIN book /\ p.epoch <= row.plan.epoch
    /\ DOMAIN orders \subseteq DOMAIN book /\ DOMAIN trades \subseteq DOMAIN book
    /\ \A u \in DOMAIN orders : orders[u].filled \in 0..book[u].vol
    /\ \A s \in Slots : reqs[s].pc = "write" => reqs[s].writes # <<>>

Posting == {s \in Slots : reqs[s].posted # {}}
Balance == IF Posting = {} THEN row.plan.carry
           ELSE Max({e.after : e \in UNION {reqs[s].posted : s \in Posting}})

\* The account of budget_manager's invariants 1 and 2, while nothing it does not guard
\* against has come between.
Account == INSTANCE BudgetAccount WITH
    epoch <- ledger.epoch, balance <- Balance, total <- ledger.total,
    days <- {k[2] : k \in {d \in ledger.days : d[1] = ledger.epoch}},
    exact <- past.slips = {}

Over(u) == \A v \in DOMAIN orders : book[v].root # u
Quiet == past.slips = {} /\ Posting = {}

\* What an epoch was charged for an order, less what it got back, covers what was executed of
\* it and no more than was ordered; a grid's order that is over was charged what it executed.
Paid(r) ==
    LET price == UnitPrice[book[r].code]
        net == ledger.net[r]
        accounted == Contains(row.plan.accounted, r) /\ \A p \in row.plan.pending : book[p.uuid].root # r
    IN  /\ net >= price * past.done[r] /\ net <= price * book[r].vol
        /\ (Single /\ accounted /\ Over(r)) => net = price * past.done[r]

PaidInFull == Quiet => \A r \in DOMAIN ledger.net \ (past.disputed \cup past.linked) : Paid(r)

RefundsTheUnfilled == Quiet => \A r \in DOMAIN ledger.net \ past.disputed : Paid(r)

\* One scheduled batch a day ends, also when the manager is started again in between.
BatchOncePerDay == ~past.torn => \A d \in 1..MaxDay : past.runs[d] <= 1

\* Synchronising twice writes nothing the second time.
SyncIsIdempotent ==
    Single => LET once == SyncEvents(row.plan, orders) IN SyncEvents(once.plan, orders).rows = <<>>

=============================================================================
