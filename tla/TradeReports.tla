---------------------------- MODULE TradeReports ----------------------------
(***************************************************************************)
(* The manager's reports of the trade log (routers/reports.py): positions  *)
(* at average cost, what sells realised, and the tables made of it.        *)
(*                                                                         *)
(* A trade is [user, exchange, ticker, side, price, vol, fee, at,          *)
(* strategy, group, template], the last two 0 for none; its uuid is its    *)
(* place in the log.  Trades need not be logged in the order they were     *)
(* executed in.  Amounts are in parts of a won small enough for every      *)
(* average to be exact.                                                    *)
(***************************************************************************)
EXTENDS Integers, SequencesExt, FiniteSetsExt, Functions

CONSTANTS
    Trades,    \* that may be logged, [at |-> 0]
    Times, DayOf, MonthOf,   \* when they may be executed, [times -> days], [days -> months]
    Fetched,   \* how many trades a report reads: 5000
    Templates, \* [id, user, type, exchange, ticker]
    PriceNow,  \* [tickers -> Nat \ {0}]
    American,  \* tickers of stocks that KRX does not know
    MaxTrades  \* bound on the log

VARIABLE log

Lower(a, b) == IF a <= b THEN a ELSE b
NotBelow0(n) == IF n < 0 THEN 0 ELSE n
Positive(n) == IF n < 0 THEN -n ELSE n
SumOf(seq, Of(_)) == FoldLeft(LAMBDA n, e : n + Of(e), 0, seq)

Keys == {<<t.user, t.exchange, t.ticker>> : t \in Trades}

(***************************************************************************)
(* Reading.                                                                *)
(***************************************************************************)
\* _iter_trades_asc: by time, then uuid.
Earlier(i, j) == log[i].at < log[j].at \/ (log[i].at = log[j].at /\ i < j)

\* The newest trades, in the order they were executed in.
FetchTrades ==
    LET order == SetToSortSeq(DOMAIN log, Earlier)
        newest == SubSeq(order, NotBelow0(Len(order) - Fetched) + 1, Len(order))
    IN  [i \in DOMAIN newest |-> log[newest[i]]]

\* _resolve_window: whole days, the last one included.
Window(from, to) == {at \in Times : DayOf[at] >= from /\ DayOf[at] <= to}

(***************************************************************************)
(* Positions and what was realised of them.                                *)
(***************************************************************************)
PositionKey(t) == <<t.user, t.exchange, t.ticker>>
NewPosition == [qty |-> 0, cost |-> 0, opened |-> 0, oversold |-> 0]

\* Mutant: the fee of a buy is not part of what it cost.
BoughtWithoutFee(pos, t) ==
    [pos EXCEPT !.qty = @ + t.vol, !.cost = @ + t.price * t.vol,
                !.opened = IF pos.qty = 0 THEN t.at ELSE @]

Bought(pos, t) ==
    [pos EXCEPT !.qty = @ + t.vol, !.cost = @ + t.price * t.vol + t.fee,
                !.opened = IF pos.qty = 0 THEN t.at ELSE @]

Matched(pos, t) == Lower(t.vol, pos.qty)
RealizedCost(pos, t) == (pos.cost * Matched(pos, t)) \div pos.qty

Sold(pos, t) ==
    [qty |-> pos.qty - Matched(pos, t),
     cost |-> pos.cost - RealizedCost(pos, t),
     opened |-> IF pos.qty = Matched(pos, t) THEN 0 ELSE pos.opened,
     oversold |-> pos.oversold + (IF t.vol > Matched(pos, t) THEN 1 ELSE 0)]

RealizedEvent(pos, t) ==
    LET ask == t.price * Matched(pos, t)
        fee == (t.fee * Matched(pos, t)) \div t.vol
    IN  [exchange |-> t.exchange, ticker |-> t.ticker, strategy |-> t.strategy, at |-> t.at,
         vol |-> Matched(pos, t), bid |-> RealizedCost(pos, t), ask |-> ask, fee |-> fee,
         pnl |-> ask - fee - RealizedCost(pos, t), held |-> t.at - pos.opened]

Apply(window, state, t) ==
    LET pos == state.positions[PositionKey(t)]
        Into(p) == [state EXCEPT !.positions[PositionKey(t)] = p]
    IN  CASE t.side = "bid" -> Into(Bought(pos, t))
          [] pos.qty = 0 -> Into([pos EXCEPT !.oversold = @ + 1])
          [] t.at \in window -> [Into(Sold(pos, t)) EXCEPT !.events = Append(@, RealizedEvent(pos, t))]
          [] OTHER -> Into(Sold(pos, t))

\* [positions, events]: of the whole log, and the sells of the window.
BuildReportState(trades, window) ==
    LET ApplyOne(state, t) == Apply(window, state, t)
    IN  FoldLeft(ApplyOne, [positions |-> [k \in Keys |-> NewPosition], events |-> <<>>], trades)

(***************************************************************************)
(* The tables.                                                             *)
(***************************************************************************)
SumUp(events) ==
    [bid |-> SumOf(events, LAMBDA e : e.bid), ask |-> SumOf(events, LAMBDA e : e.ask),
     fee |-> SumOf(events, LAMBDA e : e.fee), trades |-> Len(events),
     wins |-> Len(SelectSeq(events, LAMBDA e : e.pnl > 0)),
     pnl |-> SumOf(events, LAMBDA e : e.ask) - SumOf(events, LAMBDA e : e.fee) - SumOf(events, LAMBDA e : e.bid)]

RowsBy(events, KeyOf(_)) ==
    [k \in {KeyOf(e) : e \in Range(events)} |-> SumUp(SelectSeq(events, LAMBDA e : KeyOf(e) = k))]

PnlRows(events) == RowsBy(events, LAMBDA e : <<e.exchange, e.ticker>>)
StrategyRows(events) == RowsBy(events, LAMBDA e : e.strategy)
ExchangeRows(events) == RowsBy(events, LAMBDA e : e.exchange)

\* Each day with the total so far.
DailyRows(events) ==
    LET rows == RowsBy(events, LAMBDA e : DayOf[e.at])
    IN  [day \in DOMAIN rows |->
            [pnl |-> rows[day].pnl,
             cumulative |-> SumOf(SelectSeq(events, LAMBDA e : DayOf[e.at] <= day), LAMBDA e : e.pnl)]]

\* Each month with its bar, in percent of the largest.
MonthlyRows(events) ==
    LET rows == RowsBy(events, LAMBDA e : MonthOf[DayOf[e.at]])
        largest == Max({1} \cup {Positive(rows[m].pnl) : m \in DOMAIN rows})
    IN  [m \in DOMAIN rows |-> [pnl |-> rows[m].pnl, bar |-> (100 * Positive(rows[m].pnl)) \div largest]]

\* The longest held first.
PairRows(events) ==
    LET order == SetToSortSeq(DOMAIN events, LAMBDA i, j : events[i].held > events[j].held
                                                          \/ (events[i].held = events[j].held /\ i < j))
    IN  [i \in DOMAIN events |-> events[order[i]]]

WinStats(pairs) ==
    [wins |-> Len(SelectSeq(pairs, LAMBDA p : p.pnl > 0)), losses |-> Len(SelectSeq(pairs, LAMBDA p : p.pnl <= 0))]

\* The running total, its peak, and how far it fell below it.
DrawdownStats(events) ==
    LET Point(d, e) ==
            [total |-> d.total + e.pnl,
             peak |-> Max({d.peak, d.total + e.pnl}),
             worst |-> Max({d.worst, d.peak - d.total - e.pnl}),
             won |-> d.won + NotBelow0(e.pnl), lost |-> d.lost + NotBelow0(-e.pnl)]
    IN  FoldLeft(Point, [total |-> 0, peak |-> 0, worst |-> 0, won |-> 0, lost |-> 0], events)

\* What is reported of the sells of a window.
Report(from, to) ==
    LET Of(events) ==
            [pnl |-> PnlRows(events), strategy |-> StrategyRows(events), exchange |-> ExchangeRows(events),
             daily |-> DailyRows(events), monthly |-> MonthlyRows(events), drawdown |-> DrawdownStats(events),
             wins |-> WinStats(PairRows(events)), events |-> events]
    IN  Of(BuildReportState(FetchTrades, Window(from, to)).events)

(***************************************************************************)
(* Holdings at current prices.  Crypto prices are asked of the exchanges,  *)
(* one failing keeps the next from being asked; those of stocks of the     *)
(* bot, and for Korean ones of KRX when the bot has none.                  *)
(***************************************************************************)
Sources == {"upbit", "bithumb", "bot", "krx"}

FetchCurrentPrices(keys, answering) ==
    LET asked(exchange) == \E k \in keys : k[2] = exchange
        Priced(k) == CASE k[2] = "upbit" -> "upbit" \in answering
                       [] k[2] = "bithumb" -> "bithumb" \in answering /\ (asked("upbit") => "upbit" \in answering)
                       [] OTHER -> "bot" \in answering \/ ("krx" \in answering /\ k[3] \notin American)
    IN  [k \in Keys |-> IF k \in keys /\ Priced(k) THEN PriceNow[k[3]] ELSE 0]

\* By exchange and ticker, over the users; what has no price is worth nothing and gains nothing.
HoldingsRows(positions, prices) ==
    LET held == {k \in Keys : positions[k].qty > 0}
        Of(row) == {k \in held : <<k[2], k[3]>> = row}
        Sum(S, F(_)) == FoldSet(LAMBDA k, n : n + F(k), 0, S)
        Value(k) == prices[k] * positions[k].qty
        Pnl(k) == IF prices[k] > 0 THEN Value(k) - positions[k].cost ELSE 0
    IN  [row \in {<<k[2], k[3]>> : k \in held} |->
            [qty |-> Sum(Of(row), LAMBDA k : positions[k].qty),
             cost |-> Sum(Of(row), LAMBDA k : positions[k].cost),
             value |-> Sum(Of(row), Value), pnl |-> Sum(Of(row), Pnl),
             oversold |-> \E k \in Of(row) : positions[k].oversold > 0]]

Category(row) ==
    CASE row[1] = "toss" /\ row[2] \in American -> "us_stock"
      [] row[1] \in {"kis", "toss"} -> "kr_stock"
      [] OTHER -> "crypto"

Worth(rows, group) == FoldSet(LAMBDA row, n : n + rows[row].value, 0, group)
Allocation(rows) ==
    [exchange |-> [x \in {row[1] : row \in DOMAIN rows} |-> Worth(rows, {row \in DOMAIN rows : row[1] = x})],
     category |-> [c \in {"crypto", "kr_stock", "us_stock"} |->
                      Worth(rows, {row \in DOMAIN rows : Category(row) = c})]]

(***************************************************************************)
(* Batches and their time line, which keep their own average cost for all  *)
(* users together, by group when one group is asked for, and               *)
(* get_template_holdings, which reads the trades as they come.             *)
(***************************************************************************)
Groups == {t.group : t \in Trades}
Lines == {<<k[2], k[3]>> : k \in Keys}
NoLine == [qty |-> 0, avg |-> 0, pnl |-> 0]
NoBatch == [bid |-> 0, ask |-> 0, pnl |-> 0, qty |-> 0]

Continue(line, t) ==
    IF t.side = "bid"
    THEN [line EXCEPT !.qty = @ + t.vol, !.avg = (line.qty * @ + t.price * t.vol + t.fee) \div (line.qty + t.vol)]
    ELSE [line EXCEPT !.qty = NotBelow0(@ - t.vol),
                      !.pnl = @ + (IF line.avg > 0 THEN (t.price - line.avg) * t.vol - t.fee ELSE 0)]

AddToBatch(batch, t, before, after) ==
    [bid |-> batch.bid + (IF t.side = "bid" THEN t.price * t.vol ELSE 0),
     ask |-> batch.ask + (IF t.side = "ask" THEN t.price * t.vol ELSE 0),
     pnl |-> batch.pnl + after.pnl - before.pnl, qty |-> after.qty]

\* [lines, batches]; trades of no group are not of a batch.
BatchesAndTimeline(trades, filtered) ==
    LET KeyOf(t) == <<t.exchange, t.ticker, IF filtered THEN t.group ELSE 0>>
        Add(state, t, before, after) ==
            [lines |-> [state.lines EXCEPT ![KeyOf(t)] = after],
             batches |-> IF t.group = 0 THEN state.batches
                         ELSE [state.batches EXCEPT ![t.group] = AddToBatch(@, t, before, after)]]
        AddOne(state, t) == Add(state, t, state.lines[KeyOf(t)], Continue(state.lines[KeyOf(t)], t))
    IN  FoldLeft(AddOne, [lines |-> [l \in {<<r[1], r[2], g>> : r \in Lines, g \in Groups \cup {0}} |-> NoLine],
                          batches |-> [g \in Groups |-> NoBatch]], trades)

\* The trades of a template: by its id, those of none by exchange, ticker and strategy.
AllowedStrategies(type) ==
    CASE type = "rsitrade" -> {"rsitrade", "rsitrade_sell", "rsi", "sgridrsi"}
      [] type = "dca" -> {"dca", "sdca"}
      [] type = "kospi_top_dca" -> {}
      [] OTHER -> {type}

TradesOfTemplate(tpl, trades) ==
    SelectSeq(trades, LAMBDA t : IF t.template # 0 THEN t.template = tpl.id
                                 ELSE t.exchange = tpl.exchange /\ t.ticker = tpl.ticker
                                      /\ t.strategy \in AllowedStrategies(tpl.type))

Held(h, t) ==
    CASE t.side = "bid" -> [qty |-> h.qty + t.vol, cost |-> h.cost + t.price * t.vol + t.fee]
      [] h.qty > 0 -> [qty |-> NotBelow0(h.qty - t.vol), cost |-> (NotBelow0(h.qty - t.vol) * h.cost) \div h.qty]
      [] OTHER -> h

\* [tickers -> [qty, cost]].
GetTemplateHoldings(id) ==
    LET HeldOne(holdings, t) == [holdings EXCEPT ![t.ticker] = Held(@, t)]
    IN  FoldLeft(HeldOne, [ticker \in {k[3] : k \in Keys} |-> [qty |-> 0, cost |-> 0]],
                 SelectSeq(log, LAMBDA t : t.template = id))

\* A template's trades, or, while it has none, those of its kind that are of no template.
StrategyDetail(tpl, answering) ==
    LET own == SelectSeq(log, LAMBDA t : t.template = tpl.id)
        key == <<tpl.user, tpl.exchange, tpl.ticker>>
        holding == GetTemplateHoldings(tpl.id)[tpl.ticker]
        price == FetchCurrentPrices({key}, answering)[key]
    IN  [trades |-> IF own # <<>> THEN own
                    ELSE SelectSeq(TradesOfTemplate(tpl, log), LAMBDA t : t.user = tpl.user),
         qty |-> holding.qty,
         pnl |-> IF price > 0 /\ holding.cost > 0 THEN holding.qty * price - holding.cost ELSE 0]

(***************************************************************************)
(* The log.                                                                *)
(***************************************************************************)
ReportsInit == log = <<>>

LogTrade(t, at) ==
    /\ Len(log) < MaxTrades
    /\ log' = Append(log, [t EXCEPT !.at = at])

(***************************************************************************)
(* Properties.                                                             *)
(***************************************************************************)
Days == Range(DayOf)
Whole == BuildReportState(FetchTrades, Times)
Total(rows) == FoldSet(LAMBDA k, n : n + rows[k].pnl, 0, DOMAIN rows)

TablesAgree(report) ==
    LET total == SumOf(report.events, LAMBDA e : e.pnl)
        days == DOMAIN report.daily
    IN  /\ {Total(report.pnl), Total(report.strategy), Total(report.exchange),
            Total(report.monthly), report.drawdown.total} = {total}
        /\ days # {} => report.daily[Max(days)].cumulative = total
        /\ report.drawdown.won - report.drawdown.lost = total
        /\ report.wins.wins + report.wins.losses = Len(report.events)

\* What the buys of a position cost, fees included, is what its sells realised and what is left.
CostIsConserved ==
    \A k \in Keys :
        LET mine == SelectSeq(FetchTrades, LAMBDA t : PositionKey(t) = k)
            alone == BuildReportState(mine, Times)
        IN  /\ SumOf(SelectSeq(mine, LAMBDA t : t.side = "bid"), LAMBDA t : t.price * t.vol + t.fee)
                 = SumOf(alone.events, LAMBDA e : e.bid) + Whole.positions[k].cost
            /\ Whole.positions[k].qty = 0 => Whole.positions[k].cost = 0

\* Windows that follow each other share out what the whole time realised.
WindowsAddUp ==
    \A day \in Days :
        LET Realised(from, to) == SumOf(BuildReportState(FetchTrades, Window(from, to)).events, LAMBDA e : e.pnl)
        IN  Realised(1, day) + Realised(day + 1, Max(Days)) = SumOf(Whole.events, LAMBDA e : e.pnl)

InOrder == \A i \in 1..(Len(log) - 1) : log[i].at <= log[i + 1].at
NeverOversold == \A k \in Keys : Whole.positions[k].oversold = 0
OneUser(row) == \A j, k \in Keys : <<j[2], j[3]>> = row /\ <<k[2], k[3]>> = row
                                     /\ (\E i \in DOMAIN log : PositionKey(log[i]) = j)
                                     /\ (\E i \in DOMAIN log : PositionKey(log[i]) = k) => j = k

Realised(events) == SumOf(events, LAMBDA e : e.pnl)

\* The time line realised what the positions did, when nothing was sold that was not bought.
TimelineAgrees ==
    NeverOversold =>
        \A row \in {r \in Lines : OneUser(r)} :
            BatchesAndTimeline(FetchTrades, FALSE).lines[<<row[1], row[2], 0>>].pnl =
                Realised(SelectSeq(Whole.events, LAMBDA e : <<e.exchange, e.ticker>> = row))

\* And so did each batch, its trades alone, asked for by its number or by its template.
BatchesAgree ==
    \A g \in Groups \ {0} :
        LET mine == SelectSeq(FetchTrades, LAMBDA t : t.group = g)
            alone == BuildReportState(mine, Times)
            Of(trades) == BatchesAndTimeline(trades, TRUE).batches[g]
        IN  (\A k \in Keys : alone.positions[k].oversold = 0 /\ OneUser(<<k[2], k[3]>>)) =>
                /\ Of(FetchTrades).pnl = Realised(alone.events)
                /\ \A tpl \in Templates :
                     (\A t \in Range(mine) : t.template = tpl.id) =>
                        Of(TradesOfTemplate(tpl, FetchTrades)) = Of(FetchTrades)

\* A template's holdings are the positions of its trades, if they come in order; with a price
\* its detail gains on them what the holdings report would.
HoldingsAgree ==
    InOrder =>
        \A tpl \in Templates :
            LET own == SelectSeq(log, LAMBDA t : t.template = tpl.id)
                key == <<tpl.user, tpl.exchange, tpl.ticker>>
                alone == BuildReportState(own, Times).positions
                detail == StrategyDetail(tpl, Sources)
            IN  (\A t \in Range(own) : PositionKey(t) = key) =>
                    /\ GetTemplateHoldings(tpl.id)[tpl.ticker] = [qty |-> alone[key].qty, cost |-> alone[key].cost]
                    /\ own # <<>> /\ detail.qty > 0 =>
                         detail.pnl = HoldingsRows(alone, FetchCurrentPrices({key}, Sources))[<<tpl.exchange, tpl.ticker>>].pnl

\* Whatever sources answer, both allocations share out what the holdings are worth.
AllocationsAgree ==
    \A answering \in SUBSET Sources :
        LET rows == HoldingsRows(Whole.positions, FetchCurrentPrices({PositionKey(t) : t \in Range(log)}, answering))
            Shared(f) == FoldSet(LAMBDA g, n : n + f[g], 0, DOMAIN f)
        IN  /\ Shared(Allocation(rows).exchange) = Shared(Allocation(rows).category)
            /\ \A row \in DOMAIN rows : rows[row].pnl # 0 => rows[row].value > 0

\* The reports of a log agree with each other and with the log.
ReportsAgree ==
    /\ \A from, to \in Days : TablesAgree(Report(from, to))
    /\ CostIsConserved /\ WindowsAddUp /\ TimelineAgrees /\ BatchesAgree
    /\ HoldingsAgree /\ AllocationsAgree

=============================================================================
