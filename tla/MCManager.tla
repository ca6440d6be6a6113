----------------------------- MODULE MCManager -----------------------------
(***************************************************************************)
(* Model values for the manager's components, of which it extends Universe *)
(* and instantiates the others.  As in MCBot, each behaviour is one        *)
(* component's.                                                            *)
(***************************************************************************)
EXTENDS Universe

CONSTANT Kept

VARIABLES
    turn,
    scen, row, reqs, book, orders, trades, bot, ledger, sched, past,
    log,
    day, conf, sim, live

Parts == {"strategy", "reports", "backtest", "universe"}

strategyVars == <<scen, row, reqs, book, orders, trades, bot, ledger, sched, past>>
backtestVars == <<day, conf, sim, live>>
vars == <<turn, strategyVars, log, backtestVars, universeVars>>

StrategyStep(A) == turn = "strategy" /\ A /\ UNCHANGED <<turn, log, backtestVars, universeVars>>

(***************************************************************************)
(* A strategy and its budget: a grid or an rsitrade of one order, or TOP 1 *)
(* of two codes, each with requests that share something.  A buy of "A" is *)
(* of two units and may be filled in part, one of "B" is of one.           *)
(***************************************************************************)
Of(type, ticker, mode, begun, requests, faults, most) ==
    [type |-> type, ticker |-> ticker, mode |-> mode, begun |-> begun, links |-> FALSE,
     asks |-> requests, faults |-> faults, orders |-> most]
Plan(mode, monthly, daily, soon) == [mode |-> mode, monthly |-> monthly, daily |-> daily, today |-> soon]

Grid(ticker, requests, faults) == Of("single", ticker, "total", TRUE, requests, faults, 2)

TheScenarios ==
    {Grid("B", <<"execute", "ledger">>, 1), Grid("B", <<"execute", "stop">>, 1), Grid("A", <<"execute", "ledger">>, 0),
     Grid("B", <<"execute", "reset", "ledger">>, 0), Grid("B", <<"execute", "ledger", "liquidate">>, 0),
     [Grid("B", <<"execute", "ledger", "ledger">>, 0) EXCEPT !.links = TRUE]}
    \cup {Of("single", "B", "total", FALSE, <<kind, "topup">>, 1, 2) : kind \in {"plan", "update"}}
    \cup {Of("single", "B", "monthly", TRUE, <<"plan", "execute">>, 1, 2),
          Of("topn", "A", "monthly", TRUE, <<"plan">>, 0, 4)}
    \cup {Of("topn", "A", "monthly", TRUE, <<kind>>, 1, 3) : kind \in {"reset", "stop", "batch"}}
    \cup {Of("topn", "A", "daily", TRUE, <<kind>>, 1, 2) : kind \in {"topup", "update", "liquidate"}}
    \cup {Of("topn", "A", "daily", TRUE, <<"hold">> \o kinds, 0, 2) :
            kinds \in {<<"hold">>, <<"archive", "restore">>, <<"archive", "delete">>}}

Strategy == INSTANCE StrategyBudget WITH
    Scenarios <- TheScenarios, Slots <- {1, 2}, Codes <- {"A", "B"},
    UnitPrice <- [c \in {"A", "B"} |-> IF c = "A" THEN 1 ELSE 2],
    Rankings <- <<<<"A", "B">>, <<"B", "A">>>>, MonthOf <- <<1, 2>>, DaysLeft <- <<2, 1>>,
    RankStart <- 1, RankEnd <- 1, RankBuffer <- 0, HoldPromoted <- FALSE, ConfirmDays <- 1, SplitDays <- 2,
    MaxLoops <- 2, SmallChange <- 0, Volume <- 1, Budget <- 2, Daily <- 1,
    TopUps <- {1}, Plans <- {Plan("total", 3, 0, TRUE), Plan("monthly", 0, 0, TRUE), Plan("daily", 2, 2, FALSE)},
    Initials <- {[initial |-> 1, cycle |-> TRUE]},
    MaxDay <- 2, MaxOrders <- 4

StrategyNext ==
    \/ \E s \in {1, 2} :
         \/ \E kind \in {scen.asks[i] : i \in DOMAIN scen.asks} : \E arg \in Strategy!Args(kind) : StrategyStep(Strategy!Begin(s, kind, arg))
         \/ StrategyStep(Strategy!BeginScheduled(s))
         \/ StrategyStep(Strategy!RequestStep(s))
    \/ \E u \in DOMAIN orders : StrategyStep(Strategy!BotStep(u))
    \/ \E t \in bot : StrategyStep(Strategy!BotWrite(t))
    \/ StrategyStep(Strategy!Schedule) \/ StrategyStep(Strategy!NewDay) \/ StrategyStep(Strategy!Restart)

(***************************************************************************)
(* The reports: two users' trades of "A" on an exchange, one's of the      *)
(* stock "B", in twelfths; a buy, or a later trade logged first, may be    *)
(* out of what is read.                                                    *)
(***************************************************************************)
Trade(user, exchange, ticker, side, price, vol, fee) ==
    [user |-> user, exchange |-> exchange, ticker |-> ticker, side |-> side, price |-> price, vol |-> vol,
     fee |-> fee, at |-> 0, strategy |-> "manual", group |-> 0, template |-> 0]
OfGroup(t, strategy, group, template) ==
    [t EXCEPT !.strategy = strategy, !.group = group, !.template = template]

TheTrades ==
    {OfGroup(Trade("u1", "upbit", "A", "bid", 12, 1, 12), "dca", 1, 1),
     OfGroup(Trade("u1", "upbit", "A", "bid", 24, 2, 0), "rsitrade", 2, 0),
     OfGroup(Trade("u1", "upbit", "A", "ask", 24, 1, 12), "dca", 1, 1),
     OfGroup(Trade("u1", "upbit", "A", "ask", 36, 2, 24), "rsitrade", 2, 0),
     OfGroup(Trade("u2", "upbit", "A", "bid", 12, 1, 0), "dca", 1, 0),
     Trade("u1", "toss", "B", "bid", 12, 1, 0)}

Reports == INSTANCE TradeReports WITH
    Trades <- TheTrades, Times <- {1, 2}, DayOf <- <<1, 2>>, MonthOf <- <<1, 2>>,
    Templates <- {[id |-> 1, user |-> "u1", type |-> "dca", exchange |-> "upbit", ticker |-> "A"],
                  [id |-> 2, user |-> "u1", type |-> "rsitrade", exchange |-> "upbit", ticker |-> "A"]},
    Fetched <- 3, PriceNow <- [t \in {"A", "B"} |-> IF t = "A" THEN 24 ELSE 12], American <- {"B"}, MaxTrades <- 4

LogTrade == \E t \in TheTrades, at \in {1, 2} :
    turn = "reports" /\ Reports!LogTrade(t, at) /\ UNCHANGED <<turn, strategyVars, backtestVars, universeVars>>

(***************************************************************************)
(* The backtest of TOP 2 of three codes over two months of two days.       *)
(***************************************************************************)
Codes == {"A", "B", "C"}
Config(mode, monthly, daily, initial, recycles, custom) ==
    [mode |-> mode, monthly |-> monthly, daily |-> daily, initial |-> initial, recycles |-> recycles, custom |-> custom]
Event(kind, amount, plan, cycle) == [kind |-> kind, amount |-> amount, plan |-> plan, cycle |-> cycle]
NewPlan(mode, monthly, daily) == [mode |-> mode, monthly |-> monthly, daily |-> daily]

TheConfigs ==
    {Config("monthly", 6, 0, 0, FALSE, {}), Config("daily", 5, 2, 1, FALSE, {"B", "C"}),
     Config("total", 0, 0, 4, FALSE, {}), Config("daily", 0, 1, 0, TRUE, {})}
TheEvents ==
    {Event("hold", 1, {}, FALSE), Event("hold", 0, {}, FALSE), Event("topup", 2, {}, FALSE),
     Event("plan", 0, NewPlan("monthly", 4, 0), FALSE), Event("plan", 0, NewPlan("daily", 0, 1), FALSE),
     Event("reset", 1, {}, TRUE), Event("reset", 0, {}, FALSE)}
TheRankings == {<<"A", "B", "C">>, <<"B", "C", "A">>}

Backtests == INSTANCE Backtest WITH
    Configs <- TheConfigs, Events <- TheEvents, Rankings <- TheRankings,
    PriceOn <- [d \in 1..4 |-> [c \in Codes |-> IF c = "A" /\ d \in {2, 4} THEN 2 ELSE 1]],
    MonthOf <- <<1, 1, 2, 2>>, DaysLeft <- <<2, 1, 2, 1>>,
    RankStart <- 1, RankEnd <- 2, RankBuffer <- 0, HoldPromoted <- FALSE, ConfirmDays <- 1, SplitDays <- 2,
    Volume <- 1, MaxLoops <- 3, SmallChange <- 0

BacktestStep == turn = "backtest" /\ Backtests!BacktestNext /\ UNCHANGED <<turn, strategyVars, log, universeVars>>

(***************************************************************************)
(* The rankings of a market on two days: "P" is no ordinary share.         *)
(***************************************************************************)
TheMarkets == {"KOSPI", "UPBIT_KRW", "BITHUMB_KRW"}
TheListings == {<<"P", "A", "B">>, <<"B", "A">>}
TheBuiltIn == <<"A", "B">>

UniverseStep == turn = "universe" /\ UniverseNext /\ UNCHANGED <<turn, strategyVars, log, backtestVars>>

\* Which component a behaviour is of; the strategy starts in one of its scenarios.
Init ==
    /\ turn \in Parts
    /\ Strategy!StrategyInit /\ Reports!ReportsInit /\ Backtests!BacktestInit /\ UniverseInit
    /\ turn # "strategy" => scen = CHOOSE s \in TheScenarios : TRUE
    /\ turn # "backtest" => conf = CHOOSE c \in TheConfigs : TRUE
    /\ turn # "universe" => market = "KOSPI"

Next == StrategyNext \/ LogTrade \/ BacktestStep \/ UniverseStep

Spec == Init /\ [][Next]_vars

LinkedSellsOnly == Init /\ turn = "strategy" /\ scen.links /\ [][Next]_vars

\* Every component's variables have their types.
TypeOK == Strategy!StrategyTypeOK

\* The ledger's rows add up to the balance, and each day is credited once (budget_manager).
AccountKept == Strategy!Account!Spec

\* What a buy cost an epoch is what was executed of it.
PaidInFull == Strategy!PaidInFull

\* The scheduler's batch ends once a day.
BatchOncePerDay == Strategy!BatchOncePerDay

\* A second synchronisation of the budget writes nothing.
SyncIsIdempotent == Strategy!SyncIsIdempotent

\* The reports of a trade log agree with each other and with the log (reports).
ReportsAgree == turn = "reports" => Reports!ReportsAgree

\* A backtest makes the orders the daily batch would have made (backtest_engine).
BacktestFollowsTheBatch == turn = "backtest" => Backtests!FollowsTheBatch

\* The rotation report says what the next batch will do (reports, top-rotation).
ReportForetellsTheBatch == turn = "backtest" => Backtests!ReportForetellsTheBatch

\* Only what was not executed of an order is refunded, as the centralization plan says.
RefundsTheUnfilled == Strategy!RefundsTheUnfilled
==============================================================================
