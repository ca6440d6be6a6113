------------------------------ MODULE Backtest ------------------------------
(***************************************************************************)
(* The backtest of a TOP N strategy (services/backtest_engine.py), beside  *)
(* the strategy it stands for: the same days, rankings, prices and events, *)
(* and every order of the daily batch executed in full on its day.         *)
(*                                                                         *)
(* An event is [kind, amount, plan, cycle]; amounts are whole units.       *)
(***************************************************************************)
EXTENDS Integers, SequencesExt, Folds

CONSTANTS
    Codes,
    Configs,    \* [mode, monthly, daily, initial, recycles, custom]
    Events,     \* what may happen on a day, besides nothing
    Rankings,   \* a day's rankings
    PriceOn,    \* [days -> [Codes -> Nat \ {0}]]
    MonthOf, DaysLeft,   \* [days -> Nat]
    RankStart, RankEnd, RankBuffer, HoldPromoted, ConfirmDays, SplitDays, Volume, MaxLoops, SmallChange

VARIABLES
    day,    \* the days done
    conf,   \* which of Configs, for good
    sim,    \* the backtest's state: see BacktestInit
    live    \* [plan, qty, holding, sold, plain]: the strategy's

backtestVars == <<day, conf, sim, live>>

LastDay == Len(PriceOn)
Today == day + 1
NoEvent == [kind |-> "none", amount |-> 0, plan |-> {}, cycle |-> FALSE]

Budget == INSTANCE BudgetPlan WITH UnitPrice <- PriceOn[1]
Step(prices) == INSTANCE TopNPlan WITH UnitPrice <- prices, Quantity <- Volume
Universe == INSTANCE UniverseTargets
Rotation(prices) == INSTANCE RotationReport WITH UnitPrice <- prices, Quantity <- Volume

FirstPlan(c) ==
    [epoch |-> 1, mode |-> c.mode, monthly |-> c.monthly, daily |-> c.daily, carry |-> c.initial,
     spent |-> 0, credited |-> 0, month |-> 1, recycles |-> c.recycles, begun |-> TRUE,
     accounted |-> <<>>, recycled |-> <<>>, pending |-> {}, sells |-> {},
     bought |-> {}, cycle |-> 1, streaks |-> [k \in Codes |-> 0], exits |-> [k \in Codes |-> 0], lastRun |-> 0]

Nothing == [code \in Codes |-> 0]

BacktestInit ==
    /\ day = 0
    /\ conf \in Configs
    /\ sim = [plan |-> FirstPlan(conf), qty |-> Nothing, holding |-> FALSE, month |-> 0,
              invested |-> conf.initial, posted |-> 0, peak |-> 0, worst |-> 0,
              tracked |-> 1, begun |-> 1, durations |-> <<>>]
    /\ live = [plan |-> FirstPlan(conf), qty |-> Nothing, holding |-> FALSE, sold |-> 0, plain |-> TRUE]

(***************************************************************************)
(* A day of the backtest.                                                  *)
(***************************************************************************)
\* Mutant: what was spent last month counts against this month's budget.
MonthNeverBegins(s) == [s EXCEPT !.month = MonthOf[Today]]

MonthBegun(s) ==
    IF s.month = MonthOf[Today] THEN s ELSE [s EXCEPT !.month = MonthOf[Today], !.plan.spent = 0]

Applied(s, e) ==
    CASE e.kind = "hold" -> [s EXCEPT !.holding = (e.amount = 1)]
      [] e.kind = "topup" -> [s EXCEPT !.plan.carry = @ + e.amount, !.invested = @ + e.amount, !.posted = @ + e.amount]
      [] e.kind = "plan" -> [s EXCEPT !.plan.mode = e.plan.mode, !.plan.monthly = e.plan.monthly, !.plan.daily = e.plan.daily]
      [] e.kind = "reset" ->
           [s EXCEPT !.plan.epoch = @ + 1, !.plan.carry = e.amount, !.plan.spent = 0,
                     !.plan.bought = IF e.cycle THEN {} ELSE @, !.plan.cycle = IF e.cycle THEN 1 ELSE @]
      [] OTHER -> s

Charged(s) ==
    LET allowance == Budget!Allowance(s.plan, Today)
    IN  IF s.holding THEN s
        ELSE [s EXCEPT !.plan.carry = @ + allowance, !.invested = @ + allowance, !.posted = @ + allowance]

Targets(ranking) == Universe!Resolve(conf.custom, {}, ranking)

Held(qty) == [code \in {c \in Codes : qty[c] > 0} |-> qty[code]]
Traded(qty, step) ==
    [code \in Codes |-> qty[code] - (IF code \in DOMAIN step.sells THEN step.sells[code] ELSE 0)
                          + Volume * Len(SelectSeq(step.buys, LAMBDA c : c = code))]
CostOf(buys) == FoldLeft(LAMBDA n, c : n + Volume * PriceOn[Today][c], 0, buys)
Proceeds(sells) == Step(PriceOn[Today])!Proceeds(sells)

\* The proceeds that step_single_day has already added in a dry run are added again.
Run(s, step) ==
    LET recycled == IF s.plan.recycles THEN Proceeds(step.sells) ELSE 0
    IN  [s EXCEPT !.plan = [step.plan EXCEPT !.carry = @ + recycled],
                  !.qty = Traded(@, step), !.posted = @ - CostOf(step.buys) + recycled]

CycleTracked(s) ==
    IF s.plan.cycle <= s.tracked THEN s
    ELSE [s EXCEPT !.durations = Append(@, IF Today = s.begun THEN 1 ELSE Today - s.begun),
                   !.begun = Today, !.tracked = s.plan.cycle]

Simulated(s, ranking) ==
    IF s.holding THEN s
    ELSE CycleTracked(Run(s, Step(PriceOn[Today])!StepSingleDay(s.plan, Today, Targets(ranking), ranking, Held(s.qty), TRUE)))

\* Shares and cash; the worst drawdown in percent of the peak.
Equity(s) == s.plan.carry + FoldFunctionOnSet(+, 0, [c \in Codes |-> s.qty[c] * PriceOn[Today][c]], Codes)

Drawn(s, equity) ==
    LET peak == IF equity > s.peak THEN equity ELSE s.peak
        fell == IF peak = 0 THEN 0 ELSE (100 * (peak - equity)) \div peak
    IN  [s EXCEPT !.peak = peak, !.worst = IF fell > @ THEN fell ELSE @]

Closed(s) == Drawn(s, Equity(s))

(***************************************************************************)
(* A day of the strategy: a request of its owner, then the batch.          *)
(***************************************************************************)
Account(plan) == [plan |-> plan, rows |-> <<>>]

\* A plan change with rows in the ledger is more than a backtest makes of it; and while there
\* is one pool for all months, only the backtest counts what each month spends.
Requested(l, e) ==
    LET changed == Budget!ChangePlan(Account(l.plan), e.plan, FALSE, Today)
    IN  CASE e.kind = "hold" -> [l EXCEPT !.holding = (e.amount = 1)]
          [] e.kind = "topup" -> [l EXCEPT !.plan = Budget!TopUp(Account(@), e.amount).plan]
          [] e.kind = "plan" -> [l EXCEPT !.plan = changed.plan, !.plain = @ /\ changed.rows = <<>> /\ l.plan.mode # "total"]
          [] e.kind = "reset" -> [l EXCEPT !.plan = Budget!ResetPlan(Account(@), e.amount, e.cycle).plan]
          [] OTHER -> l

\* Yesterday's sells are recycled, the day is credited, the orders are placed and executed.
Batched(l, ranking) ==
    LET plan == Budget!Credit(Budget!Recycle(Account(l.plan), l.sold, 0), Today).plan
        Executed(step) == [l EXCEPT !.plan = step.plan, !.qty = Traded(@, step), !.sold = Proceeds(step.sells)]
    IN  IF l.holding THEN l
        ELSE Executed(Step(PriceOn[Today])!StepSingleDay(plan, Today, Targets(ranking), ranking, Held(l.qty), FALSE))

SimulateDay(ranking, e) ==
    /\ day < LastDay
    /\ day' = Today
    /\ sim' = Closed(Simulated(Charged(Applied(MonthBegun(sim), e)), ranking))
    /\ live' = Batched(Requested(live, e), ranking)
    /\ UNCHANGED conf

BacktestNext == \E ranking \in Rankings, e \in Events \cup {NoEvent} : SimulateDay(ranking, e)

(***************************************************************************)
(* Property.                                                               *)
(***************************************************************************)
Decided(plan) == [carry |-> plan.carry, cycle |-> plan.cycle, bought |-> plan.bought,
                  streaks |-> plan.streaks, exits |-> plan.exits]

\* The backtest decides what the batch decides and ends with its shares and its balance, and
\* its own ledger explains that balance unless the budget was reset.
FollowsTheBatch ==
    (live.plain /\ ~conf.recycles) =>
        /\ Decided(sim.plan) = Decided(live.plan)
        /\ sim.qty = live.qty
        /\ sim.plan.epoch = 1 => sim.plan.carry = conf.initial + sim.posted

\* What the report says of a strategy that runs by ranks is what its next batch does, unless
\* small change is all that is left.
ReportForetellsTheBatch ==
    (day < LastDay /\ ~live.holding /\ conf.custom = {} /\ live.plan.carry > SmallChange) =>
        \A ranking \in Rankings :
            LET prices == PriceOn[Today]
                plan == Budget!Credit(Budget!Recycle(Account(live.plan), live.sold, 0), Today).plan
                step == Step(prices)!StepSingleDay(plan, Today, Targets(ranking), ranking, Held(live.qty), FALSE)
                next == Rotation(prices)!NextTarget(live.plan, ranking)
                pipeline == Rotation(prices)!Pipeline(live.plan, ranking)
            IN  /\ next.sufficient => step.buys # <<>>
                /\ step.buys # <<>> => Head(step.buys) = next.code
                /\ \A i \in DOMAIN pipeline :
                     pipeline[i] = "bought" => (ranking[RankStart + i - 1] \in ToSet(step.buys) => step.plan.cycle > live.plan.cycle)
                /\ \A code \in DOMAIN step.sells :
                     Rotation(prices)!StatusOf(live.plan, ranking, code) \in {"exiting", "buffered"}
                /\ \A code \in DOMAIN Held(live.qty) :
                     (Rotation(prices)!StatusOf(live.plan, ranking, code) = "exiting" /\ code \notin DOMAIN step.sells)
                        => code \in ToSet(SubSeq(ranking, 1, RankEnd + RankBuffer))

=============================================================================
