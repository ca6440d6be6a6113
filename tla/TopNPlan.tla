------------------------------ MODULE TopNPlan ------------------------------
(***************************************************************************)
(* progression_manager.step_single_day: one day of a TOP N strategy, the   *)
(* same function for the daily batch and for the backtest.  Holdings that  *)
(* left the ranking are sold in parts over several days; the ranking is    *)
(* bought in order, one cycle after another, until the balance is short of *)
(* the next one.                                                           *)
(*                                                                         *)
(* plan: [carry, spent, cycle, bought, streaks, exits, ...]; ranking: the  *)
(* day's codes from rank 1 on.                                             *)
(***************************************************************************)
LOCAL INSTANCE Integers
LOCAL INSTANCE SequencesExt

CONSTANTS
    UnitPrice,    \* [codes -> Nat]
    RankStart, RankEnd, RankBuffer, HoldPromoted, ConfirmDays, SplitDays,   \* params
    Quantity,     \* what a cycle buys of each code
    MaxLoops,     \* max_loops
    SmallChange   \* 1000 won: no further cycle is begun with so little

Greater(a, b) == IF a >= b THEN a ELSE b
Lesser(a, b) == IF a <= b THEN a ELSE b

\* 9999 for what is not ranked.
RankOf(ranking, code) ==
    IF Contains(ranking, code) THEN CHOOSE i \in DOMAIN ranking : ranking[i] = code ELSE 9999

(***************************************************************************)
(* Selling.  exits[code] is remaining_days, 0 for a code not on sale.      *)
(***************************************************************************)
Targeted(targets, ranking, code) ==
    \/ Contains(targets, code)
    \/ RankOf(ranking, code) < RankStart /\ HoldPromoted

InBuffer(ranking, code) ==
    RankOf(ranking, code) \in RankStart..(RankEnd + RankBuffer)

PartOf(qty, days) == Lesser(qty, Greater(1, (qty + days - 1) \div days))

Exit(plan, targets, ranking, code, qty) ==
    LET streak == plan.streaks[code] + 1
        days == IF plan.exits[code] > 0 THEN plan.exits[code]
                ELSE IF streak >= ConfirmDays THEN SplitDays ELSE 0
        sell == PartOf(qty, days)
    IN  CASE Targeted(targets, ranking, code) -> [streak |-> 0, days |-> 0, sell |-> 0]
          [] InBuffer(ranking, code) -> [streak |-> 0, days |-> plan.exits[code], sell |-> 0]
          [] days = 0 -> [streak |-> streak, days |-> 0, sell |-> 0]
          [] OTHER -> [streak |-> IF plan.exits[code] > 0 THEN streak - 1 ELSE 0,
                       days |-> IF qty = sell THEN 0 ELSE days - 1, sell |-> sell]

(***************************************************************************)
(* Buying.  A step of the loop is over once the balance is short of a      *)
(* code, a cycle is not complete, or too little is left for another.       *)
(***************************************************************************)
BuyOne(buying, code) ==
    LET cost == Quantity * UnitPrice[code]
    IN  CASE buying.over \/ code \in buying.plan.bought -> buying
          [] buying.plan.carry >= cost ->
               [buying EXCEPT !.plan.carry = @ - cost, !.plan.spent = @ + cost,
                              !.plan.bought = @ \cup {code}, !.codes = Append(@, code)]
          [] OTHER -> [buying EXCEPT !.over = TRUE]

BuyCycle(buying, targets) ==
    LET round == FoldLeft(BuyOne, buying, targets)
        whole == targets # <<>> /\ ToSet(targets) \subseteq round.plan.bought
    IN  CASE round.over -> round
          [] whole -> [round EXCEPT !.plan.cycle = @ + 1, !.plan.bought = {},
                                    !.over = round.plan.carry <= SmallChange]
          [] OTHER -> [round EXCEPT !.over = TRUE]

Buys(plan, targets) ==
    LET Round(buying, i) == BuyCycle(buying, targets)
    IN  FoldLeft(Round, [plan |-> plan, codes |-> <<>>, over |-> FALSE], [i \in 1..MaxLoops |-> i])

Proceeds(sells) == FoldLeft(LAMBDA n, code : n + UnitPrice[code] * sells[code], 0, SetToSeq(DOMAIN sells))

\* The day's sells of plan, and the plan they leave; a dry run has their proceeds at once.
Sold(plan, exit, dry) ==
    LET sells == [code \in {c \in DOMAIN exit : exit[c].sell > 0} |-> exit[code].sell]
    IN  [sells |-> sells,
         plan |-> [plan EXCEPT
                     !.streaks = [c \in DOMAIN @ |-> IF c \in DOMAIN exit THEN exit[c].streak ELSE @[c]],
                     !.exits = [c \in DOMAIN @ |-> IF c \in DOMAIN exit THEN exit[c].days ELSE @[c]],
                     !.carry = @ + (IF dry /\ plan.recycles THEN Proceeds(sells) ELSE 0)]]

\* holdings: [held codes -> Nat]
StepSingleDay(plan, day, targets, ranking, holdings, dry) ==
    LET sold == Sold(plan, [code \in DOMAIN holdings |-> Exit(plan, targets, ranking, code, holdings[code])], dry)
        bought == Buys(sold.plan, targets)
    IN  [plan |-> [bought.plan EXCEPT !.lastRun = day], buys |-> bought.codes, sells |-> sold.sells]

=============================================================================
