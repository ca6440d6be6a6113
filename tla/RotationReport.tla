--------------------------- MODULE RotationReport ---------------------------
(***************************************************************************)
(* The report of a TOP N strategy (routers/reports.py, top-rotation): what *)
(* it says of the next batch, from the saved params, the holdings and the  *)
(* day's ranking, without running step_single_day.                         *)
(***************************************************************************)
LOCAL INSTANCE Integers
LOCAL INSTANCE SequencesExt

CONSTANTS UnitPrice, RankStart, RankEnd, Quantity   \* as in TopNPlan

Ranked(ranking) ==
    SelectSeq([i \in DOMAIN ranking |-> [code |-> ranking[i], rank |-> i]],
              LAMBDA item : item.rank \in RankStart..RankEnd)

\* holdings_status: of a code that is held.
StatusOf(plan, ranking, code) ==
    CASE plan.exits[code] > 0 -> "exiting"
      [] \E i \in DOMAIN Ranked(ranking) : Ranked(ranking)[i].code = code -> "holding_top"
      [] OTHER -> "buffered"

Target(plan, item, cycle) ==
    [code |-> item.code, cycle |-> cycle, sufficient |-> plan.carry >= Quantity * UnitPrice[item.code]]

\* Mutant: the first of the ranks, bought already or not.
TargetAlways(plan, ranking) == Target(plan, Ranked(ranking)[1], plan.cycle)

\* next_target: the first that the cycle has not bought, or the first of the next cycle.
NextTarget(plan, ranking) ==
    LET open == SelectSeq(Ranked(ranking), LAMBDA item : item.code \notin plan.bought)
    IN  IF open # <<>> THEN Target(plan, open[1], plan.cycle) ELSE Target(plan, Ranked(ranking)[1], plan.cycle + 1)

\* target_pipeline.
Pipeline(plan, ranking) ==
    [i \in DOMAIN Ranked(ranking) |->
        LET code == Ranked(ranking)[i].code
        IN  CASE code \in plan.bought -> "bought"
              [] code = NextTarget(plan, ranking).code -> "next"
              [] OTHER -> "waiting"]

=============================================================================
