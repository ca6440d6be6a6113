----------------------------- MODULE BudgetPlan -----------------------------
(***************************************************************************)
(* budget_manager: what each budget operation makes of a template's params *)
(* and which rows it writes to budget_ledger.                              *)
(*                                                                         *)
(* An operation takes and gives an account [plan, rows]: the params it     *)
(* works on and the rows it has to insert, in order.  A row's after is the *)
(* balance_after_krw it shows.  Amounts are whole units.                   *)
(***************************************************************************)
LOCAL INSTANCE Integers
LOCAL INSTANCE SequencesExt

CONSTANTS
    MonthOf,   \* [days -> months]
    DaysLeft,  \* [days -> Nat]: calculate_remaining_trading_days
    UnitPrice  \* [codes -> Nat]

AtLeast0(n) == IF n < 0 THEN 0 ELSE n
Least(a, b) == IF a <= b THEN a ELSE b

\* Every budget operation records before it changes the balance.
Entry(acc, kind, delta, after, key) ==
    [plan |-> [acc.plan EXCEPT !.carry = after],
     rows |-> Append(acc.rows,
                [kind |-> kind, key |-> key, epoch |-> acc.plan.epoch, delta |-> delta, after |-> after,
                 clamped |-> after # acc.plan.carry + delta])]

Allowance(plan, day) ==
    LET unallocated == AtLeast0(plan.monthly - plan.spent - plan.carry)
    IN  CASE plan.mode = "total" -> 0
          [] plan.mode = "daily" -> IF plan.monthly > 0 THEN Least(plan.daily, unallocated) ELSE plan.daily
          [] OTHER -> unallocated \div DaysLeft[day]

Credit(acc, day) ==
    LET begun == [acc.plan EXCEPT !.month = MonthOf[day],
                                  !.spent = IF acc.plan.month = MonthOf[day] THEN @ ELSE 0]
        allowance == Allowance(begun, day)
        credited == Entry([acc EXCEPT !.plan = begun], "credit", allowance, begun.carry + allowance, day)
    IN  IF acc.plan.credited = day \/ acc.plan.mode = "total" THEN acc
        ELSE [credited EXCEPT !.plan.credited = day]

\* Mutant: the balance may go below zero.
SpendBelowZero(acc, cost, uuid) ==
    [Entry(acc, "spend", -cost, acc.plan.carry - cost, uuid) EXCEPT !.plan.spent = @ + cost]

Spend(acc, cost, uuid) ==
    LET spent == Entry(acc, "spend", -cost, AtLeast0(acc.plan.carry - cost), uuid)
    IN  [spent EXCEPT !.plan.spent = @ + cost]

\* refund_cancelled_orders, for one of them; an older epoch's is only noted.
Refund(acc, bought, filled) ==
    LET amount == UnitPrice[bought.code] * AtLeast0(bought.vol - filled)
        refunded == Entry(acc, "refund", amount, acc.plan.carry + amount, bought.uuid)
    IN  CASE amount = 0 -> acc
          [] bought.epoch < acc.plan.epoch -> Entry(acc, "ignored", 0, acc.plan.carry, bought.uuid)
          [] OTHER -> [refunded EXCEPT !.plan.spent = AtLeast0(@ - amount)]

Recycle(acc, proceeds, uuid) ==
    IF acc.plan.recycles /\ proceeds > 0
    THEN Entry(acc, "recycle", proceeds, acc.plan.carry + proceeds, uuid)
    ELSE acc

TopUp(acc, amount) == Entry(acc, "topup", amount, acc.plan.carry + amount, 0)

(***************************************************************************)
(* apply_plan_change: the total pool grows or shrinks by the difference,   *)
(* or, for the other modes, today's credit is corrected; a monthly budget  *)
(* already spent freezes what was carried over.                            *)
(***************************************************************************)
ToTotal(acc, new, today) ==
    LET plan == acc.plan
        diff == new.monthly - plan.monthly
        rest == AtLeast0(new.monthly - plan.spent - plan.carry)
    IN  CASE plan.mode = "total" /\ diff > 0 -> Entry(acc, "diff", diff, plan.carry + diff, 0)
          [] plan.mode = "total" /\ diff < 0 /\ plan.carry > 0 ->
               Entry(acc, "cap", -Least(plan.carry, -diff), plan.carry - Least(plan.carry, -diff), 0)
          [] plan.mode # "total" /\ today /\ rest > 0 -> Entry(acc, "diff", rest, plan.carry + rest, 0)
          [] OTHER -> acc

TodaysDiff(acc, new, today, day) ==
    LET diff == Allowance([acc.plan EXCEPT !.mode = new.mode, !.monthly = new.monthly, !.daily = new.daily], day)
                  - Allowance(acc.plan, day)
    IN  IF today /\ acc.plan.credited = day /\ diff # 0
        THEN Entry(acc, IF diff > 0 THEN "diff" ELSE "cap", diff, AtLeast0(acc.plan.carry + diff), 0)
        ELSE acc

\* Mutant: what was carried over is frozen without a row.
FreezeSilently(acc, new) ==
    IF new.mode = "monthly" /\ acc.plan.spent >= new.monthly THEN [acc EXCEPT !.plan.carry = 0] ELSE acc

Freeze(acc, new) ==
    IF new.mode = "monthly" /\ acc.plan.spent >= new.monthly /\ acc.plan.carry > 0
    THEN Entry(acc, "cap", -acc.plan.carry, 0, 0)
    ELSE acc

Configured(acc, new) ==
    [acc EXCEPT !.plan.mode = new.mode, !.plan.monthly = new.monthly, !.plan.daily = new.daily]

ChangePlan(acc, new, today, day) ==
    Configured(IF new.mode = "total" THEN ToTotal(acc, new, today)
               ELSE Freeze(TodaysDiff(acc, new, today, day), new),
               new)

\* reset_budget_plan: a new epoch, in which nothing has been accounted for yet.
ResetPlan(acc, initial, cycle) ==
    Entry([acc EXCEPT !.plan.epoch = @ + 1, !.plan.carry = 0, !.plan.spent = 0, !.plan.credited = 0,
                      !.plan.accounted = <<>>, !.plan.recycled = <<>>,
                      !.plan.pending = {}, !.plan.sells = {},
                      !.plan.bought = IF cycle THEN {} ELSE @, !.plan.cycle = IF cycle THEN 1 ELSE @],
          "reset", initial, initial, 0)

\* ensure_budget_plan_initialized: templates older than the budget plans have none.
Initialised(acc) ==
    LET begun == [acc EXCEPT !.plan.begun = TRUE]
    IN  CASE acc.plan.begun -> acc
          [] acc.plan.mode = "total" /\ acc.plan.monthly > 0 -> Entry(begun, "initial", acc.plan.monthly, acc.plan.monthly, 0)
          [] OTHER -> begun

=============================================================================
