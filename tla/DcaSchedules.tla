---------------------------- MODULE DcaSchedules ----------------------------
(***************************************************************************)
(* The periodic (DCA) schedules of core/dca_manager.py: the list in        *)
(* memory, its file and its table, the tasks that write the table, the     *)
(* polling loop that reloads the list and runs what is due, the commands   *)
(* that add and stop schedules, and restarts.                              *)
(*                                                                         *)
(* A step is what a coroutine does between two awaits.  The loop's await   *)
(* is pass.pc; the copy of the schedule it holds across it is pass.cur.    *)
(* Prices, amounts and messages are abstracted to the branch they decide.  *)
(***************************************************************************)
EXTENDS DcaCalendar

CONSTANTS
    Ids,            \* ids of schedules, fresh uuids in the code
    Frequencies,    \* frequencies a schedule may have
    Limits,         \* values of max_runs; 0 is none
    ExecSlot,       \* the hour of the day a schedule names
    FailLimit,      \* _DCA_MAX_CONSECUTIVE_FAILS
    RetryDelay,     \* _DCA_RETRY_DELAY_SECONDS
    SidecarDelay,   \* _DCA_SIDECAR_RETRY_SECONDS
    MaxDcaTime,     \* bound on the clock
    MaxDcaTasks,    \* bound on writes in flight when a command is accepted
    MaxOrders,      \* bound on the orders of a schedule
    MaxDcaFaults    \* bound on restarts, failed writes and lost answers together

ASSUME DcaAssumption ==
    /\ ExecSlot \in 0..(Slots - 1)
    /\ Frequencies \subseteq
         {OnDays(days) : days \in (SUBSET Weekdays) \ {{}}} \cup {Monthly(dom) : dom \in 1..MaxDayOfMonth}
    /\ Limits \subseteq Nat
    /\ FailLimit \in Nat \ {0} /\ RetryDelay \in Nat \ {0} /\ SidecarDelay \in Nat \ {0}
    /\ MaxDcaTime \in Nat /\ MaxDcaTasks \in Nat /\ MaxOrders \in Nat /\ MaxDcaFaults \in Nat
    /\ \A day \in 0..Day(MaxDcaTime) : Covered(day)

VARIABLES
    dca,       \* [mem, file, tasks, fails]: DcaManager.schedules, the JSON file,
               \* _bg_tasks (the writes in flight) and _dca_fail_counts
    dcaTable,  \* the table dca_schedules
    pass,      \* the polling loop in its pass
    dcaClock,
    dcaTold    \* histories for the properties; no action reads them but to keep
               \* them, save that dcaTold.added says which ids are still fresh

dcaVars == <<dca, dcaTable, pass, dcaClock, dcaTold>>

Schedule == [id : Ids, freq : Frequencies, next : Nat, runs : Nat, limit : Limits, tpl : BOOLEAN]

NothingStored == [i \in {} |-> i]
Asleep == [pc |-> "sleep", wait |-> {}, rows |-> NothingStored, due |-> {}, cur |-> {}, at |-> 0]

DcaInit ==
    /\ dca = [mem |-> NothingStored, file |-> NothingStored, tasks |-> {}, fails |-> [i \in Ids |-> 0]]
    /\ dcaTable = NothingStored
    /\ pass = Asleep
    /\ dcaClock = 0
    /\ dcaTold = [added |-> {}, placed |-> [i \in Ids |-> 0], limit |-> [i \in Ids |-> 0],
               stopped |-> {}, revived |-> {}, exempt |-> {}, until |-> [i \in Ids |-> 0],
               faults |-> 0]

(***************************************************************************)
(* DcaManager's methods, on the record b of the bot's state.               *)
(***************************************************************************)
Listed(b, i) == i \in DOMAIN b.mem
WithSchedule(b, s) == [b EXCEPT !.mem = [i \in DOMAIN @ \cup {s.id} |-> IF i = s.id THEN s ELSE @[i]]]
Save(b) == [b EXCEPT !.file = b.mem]

\* _db_upsert: the file now, the table in a task that has a copy without template_id.
Upsert(b, s) ==
    [Save(b) EXCEPT !.tasks = @ \cup {[op |-> "put", id |-> s.id, row |-> [s EXCEPT !.tpl = FALSE]]}]
DeleteTask(s) == [op |-> "del", id |-> s.id, row |-> s]
Delete(b, s) == [Save(b) EXCEPT !.tasks = @ \cup {DeleteTask(s)}]

RemoveScheduleFromFile(b, i) ==
    IF ~Listed(b, i) THEN b ELSE Save([b EXCEPT !.mem = Restrict(@, DOMAIN @ \ {i}), !.fails[i] = 0])

RemoveSchedule(b, i) ==
    IF ~Listed(b, i) THEN b
    ELSE Delete([b EXCEPT !.mem = Restrict(@, DOMAIN @ \ {i}), !.fails[i] = 0], b.mem[i])

DeferSchedule(b, i, t) ==
    IF ~Listed(b, i) THEN b
    ELSE LET s == [b.mem[i] EXCEPT !.next = t] IN Upsert(WithSchedule(b, s), s)

AdvanceScheduleOncePastLimit(b, i, at, counts) ==
    IF ~Listed(b, i) THEN b
    ELSE LET runs == b.mem[i].runs + IF counts THEN 1 ELSE 0
             next == NextRunAt(b.mem[i].freq, ExecSlot, at, TRUE)
             s == [b.mem[i] EXCEPT !.runs = runs, !.next = next]
         IN  IF s.limit > 0 /\ s.runs > s.limit
             THEN RemoveSchedule(WithSchedule(b, s), i)
             ELSE Upsert(WithSchedule(b, s), s)

AdvanceSchedule(b, i, at, counts) ==
    IF ~Listed(b, i) THEN b
    ELSE LET runs == b.mem[i].runs + IF counts THEN 1 ELSE 0
             next == NextRunAt(b.mem[i].freq, ExecSlot, at, TRUE)
             s == [b.mem[i] EXCEPT !.runs = runs, !.next = next]
         IN  IF s.limit > 0 /\ s.runs >= s.limit
             THEN RemoveSchedule(WithSchedule(b, s), i)
             ELSE Upsert(WithSchedule(b, s), s)

CountFailureOnceMore(b, i, at) ==
    IF b.fails[i] + 1 > FailLimit
    THEN AdvanceSchedule([b EXCEPT !.fails[i] = 0], i, at, FALSE)
    ELSE DeferSchedule([b EXCEPT !.fails[i] = @ + 1], i, at + RetryDelay)

\* A price or an order that did not come: later, or the next period after FailLimit times.
CountFailure(b, i, at) ==
    IF b.fails[i] + 1 >= FailLimit
    THEN AdvanceSchedule([b EXCEPT !.fails[i] = 0], i, at, FALSE)
    ELSE DeferSchedule([b EXCEPT !.fails[i] = @ + 1], i, at + RetryDelay)

\* Ids about which two writes in flight disagree: either may arrive last.
Raced(tasks) ==
    {t.id : t \in {w \in tasks : \E v \in tasks :
        v.id = w.id /\ (v.op # w.op \/ v.row.runs # w.row.runs)}}

Becomes(b, h) == dca' = b /\ dcaTold' = [h EXCEPT !.exempt = @ \cup Raced(b.tasks)]

(***************************************************************************)
(* Commands: /internal/execute_dca adds; /dca stop, the stop button and    *)
(* /dca clear remove.                                                      *)
(***************************************************************************)
AddSchedule(i) ==
    /\ i \notin dcaTold.added
    /\ Cardinality(dca.tasks) < MaxDcaTasks
    /\ \E freq \in Frequencies, limit \in Limits, tpl \in BOOLEAN :
         LET s == [id |-> i, freq |-> freq, next |-> NextRunAt(freq, ExecSlot, dcaClock, FALSE),
                   runs |-> 0, limit |-> limit, tpl |-> tpl]
         IN  Becomes(Upsert(WithSchedule(dca, s), s),
                     [dcaTold EXCEPT !.added = @ \cup {i}, !.limit[i] = limit])
    /\ UNCHANGED <<dcaTable, pass, dcaClock>>

StopSchedule(i) ==
    /\ Listed(dca, i)
    /\ Cardinality(dca.tasks) < MaxDcaTasks
    /\ Becomes(RemoveSchedule(dca, i), [dcaTold EXCEPT !.stopped = @ \cup {i}])
    /\ UNCHANGED <<dcaTable, pass, dcaClock>>

\* clear_user_schedules: all of the user's, here all there are.
ClearSchedules ==
    /\ DOMAIN dca.mem # {}
    /\ Cardinality(dca.tasks) < MaxDcaTasks
    /\ Becomes([mem |-> NothingStored, file |-> NothingStored,
                tasks |-> dca.tasks \cup {DeleteTask(dca.mem[i]) : i \in DOMAIN dca.mem},
                fails |-> [i \in Ids |-> IF Listed(dca, i) THEN 0 ELSE dca.fails[i]]],
               [dcaTold EXCEPT !.stopped = @ \cup DOMAIN dca.mem])
    /\ UNCHANGED <<dcaTable, pass, dcaClock>>

(***************************************************************************)
(* The tasks, each a request in a worker thread.                           *)
(***************************************************************************)
Apply(table, t) ==
    IF t.op = "put"
    THEN [i \in DOMAIN table \cup {t.id} |-> IF i = t.id THEN t.row ELSE table[i]]
    ELSE Restrict(table, DOMAIN table \ {t.id})

WriteDone(t) ==
    /\ dca' = [dca EXCEPT !.tasks = @ \ {t}]
    /\ dcaTable' = Apply(dcaTable, t)
    /\ UNCHANGED <<pass, dcaClock, dcaTold>>

\* Both the full and the basic upsert failed: only a warning.
WriteFails(t) ==
    /\ dcaTold.faults < MaxDcaFaults
    /\ dca' = [dca EXCEPT !.tasks = @ \ {t}]
    /\ dcaTold' = [dcaTold EXCEPT !.exempt = @ \cup {t.id}, !.faults = @ + 1]
    /\ UNCHANGED <<dcaTable, pass, dcaClock>>

(***************************************************************************)
(* reload_from_db_async, first thing of each pass.                         *)
(***************************************************************************)
Wake ==
    /\ pass.pc = "sleep"
    /\ pass' = [Asleep EXCEPT !.pc = "flush", !.wait = dca.tasks]
    /\ UNCHANGED <<dca, dcaTable, dcaClock, dcaTold>>

Fetch ==
    /\ pass.pc = "flush"
    /\ pass.wait \cap dca.tasks = {}
    /\ pass' = [pass EXCEPT !.pc = "fetch", !.wait = {}, !.rows = dcaTable]
    /\ UNCHANGED <<dca, dcaTable, dcaClock, dcaTold>>

Reload ==
    /\ pass.pc = "fetch"
    /\ \/ /\ dca' = [dca EXCEPT !.mem = pass.rows]
          /\ dcaTold' = [dcaTold EXCEPT !.revived = @ \cup (dcaTold.stopped \cap DOMAIN pass.rows)]
       \/ UNCHANGED <<dca, dcaTold>>   \* the request failed
    /\ pass' = [pass EXCEPT !.pc = "due", !.rows = NothingStored]
    /\ UNCHANGED <<dcaTable, dcaClock>>

(***************************************************************************)
(* execute_due_dca_schedules, on copies of the schedules due at pass.at.   *)
(***************************************************************************)
ListDue ==
    /\ pass.pc = "due"
    /\ pass' = [pass EXCEPT !.pc = "next", !.at = dcaClock,
                            !.due = {dca.mem[i] : i \in {j \in DOMAIN dca.mem : dca.mem[j].next <= dcaClock}}]
    /\ UNCHANGED <<dca, dcaTable, dcaClock, dcaTold>>

EndPass ==
    /\ pass.pc = "next"
    /\ pass.due = {}
    /\ pass' = Asleep
    /\ UNCHANGED <<dca, dcaTable, dcaClock, dcaTold>>

DoneButListed(s) == pass' = [pass EXCEPT !.pc = "next", !.cur = {}]

\* The pass is done with s.
Done(s) == pass' = [pass EXCEPT !.pc = "next", !.due = @ \ {s}, !.cur = {}]

Take(s) == pass.pc = "next" /\ s \in pass.due
Holds(s, pc) == pass.pc = pc /\ s \in pass.cur

SkipRemoved(s) ==
    /\ Take(s)
    /\ ~Listed(dca, s.id)
    /\ Done(s)
    /\ UNCHANGED <<dca, dcaTable, dcaClock, dcaTold>>

\* Put off by SidecarDelay; then the copy, which has the old instant, is written too.
PutOff(s) ==
    /\ Becomes(Upsert(DeferSchedule(dca, s.id, pass.at + SidecarDelay), s),
               [dcaTold EXCEPT !.until[s.id] = IF Listed(dca, s.id) THEN pass.at + SidecarDelay ELSE @,
                            !.revived = IF Listed(dca, s.id) THEN @ ELSE @ \cup {s.id}])
    /\ Done(s)
    /\ UNCHANGED <<dcaTable, dcaClock>>

TradingHalted(s) == Take(s) /\ Listed(dca, s.id) /\ PutOff(s)

\* The user was deleted or deactivated, or the exchange is unknown.
OwnerGone(s) ==
    /\ Take(s)
    /\ Listed(dca, s.id)
    /\ Becomes(RemoveSchedule(dca, s.id), dcaTold)
    /\ Done(s)
    /\ UNCHANGED <<dcaTable, dcaClock>>

Prepare(s) ==
    /\ Take(s)
    /\ Listed(dca, s.id)
    /\ pass' = [pass EXCEPT !.pc = "calendar", !.due = @ \ {s}, !.cur = {s}]
    /\ UNCHANGED <<dca, dcaTable, dcaClock, dcaTold>>

NextOpeningsUnchecked == {pass.at, Instant(Day(pass.at) + 1, 0)}

NextOpenings == {pass.at + SidecarDelay, Instant(Day(pass.at) + 1, 0)}

MarketClosed(s) ==
    /\ Holds(s, "calendar")
    /\ \/ Becomes(AdvanceSchedule(dca, s.id, pass.at, FALSE), dcaTold)             \* skip
       \/ Becomes(DeferSchedule(dca, s.id, pass.at + SidecarDelay), dcaTold)       \* delay_20m
       \/ \E t \in NextOpenings :                                               \* next_day
            Becomes(Upsert(DeferSchedule(dca, s.id, t), s),
                    [dcaTold EXCEPT !.revived = IF Listed(dca, s.id) THEN @ ELSE @ \cup {s.id}])
    /\ Done(s)
    /\ UNCHANGED <<dcaTable, dcaClock>>

AskPrice(s) ==
    /\ Holds(s, "calendar")
    /\ pass' = [pass EXCEPT !.pc = "price"]
    /\ UNCHANGED <<dca, dcaTable, dcaClock, dcaTold>>

NoPrice(s) ==
    /\ Holds(s, "price")
    /\ Becomes(CountFailure(dca, s.id, pass.at), dcaTold)
    /\ Done(s)
    /\ UNCHANGED <<dcaTable, dcaClock>>

\* A template's purchase first asks what its budget still holds.
AskBudget(s) ==
    /\ Holds(s, "price")
    /\ s.tpl
    /\ pass' = [pass EXCEPT !.pc = "budget"]
    /\ UNCHANGED <<dca, dcaTable, dcaClock, dcaTold>>

Priced(s) == Holds(s, "budget") \/ (Holds(s, "price") /\ ~s.tpl)

\* Nothing left in the budget, no whole share, below the minimum, over a limit, gate shut.
NotNow(s) ==
    /\ Priced(s)
    /\ Becomes(AdvanceSchedule(dca, s.id, pass.at, FALSE), dcaTold)
    /\ Done(s)
    /\ UNCHANGED <<dcaTable, dcaClock>>

SubmitOrder(s) ==
    /\ Priced(s)
    /\ dcaTold.placed[s.id] < MaxOrders
    /\ pass' = [pass EXCEPT !.pc = "order"]
    /\ UNCHANGED <<dca, dcaTable, dcaClock, dcaTold>>

OrderAccepted(s) ==
    /\ Holds(s, "order")
    /\ Becomes(AdvanceSchedule([dca EXCEPT !.fails[s.id] = 0], s.id, pass.at, TRUE),
               [dcaTold EXCEPT !.placed[s.id] = @ + 1])
    /\ Done(s)
    /\ UNCHANGED <<dcaTable, dcaClock>>

OrderHalted(s) == Holds(s, "order") /\ PutOff(s)

OrderFails(s) ==
    /\ Holds(s, "order")
    /\ \/ Becomes(CountFailure(dca, s.id, pass.at), dcaTold)
       \/ /\ dcaTold.faults < MaxDcaFaults   \* the exchange has the order, the answer is lost
          /\ Becomes(CountFailure(dca, s.id, pass.at),
                     [dcaTold EXCEPT !.placed[s.id] = @ + 1, !.exempt = @ \cup {s.id}, !.faults = @ + 1])
    /\ Done(s)
    /\ UNCHANGED <<dcaTable, dcaClock>>

(***************************************************************************)
(* Time, and restarts: _load_schedules takes the table or else the file.   *)
(***************************************************************************)
DcaTick ==
    /\ dcaClock < MaxDcaTime
    /\ dcaClock' = dcaClock + 1
    /\ UNCHANGED <<dca, dcaTable, pass, dcaTold>>

DcaRestart ==
    /\ dcaTold.faults < MaxDcaFaults
    /\ \E mem \in {dcaTable, dca.file}, sent \in SUBSET {s.id : s \in {c \in pass.cur : pass.pc = "order"}} :
         /\ dca' = [dca EXCEPT !.mem = mem, !.tasks = {}, !.fails = [i \in Ids |-> 0]]
         /\ dcaTold' = [dcaTold EXCEPT !.faults = @ + 1,
                       !.placed = [i \in Ids |-> IF i \in sent THEN @[i] + 1 ELSE @[i]],
                       !.exempt = @ \cup sent \cup {t.id : t \in dca.tasks}]
    /\ pass' = Asleep
    /\ UNCHANGED <<dcaTable, dcaClock>>

LoopStep ==
    \/ Wake \/ Fetch \/ Reload \/ ListDue \/ EndPass
    \/ \E s \in pass.due : SkipRemoved(s) \/ TradingHalted(s) \/ OwnerGone(s) \/ Prepare(s)
    \/ \E s \in pass.cur :
         \/ MarketClosed(s) \/ AskPrice(s) \/ NoPrice(s) \/ AskBudget(s) \/ NotNow(s)
         \/ SubmitOrder(s) \/ OrderAccepted(s) \/ OrderHalted(s) \/ OrderFails(s)

WriteStep == \E t \in dca.tasks : WriteDone(t) \/ WriteFails(t)

DcaNext ==
    \/ \E i \in Ids : AddSchedule(i) \/ StopSchedule(i)
    \/ ClearSchedules
    \/ LoopStep
    \/ WriteStep
    \/ DcaTick
    \/ DcaRestart

DcaSpec == DcaInit /\ [][DcaNext]_dcaVars

\* The event loop and its threads starve nobody; the loop is endless.
DcaFairSpec == DcaSpec /\ WF_dcaVars(LoopStep) /\ WF_dcaVars(WriteStep)

(***************************************************************************)
(* Properties.                                                             *)
(***************************************************************************)
DcaTypeOK ==
    /\ \A stored \in {dca.mem, dca.file, dcaTable, pass.rows} :
         DOMAIN stored \subseteq Ids /\ \A i \in DOMAIN stored : stored[i] \in Schedule /\ stored[i].id = i
    /\ dca.tasks \subseteq [op : {"put", "del"}, id : Ids, row : Schedule]
    /\ dca.fails \in [Ids -> 0..(FailLimit - 1)]
    /\ pass.pc \in {"sleep", "flush", "fetch", "due", "next", "calendar", "price", "budget", "order"}
    /\ pass.due \cup pass.cur \subseteq Schedule /\ Cardinality(pass.cur) <= 1
    /\ pass.at <= dcaClock

\* A schedule has as many orders at the exchange as runs counted, and never more than
\* its max_runs, through every reload from the table, deferral, skip and restart; except
\* where the code gives the count up: a failed write, a lost answer of create_order, a
\* crash with a write or an order under way, or two writes in flight that disagree.
OneOrderPerRun ==
    \A i \in Ids \ dcaTold.exempt :
        /\ Listed(dca, i) => dcaTold.placed[i] = dca.mem[i].runs
        /\ dcaTold.limit[i] > 0 => dcaTold.placed[i] <= dcaTold.limit[i]

\* Whatever branch a due schedule takes, it is no longer due when the pass goes on: what
\* is due at the pass' instant is still on its list.  Otherwise the next pass, a second
\* later, would run it again.
HandledRunsAreOver ==
    pass.pc = "next" =>
        \A i \in DOMAIN dca.mem : dca.mem[i].next <= pass.at => \E s \in pass.due : s.id = i

\* A schedule the user was told is stopped leaves the table as soon as its delete is
\* through and does not come back, unless one of its writes was still in flight, a reload
\* had already read its row, or the pass wrote its copy although it was stopped meanwhile.
StoppedIsDeleted ==
    \A i \in dcaTold.stopped \ (dcaTold.exempt \cup dcaTold.revived) :
        i \in DOMAIN dcaTable => \E t \in dca.tasks : t.op = "del" /\ t.id = i

\* A run put off because trading is halted is not tried again before the delay is over.
HaltedRunsWait == \A s \in pass.cur : dcaTold.until[s.id] <= pass.at

\* Every pass ends, whatever fails in it: no schedule can keep the others, or the orders'
\* synchronisation that follows it in the same loop, from being served.
PassesEnd == []<>(pass.pc = "sleep")
==============================================================================
