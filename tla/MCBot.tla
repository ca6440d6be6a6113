------------------------------- MODULE MCBot -------------------------------
(***************************************************************************)
(* Model values for the bot's components that meet only through the        *)
(* exchange and the order list.  Each behaviour is one component's: turn   *)
(* says whose, and the variables of the others keep their initial values.  *)
(***************************************************************************)
EXTENDS DcaSchedules, OrderEntry, Backups, UserStore

VARIABLES
    turn,
    query    \* {} or what the calendar is asked

Parts == {"dca", "calendar", "entry", "backups", "users"}

vars == <<turn, dcaVars, query, entryVars, backupVars, userVars>>

DcaStep(A) == turn = "dca" /\ A /\ UNCHANGED <<turn, query, entryVars, backupVars, userVars>>
CalendarStep(A) == turn = "calendar" /\ A /\ UNCHANGED <<turn, dcaVars, entryVars, backupVars, userVars>>
EntryStep(A) == turn = "entry" /\ A /\ UNCHANGED <<turn, dcaVars, query, backupVars, userVars>>
BackupStep(A) == turn = "backups" /\ A /\ UNCHANGED <<turn, dcaVars, query, entryVars, userVars>>
UserStep(A) == turn = "users" /\ A /\ UNCHANGED <<turn, dcaVars, query, entryVars, backupVars>>

(***************************************************************************)
(* Periodic schedules: one, of two possible limits, on a clock of two days.*)
(***************************************************************************)
DailyOnly == {[kind |-> "daily", days |-> {}, dom |-> 0]}
TheMonths == <<9, 8, 10, 9, 9>>

DcaSteps ==
    \/ \E i \in Ids : DcaStep(AddSchedule(i)) \/ DcaStep(StopSchedule(i))
    \/ DcaStep(ClearSchedules)
    \/ DcaStep(Wake) \/ DcaStep(Fetch) \/ DcaStep(Reload)
    \/ DcaStep(ListDue) \/ DcaStep(EndPass)
    \/ \E s \in pass.due :
         \/ DcaStep(SkipRemoved(s)) \/ DcaStep(TradingHalted(s))
         \/ DcaStep(OwnerGone(s)) \/ DcaStep(Prepare(s))
    \/ \E s \in pass.cur :
         \/ DcaStep(MarketClosed(s)) \/ DcaStep(AskPrice(s)) \/ DcaStep(NoPrice(s))
         \/ DcaStep(AskBudget(s)) \/ DcaStep(NotNow(s)) \/ DcaStep(SubmitOrder(s))
         \/ DcaStep(OrderAccepted(s)) \/ DcaStep(OrderHalted(s)) \/ DcaStep(OrderFails(s))
    \/ \E t \in dca.tasks : DcaStep(WriteDone(t)) \/ DcaStep(WriteFails(t))
    \/ DcaStep(DcaTick)
    \/ DcaStep(DcaRestart)

(***************************************************************************)
(* The calendar: every phrase, hour and instant of two months; and the     *)
(* cash check on small sums.                                               *)
(***************************************************************************)
Phrase(form, first, last, days) == [form |-> form, first |-> first, last |-> last, days |-> days]
Phrases ==
    {Phrase(form, 0, 0, {}) : form \in {"everyday", "weekly", "monthly", "month end"}}
    \cup {Phrase("month day", dom, 0, {}) : dom \in 0..12}
    \cup {Phrase("list", 0, 0, days) : days \in {{0}, {6}, {2, 4}, {0, 6}, 0..6}}
    \cup {Phrase("range", first, last, {}) : first, last \in 0..6}

Money == {[cash |-> c, reserved |-> r, amount |-> a, remaining |-> n] :
             c \in {0, 3, 8, 16}, r \in {0, 1}, a \in {0, 1, 2}, n \in {1, 3, 100}}

NextRunAsked ==
    \E phrase \in Phrases, slot \in 0..1, now \in 0..35, after \in BOOLEAN :
        query' = {[phrase |-> phrase, slot |-> slot, now |-> now, after |-> after,
                   cash |-> 16, reserved |-> 0, amount |-> 1, remaining |-> 100]}

CashChecked ==
    \E phrase \in Phrases, now \in {5, 14, 17, 33}, sum \in Money :
        query' = {[phrase |-> phrase, slot |-> 1, now |-> now, after |-> FALSE,
                   cash |-> sum.cash, reserved |-> sum.reserved, amount |-> sum.amount,
                   remaining |-> sum.remaining]}

CalendarSteps ==
    /\ query = {}
    /\ CalendarStep(NextRunAsked) \/ CalendarStep(CashChecked)

(***************************************************************************)
(* The ways in for orders: two requests of every shape that differs to the *)
(* gate, the token stores and the loop of the legs.                        *)
(***************************************************************************)
Shape(store, side, family, legs, market) ==
    [store |-> store, side |-> side, family |-> family, legs |-> legs, market |-> market]
TheShapes ==
    {Shape("strategy", "bid", "grid", 2, FALSE), Shape("strategy", "ask", "rsi", 1, FALSE),
     Shape("nl", "bid", "rsi", 1, FALSE),
     Shape("manual", "bid", "manual", 1, TRUE)}

\* Requests are numbered as they come, and so are the users.
NextRequests ==
    IF "r1" \notin DOMAIN asked THEN {[req |-> "r1", user |-> "u1"]}
    ELSE {[req |-> "r2", user |-> u] : u \in {"u1", "u2"}}

EntrySteps ==
    \/ \E new \in NextRequests, shape \in TheShapes :
         \/ EntryStep(Ask(new.req, new.user, shape))
         \/ EntryStep(ManagerRuns(new.req, new.user, shape))
    \/ \E b \in shown :
         \/ EntryStep(TapRefused(b)) \/ EntryStep(TapCancel(b)) \/ EntryStep(TapStopped(b))
         \/ EntryStep(TapRuns(b)) \/ EntryStep(TapRunsIntent(b)) \/ EntryStep(TapAsksPrice(b))
    \/ \E r \in Requests :
         \/ EntryStep(MarketOrder(r)) \/ EntryStep(TakeNumber(r))
         \/ EntryStep(SkipLeg(r)) \/ EntryStep(ReserveLeg(r)) \/ EntryStep(SendLeg(r))
         \/ EntryStep(LegPlaced(r)) \/ EntryStep(LegFails(r))
         \/ EntryStep(LegUntracked(r)) \/ EntryStep(RollBack(r))
    \/ \E halted \in BOOLEAN : EntryStep(SetHalt(halted))
    \/ \E o \in book : EntryStep(OrderOver(o))
    \/ EntryStep(Tick)
    \/ EntryStep(Restart)

(***************************************************************************)
(* The backups: three of them, of a table of two pages, every two ticks or *)
(* on one day in two; one fault, and one change of the table or settings.  *)
(***************************************************************************)
Settings(type, keep, linked) == [enabled |-> TRUE, type |-> type, keep |-> keep, linked |-> linked]
TheSettings ==
    {Settings("interval", 1, TRUE), Settings("weekly", 2, TRUE), Settings("interval", 2, FALSE)}

NewSettings ==
    {[enabled |-> FALSE, type |-> "weekly", keep |-> 2], [enabled |-> TRUE, type |-> "interval", keep |-> 1]}

BackupSteps ==
    \/ BackupStep(LoopLooks) \/ BackupStep(AskBackup) \/ BackupStep(Begin)
    \/ BackupStep(DumpPage) \/ BackupStep(RowChanges) \/ BackupStep(WriteSnapshot)
    \/ BackupStep(CopyFallback) \/ BackupStep(PackageBackupZip)
    \/ BackupStep(PruneLocalBackups) \/ BackupStep(BackupFails)
    \/ BackupStep(NotUploaded) \/ BackupStep(Uploaded) \/ BackupStep(UploadFails)
    \/ \E new \in NewSettings : BackupStep(SaveBackupConfig(new))
    \/ BackupStep(LinkDrive) \/ BackupStep(UnlinkDrive)
    \/ BackupStep(BackupTick)
    \/ BackupStep(BackupRestart)

(***************************************************************************)
(* One user and one loop, which stands for both: a read may last as long   *)
(* as it likes.  Two changes of settings, one of the manager's, one fault. *)
(***************************************************************************)
UserSteps ==
    \/ UserStep(ChangeSettings) \/ UserStep(AddUser) \/ UserStep(UpdateUsername)
    \/ \E t \in users.tasks : UserStep(UserWriteDone(t)) \/ UserStep(UserWriteFails(t))
    \/ UserStep(SyncQueue)
    \/ \E l \in Loops : UserStep(AskRows(l)) \/ UserStep(ReloadFromDbAsync(l)) \/ UserStep(ReadFails(l))
    \/ UserStep(RefreshUser)
    \/ \E status \in {"active", "blocked"} : UserStep(SetUserStatus(status))
    \/ UserStep(UserRestart)

(***************************************************************************)
(* The components together.                                                *)
(***************************************************************************)
Init ==
    /\ turn \in Parts
    /\ DcaInit
    /\ query = {}
    /\ EntryInit
    /\ BackupsInit
    /\ UsersInit
    /\ turn # "users" => ~users.admin
    /\ turn # "backups" => settings = Settings("interval", 1, TRUE)

Next == DcaSteps \/ CalendarSteps \/ EntrySteps \/ BackupSteps \/ UserSteps

\* The event loop runs its tasks and its worker threads: no one is starved.
Spec ==
    /\ Init /\ [][Next]_vars
    /\ WF_vars(DcaStep(LoopStep)) /\ WF_vars(DcaStep(WriteStep))

\* One component alone.
DcaOnly == turn = "dca" /\ Init /\ [][DcaSteps]_vars

\* Every component's variables have their types.
TypeOK == DcaTypeOK /\ EntryTypeOK /\ BackupsTypeOK /\ UsersTypeOK

\* The next run computed is the next instant the user's phrase names.
NextRunsAreNamed == \A q \in query : NextRunIsNextOccurrence(q)

\* Cash the check calls sufficient pays for the coming week's runs.
WeeksAreProvidedFor == \A q \in query : WeekIsProvidedFor(q)
=============================================================================
