----------------------------- MODULE OrderEntry -----------------------------
(***************************************************************************)
(* How orders enter the bot: Telegram commands that wait for a tap on a    *)
(* button (manual_order_tokens, strategy_tokens, the intents of natural    *)
(* language), the gate (trading_gate), the loop that places a strategy's   *)
(* legs (order_execution), and the manager's requests, which run beside.   *)
(*                                                                         *)
(* Telegram updates are handled one after the other: chat is the one whose *)
(* handler is between two awaits.  A request is one order or strategy a    *)
(* user asks for; its prices and volumes are one unit per leg.             *)
(***************************************************************************)
EXTENDS Integers, Sequences, FiniteSetsExt

CONSTANTS
    Requests, Users,
    Shapes,     \* [store, side, family, legs, market]: what a request may be
    Cap,        \* max_open_exposure_krw, in units
    TokenTTL,   \* MANUAL_ORDER_TTL_SECONDS, STRATEGY_ORDER_TTL_SECONDS
    GateTTL,    \* _HALT_CACHE_TTL_SECONDS
    MaxTime, MaxFaults   \* bounds: the clock, failures together

ASSUME EntryAssumption ==
    /\ Shapes \subseteq [store : {"manual", "strategy", "nl"}, side : {"bid", "ask"}, family : STRING,
                         legs : Nat \ {0}, market : BOOLEAN]
    /\ \A shape \in Shapes : shape.store = "manual" => shape.family = "manual"
    /\ Cap \in Nat /\ TokenTTL \in Nat /\ GateTTL \in Nat /\ MaxTime \in Nat /\ MaxFaults \in Nat

VARIABLES
    asked,    \* [Requests -> [user, shape]] for those issued so far
    pending,  \* [store -> [token -> [req, at]]]: the token stores
    shown,    \* the buttons in the chats: [store, token, req]
    chat,     \* [pc, req]: the Telegram handler at work
    runs,     \* [Requests -> [pc, leg, group, by]]: loops placing legs
    book,     \* orders: [req, leg, group, live, tracked]
    trades,   \* the trade log: [req, group] of what was executed
    gate,     \* [cache, at, db, flag]: where the halt is remembered; cache is {} or {it}
    clock,
    told      \* histories for the properties; told.faults bounds the failures

entryVars == <<asked, pending, shown, chat, runs, book, trades, gate, clock, told>>

Stores == {"manual", "strategy", "nl"}
Empty == [x \in {} |-> x]
Free == [pc |-> "free", req |-> {}]

EntryInit ==
    /\ asked = Empty
    /\ pending = [s \in Stores |-> Empty]
    /\ shown = {}
    /\ chat = Free
    /\ runs = [r \in Requests |-> [pc |-> "idle", leg |-> 1, group |-> 0, by |-> "none"]]
    /\ book = {}
    /\ trades = {}
    /\ gate = [cache |-> {}, at |-> 0, db |-> FALSE, flag |-> FALSE]
    /\ clock = 0
    /\ told = [halted |-> FALSE, dbMissed |-> FALSE, starts |-> [r \in Requests |-> 0],
               late |-> {}, foreign |-> {}, alarmed |-> {}, lost |-> {},
               twins |-> {}, faults |-> 0]

Put(f, x, y) == [z \in DOMAIN f \cup {x} |-> IF z = x THEN y ELSE f[z]]
Drop(f, x) == [z \in DOMAIN f \ {x} |-> f[z]]

UserOf(r) == asked[r].user
ShapeOf(r) == asked[r].shape
Fault == told.faults < MaxFaults
Faulty(h) == [h EXCEPT !.faults = @ + 1]

(***************************************************************************)
(* The gate.  Reading it may refresh the cache, from the table or, when    *)
(* the table does not answer, from the flag file.                          *)
(***************************************************************************)
ReadGateWithoutFile ==
    LET found(halted) == [halted |-> halted, gate |-> [gate EXCEPT !.cache = {halted}, !.at = clock]]
        kept == [halted |-> TRUE \in gate.cache, gate |-> gate]
    IN  IF gate.cache # {} /\ clock - gate.at < GateTTL THEN {kept} ELSE {found(gate.db), kept}

ReadGate ==
    LET found(halted) == [halted |-> halted, gate |-> [gate EXCEPT !.cache = {halted}, !.at = clock]]
        kept == [halted |-> TRUE \in gate.cache, gate |-> gate]
    IN  IF gate.cache # {} /\ clock - gate.at < GateTTL
        THEN {kept}
        ELSE {found(gate.db), IF gate.flag THEN found(TRUE) ELSE kept}

OpenOrders(u) == {o \in book : o.tracked /\ UserOf(o.req) = u}
\* A market order is tracked with price 0.
Exposure(orders) == Cardinality({o \in orders : ~ShapeOf(o.req).market})
NewExposureOfALeg(shape) == IF shape.side = "bid" THEN 1 ELSE 0

NewExposure(shape) == IF shape.side = "bid" THEN shape.legs ELSE 0

SameFamilyOfSent(orders, family) ==
    family = "manual" \/ \A o \in orders : o.live => ShapeOf(o.req).family \in {"manual", family}

SameFamily(orders, family) ==
    family = "manual" \/ \A o \in orders : ShapeOf(o.req).family \in {"manual", family}

WithinLimits(r) ==
    /\ SameFamily(OpenOrders(UserOf(r)), ShapeOf(r).family)
    /\ Exposure(OpenOrders(UserOf(r))) + NewExposure(ShapeOf(r)) <= Cap

\* /buy and /sell: a limit or market sell has only the halt to pass.
MayRun(r) == (ShapeOf(r).store = "manual" /\ ShapeOf(r).side = "ask") \/ WithinLimits(r)

\* A market buy first asks the price its limits are checked with.
AsksPrice(r) == ShapeOf(r).market /\ ShapeOf(r).side = "bid"

SetHalt(halted) ==
    /\ chat = Free
    /\ \E stored \in {TRUE} \cup (IF Fault THEN {FALSE} ELSE {}) :
         /\ gate' = [cache |-> {halted}, at |-> clock, flag |-> halted,
                     db |-> IF stored THEN halted ELSE gate.db]
         /\ told' = [told EXCEPT !.halted = halted, !.dbMissed = ~stored,
                                 !.faults = IF stored THEN @ ELSE @ + 1]
    /\ UNCHANGED <<asked, pending, shown, chat, runs, book, trades, clock>>

(***************************************************************************)
(* Tokens.  The number is one more than there are, or the next free one;   *)
(* the intents of natural language do not look whether it is taken.        *)
(***************************************************************************)
FirstFree(taken, n) == Min({k \in n..(n + Cardinality(taken)) : k \notin taken})

NewToken(store) ==
    LET taken == DOMAIN pending[store]
        n == Cardinality(taken) + 1
    IN  IF store = "nl" THEN n ELSE FirstFree(taken, n)

Ask(r, u, shape) ==
    /\ chat = Free
    /\ r \notin DOMAIN asked
    /\ \E read \in ReadGate :
         IF shape.store = "nl" THEN gate' = gate ELSE ~read.halted /\ gate' = read.gate
    /\ asked' = Put(asked, r, [user |-> u, shape |-> shape])
    /\ LET token == NewToken(shape.store)
       IN  /\ pending' = [pending EXCEPT ![shape.store] = Put(@, token, [req |-> r, at |-> clock])]
           /\ shown' = shown \cup {[store |-> shape.store, token |-> token, req |-> r]}
    /\ UNCHANGED <<chat, runs, book, trades, clock, told>>

Waiting(b) == b.token \in DOMAIN pending[b.store]
Entry(b) == pending[b.store][b.token]
Expired(b) == b.store # "nl" /\ clock - Entry(b).at > TokenTTL
OwnersTap(b) == UserOf(Entry(b).req) = UserOf(b.req)
PopKeeps(b) == pending' = pending

Pop(b) == pending' = [pending EXCEPT ![b.store] = Drop(@, b.token)]

MayTap(b) == chat = Free /\ b \in shown

\* Nothing is run: an expired token, or another user's, which only the intents of natural
\* language lose by it.  (No such token, or another user's order: nothing changes.)
TapRefused(b) ==
    /\ MayTap(b)
    /\ Waiting(b)
    /\ IF OwnersTap(b) THEN Expired(b) ELSE b.store = "nl"
    /\ Pop(b)
    /\ UNCHANGED <<asked, shown, chat, runs, book, trades, gate, clock, told>>

\* The cancel button discards whatever has the token.
TapCancel(b) ==
    /\ MayTap(b)
    /\ Waiting(b)
    /\ Pop(b)
    /\ UNCHANGED <<asked, shown, chat, runs, book, trades, gate, clock, told>>

Running(r) == runs[r].pc \notin {"idle", "over"}
NewRun(r, pc, by) == [pc |-> pc, leg |-> 1, group |-> 0, by |-> by]

\* The user is told that r is placed; a strategy's run then takes its number.
Start(r, by) ==
    runs' = [runs EXCEPT ![r] = NewRun(r, IF ShapeOf(r).family = "manual" THEN "leg" ELSE "number", by)]

Started(b, r) ==
    [told EXCEPT !.starts[r] = @ + 1,
                 !.late = IF b.store # "nl" /\ clock - Entry(b).at > TokenTTL THEN @ \cup {r} ELSE @,
                 !.foreign = IF UserOf(r) # UserOf(b.req) THEN @ \cup {r} ELSE @]

Valid(b) == MayTap(b) /\ Waiting(b) /\ OwnersTap(b) /\ ~Expired(b)

\* The token is gone even when the gate or a limit refuses.
TapStopped(b) ==
    /\ Valid(b)
    /\ b.store # "nl"
    /\ Pop(b)
    /\ \E read \in ReadGate :
         /\ read.halted \/ (~AsksPrice(Entry(b).req) /\ ~MayRun(Entry(b).req))
         /\ gate' = read.gate
    /\ UNCHANGED <<asked, shown, chat, runs, book, trades, clock, told>>

TapRuns(b) ==
    /\ Valid(b)
    /\ b.store # "nl"
    /\ ~AsksPrice(Entry(b).req)
    /\ Pop(b)
    /\ \E read \in ReadGate : ~read.halted /\ gate' = read.gate
    /\ MayRun(Entry(b).req)
    /\ Start(Entry(b).req, "gate")
    /\ chat' = [pc |-> "run", req |-> {Entry(b).req}]
    /\ told' = Started(b, Entry(b).req)
    /\ UNCHANGED <<asked, shown, book, trades, clock>>

\* A confirmed intent asks neither the gate nor the exposure.
TapRunsIntent(b) ==
    /\ Valid(b)
    /\ b.store = "nl"
    /\ Pop(b)
    /\ Start(Entry(b).req, "intent")
    /\ chat' = [pc |-> "run", req |-> {Entry(b).req}]
    /\ told' = Started(b, Entry(b).req)
    /\ UNCHANGED <<asked, shown, book, trades, gate, clock>>

TapAsksPrice(b) ==
    /\ Valid(b)
    /\ AsksPrice(Entry(b).req)
    /\ Pop(b)
    /\ \E read \in ReadGate : ~read.halted /\ gate' = read.gate
    /\ chat' = [pc |-> "price", req |-> {Entry(b).req}]
    /\ told' = Started(b, Entry(b).req)
    /\ UNCHANGED <<asked, shown, runs, book, trades, clock>>

MarketOrder(r) ==
    /\ chat = [pc |-> "price", req |-> {r}]
    /\ \/ /\ \E read \in ReadGate : ~read.halted /\ gate' = read.gate
          /\ MayRun(r)
          /\ Start(r, "gate")
          /\ chat' = [chat EXCEPT !.pc = "run"]
       \/ /\ chat' = Free    \* no price, halted meanwhile, or over a limit
          /\ UNCHANGED <<runs, gate>>
    /\ UNCHANGED <<asked, pending, shown, book, trades, clock, told>>

(***************************************************************************)
(* Group numbers: one more than on any open order or logged trade.         *)
(***************************************************************************)
GroupsInUseOnList(u) == {o.group : o \in OpenOrders(u)}

GroupsInUse(u) ==
    {o.group : o \in OpenOrders(u)} \cup {t.group : t \in {t \in trades : UserOf(t.req) = u}}
NextGroup(u) == Max({0} \cup GroupsInUse(u)) + 1

\* Runs of u that go on and have the number r gets.
Twins(r, u) == {q \in DOMAIN asked \ {r} : Running(q) /\ UserOf(q) = u /\ runs[q].group = NextGroup(u)}
Numbered(r, u) ==
    [told EXCEPT !.twins = IF Twins(r, u) = {} THEN @ ELSE @ \cup Twins(r, u) \cup {r}]

TakeNumber(r) ==
    /\ runs[r].pc = "number"
    /\ runs' = [runs EXCEPT ![r].pc = "leg", ![r].group = NextGroup(UserOf(r))]
    /\ told' = Numbered(r, UserOf(r))
    /\ UNCHANGED <<asked, pending, shown, chat, book, trades, gate, clock>>

(***************************************************************************)
(* /internal/execute_grid, _sgrid, _rsitrade: no gate, and in a task.      *)
(***************************************************************************)
ManagerRuns(r, u, shape) ==
    /\ r \notin DOMAIN asked
    /\ shape.store = "strategy"
    /\ asked' = Put(asked, r, [user |-> u, shape |-> shape])
    /\ runs' = [runs EXCEPT ![r] = [NewRun(r, "leg", "manager") EXCEPT !.group = NextGroup(u)]]
    /\ told' = [Numbered(r, u) EXCEPT !.starts[r] = @ + 1]
    /\ UNCHANGED <<pending, shown, chat, book, trades, gate, clock>>

(***************************************************************************)
(* _execute_order_batch, and the one order of /buy and /sell.              *)
(***************************************************************************)
Order(r, live, tracked) ==
    [req |-> r, leg |-> runs[r].leg, group |-> runs[r].group, live |-> live, tracked |-> tracked]

\* After leg r goes on, or ends: a Telegram handler returns.
NextLeg(r) ==
    LET over == runs[r].leg = ShapeOf(r).legs
    IN  /\ runs' = [runs EXCEPT ![r].pc = IF over THEN "over" ELSE "leg",
                                ![r].leg = IF over THEN @ ELSE @ + 1]
        /\ chat' = IF over /\ chat.req = {r} THEN Free ELSE chat

At(r, pc) == runs[r].pc = pc

\* No price, or no whole share for the budget.
SkipLeg(r) ==
    /\ At(r, "leg")
    /\ NextLeg(r)
    /\ UNCHANGED <<asked, pending, shown, book, trades, gate, clock, told>>

\* Market closed: tracked as reserved, not sent.
ReserveLeg(r) ==
    /\ At(r, "leg")
    /\ book' = book \cup {Order(r, FALSE, TRUE)}
    /\ NextLeg(r)
    /\ UNCHANGED <<asked, pending, shown, trades, gate, clock, told>>

SendLeg(r) ==
    /\ At(r, "leg")
    /\ runs' = [runs EXCEPT ![r].pc = "create"]
    /\ UNCHANGED <<asked, pending, shown, chat, book, trades, gate, clock, told>>

LegPlaced(r) ==
    /\ At(r, "create")
    /\ book' = book \cup {Order(r, TRUE, TRUE)}
    /\ NextLeg(r)
    /\ UNCHANGED <<asked, pending, shown, trades, gate, clock, told>>

\* Refused; or accepted and the answer lost.
LegFails(r) ==
    /\ At(r, "create")
    /\ \/ UNCHANGED <<book, told>>
       \/ /\ Fault
          /\ book' = book \cup {Order(r, TRUE, FALSE)}
          /\ told' = Faulty([told EXCEPT !.lost = @ \cup {<<r, runs[r].leg>>}])
    /\ NextLeg(r)
    /\ UNCHANGED <<asked, pending, shown, trades, gate, clock>>

\* Accepted, and add_order fails: the loop of the strategies takes the order back.
LegUntracked(r) ==
    /\ At(r, "create")
    /\ ShapeOf(r).family # "manual"
    /\ Fault
    /\ book' = book \cup {Order(r, TRUE, FALSE)}
    /\ runs' = [runs EXCEPT ![r].pc = "rollback"]
    /\ told' = Faulty(told)
    /\ UNCHANGED <<asked, pending, shown, chat, trades, gate, clock>>

RollBackSilently(r) ==
    /\ At(r, "rollback")
    /\ book' = book \ {Order(r, TRUE, FALSE)} \/ book' = book
    /\ NextLeg(r)
    /\ UNCHANGED <<asked, pending, shown, trades, gate, clock, told>>

RollBack(r) ==
    /\ At(r, "rollback")
    /\ \/ book' = book \ {Order(r, TRUE, FALSE)} /\ told' = told
       \/ book' = book /\ told' = [told EXCEPT !.alarmed = @ \cup {<<r, runs[r].leg>>}]
    /\ NextLeg(r)
    /\ UNCHANGED <<asked, pending, shown, trades, gate, clock>>

\* An order is executed and logged, or cancelled, and the synchronisation drops it.
OrderOver(o) ==
    /\ o.tracked
    /\ book' = book \ {o}
    /\ \/ o.live /\ trades' = trades \cup {[req |-> o.req, group |-> o.group]}
       \/ trades' = trades
    /\ UNCHANGED <<asked, pending, shown, chat, runs, gate, clock, told>>

Tick ==
    /\ clock < MaxTime
    /\ clock' = clock + 1
    /\ UNCHANGED <<asked, pending, shown, chat, runs, book, trades, gate, told>>

\* Tokens, caches and loops are lost; the messages with their buttons are not.
Restart ==
    /\ Fault
    /\ \E sent \in SUBSET {r \in Requests : runs[r].pc = "create"} :
         /\ book' = book \cup {Order(r, TRUE, FALSE) : r \in sent}
         /\ told' = Faulty([told EXCEPT !.lost = @ \cup {<<o.req, o.leg>> :
                      o \in {p \in book' : ~p.tracked /\ <<p.req, p.leg>> \notin told.alarmed}}])
    /\ pending' = [s \in Stores |-> Empty]
    /\ runs' = [r \in Requests |-> IF Running(r) THEN [runs[r] EXCEPT !.pc = "over"] ELSE runs[r]]
    /\ chat' = Free
    /\ gate' = [gate EXCEPT !.cache = {}, !.at = 0]
    /\ UNCHANGED <<asked, shown, trades, clock>>

Leg(r) ==
    \/ TakeNumber(r) \/ SkipLeg(r) \/ ReserveLeg(r) \/ SendLeg(r)
    \/ LegPlaced(r) \/ LegFails(r) \/ LegUntracked(r) \/ RollBack(r)

Tap(b) == TapRefused(b) \/ TapCancel(b) \/ TapStopped(b) \/ TapRuns(b) \/ TapRunsIntent(b) \/ TapAsksPrice(b)

EntryNext ==
    \/ \E r \in Requests, u \in Users, shape \in Shapes : Ask(r, u, shape) \/ ManagerRuns(r, u, shape)
    \/ \E b \in shown : Tap(b)
    \/ \E r \in Requests : MarketOrder(r) \/ Leg(r)
    \/ \E halted \in BOOLEAN : SetHalt(halted)
    \/ \E o \in book : OrderOver(o)
    \/ Tick
    \/ Restart

EntrySpec == EntryInit /\ [][EntryNext]_entryVars

(***************************************************************************)
(* Properties.                                                             *)
(***************************************************************************)
EntryTypeOK ==
    /\ DOMAIN asked \subseteq Requests
    /\ \A r \in DOMAIN asked : asked[r] \in [user : Users, shape : Shapes]
    /\ \A s \in Stores : \A t \in DOMAIN pending[s] :
         pending[s][t].req \in DOMAIN asked /\ pending[s][t].at <= clock
    /\ chat.pc \in {"free", "price", "run"} /\ chat.req \subseteq DOMAIN asked
    /\ \A r \in Requests : runs[r].pc \in {"idle", "number", "leg", "create", "rollback", "over"}
    /\ \A o \in book : o.req \in DOMAIN asked /\ (o.live \/ o.tracked)

\* A request is run once at most, by the user who made it and before its token expires,
\* however often its button is tapped, numbers are given again and the bot is restarted.
RunOnceByItsUser ==
    /\ \A r \in Requests : told.starts[r] <= 1
    /\ told.foreign = {} /\ told.late = {}

\* An administrator's halt is what every reader of the gate gets until it is lifted, and
\* the other way round, whatever is cached, unreadable or restarted; except when the
\* write of the table failed, which only the cache and the file then know.
HaltHolds == ~told.dbMissed => \A read \in ReadGate : read.halted = told.halted

GatedBuys(u) == {r \in DOMAIN asked : UserOf(r) = u /\ runs[r].by = "gate"
                                       /\ ShapeOf(r).side = "bid" /\ ~ShapeOf(r).market}
LegsToCome(u) == UNION {{r} \X (runs[r].leg..ShapeOf(r).legs) : r \in {q \in GatedBuys(u) : Running(q)}}

\* The buys that passed the gate, with the legs their loops still have to place, never
\* hold more than the cap of a user, although orders are checked long before the last
\* of their legs is on the list.
GatedBuysWithinCap ==
    \A u \in Users :
        Exposure({o \in OpenOrders(u) : o.req \in GatedBuys(u)}) + Cardinality(LegsToCome(u)) <= Cap

\* Two strategies of different families have no open orders at once, as far as both
\* passed the gate (the manager's and those of natural language do not).
OneFamilyAtOnce ==
    \A o, p \in book :
        (/\ o.tracked /\ p.tracked /\ UserOf(o.req) = UserOf(p.req)
         /\ runs[o.req].by = "gate" /\ runs[p.req].by = "gate"
         /\ "manual" \notin {ShapeOf(o.req).family, ShapeOf(p.req).family})
        => ShapeOf(o.req).family = ShapeOf(p.req).family

\* Orders, open or executed, that have the same number come from the same run, unless it
\* was given to one run while another, that had it, had nothing on the list or in the log:
\* a report by number is the report of one run.
BatchNumbersApart ==
    LET numbered == {o \in book : o.tracked} \cup trades
    IN  \A o, p \in numbered :
            (UserOf(o.req) = UserOf(p.req) /\ o.group = p.group /\ o.group # 0 /\ o.req # p.req)
            => {o.req, p.req} \subseteq told.twins

\* An order that is live and not tracked is being taken back, or was reported as such, or
\* nobody got to know of it: its answer was lost or the bot stopped over it.
OrphansAreReported ==
    \A o \in book : o.live /\ ~o.tracked =>
        \/ <<o.req, o.leg>> \in told.alarmed \cup told.lost
        \/ At(o.req, "rollback") /\ runs[o.req].leg = o.leg

==============================================================================
