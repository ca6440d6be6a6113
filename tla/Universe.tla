------------------------------ MODULE Universe ------------------------------
(***************************************************************************)
(* The rankings of a market (services/universe_resolver.py): a day's is    *)
(* fetched once and frozen in market_top_snapshots, which the strategies'  *)
(* batches and the backtests of the manager read.  A backtest fills the    *)
(* days without one by drifting the last one known.                        *)
(*                                                                         *)
(* A ranking is [codes, caps, made]: whether its first item has a market   *)
(* cap, and whether it was fetched, the built-in fallback, or simulated.   *)
(***************************************************************************)
EXTENDS Integers, SequencesExt, FiniteSetsExt, Functions

CONSTANTS
    Markets,    \* of {"KOSPI", "UPBIT_KRW", "BITHUMB_KRW"}
    Listings,   \* what a market may list: sequences of codes
    Ordinary,   \* codes of ordinary shares, or of coins that are not stable
    BuiltIn,    \* DEFAULT_KOSPI_TOP and the like: a sequence of codes
    Slots,      \* requests under way at once
    PerQuery,   \* days of a backtest looked up in the table: 100
    LastDate, MaxAsks, MaxFaults   \* bounds; the last request is made alone

VARIABLES
    market,     \* for good
    today,
    snapshots,  \* [days -> ranking]: the table
    memory,     \* [days -> ranking]: _SNAPSHOT_MEM_CACHE of this process
    asks,       \* [Slots -> request]: see Free
    given       \* [batches, replays, asked, faults, calm, alone]: histories

universeVars == <<market, today, snapshots, memory, asks, given>>

Stock == market \in {"KOSPI", "KOSDAQ"}

NoRanking == [codes |-> <<>>, caps |-> FALSE, made |-> ""]
Free == [kind |-> "free", pc |-> "", date |-> 0, days |-> {}, found |-> [d \in {} |-> NoRanking],
         ranking |-> NoRanking, failed |-> FALSE]

\* Ranks are given to what is left of the list.
Ranked(listing) == [codes |-> SelectSeq(listing, LAMBDA code : code \in Ordinary), caps |-> TRUE, made |-> "fetched"]
Fallback == [codes |-> BuiltIn, caps |-> Stock, made |-> "fallback"]

Accepted(rows, d) == d \in DOMAIN rows /\ rows[d].caps

Put(rows, d, ranking) == [e \in DOMAIN rows \cup {d} |-> IF e = d THEN ranking ELSE rows[e]]

UniverseInit ==
    /\ market \in Markets
    /\ today = 1
    /\ snapshots = [d \in {} |-> NoRanking] /\ memory = [d \in {} |-> NoRanking]
    /\ asks = [s \in Slots |-> Free]
    /\ given = [batches |-> {}, replays |-> {}, asked |-> 0, faults |-> 0, calm |-> TRUE, alone |-> TRUE]

Goes(s, pc) == asks' = [asks EXCEPT ![s].pc = pc]
Fault == given.faults < MaxFaults /\ given' = [given EXCEPT !.faults = @ + 1, !.calm = FALSE]

Busy(kinds) == \E s \in Slots : asks[s].kind \in kinds

\* Requests are alike, so one takes the first slot that is free.
Asked(s, alone) ==
    /\ s = Min({t \in Slots : asks[t].kind = "free"}) /\ given.asked < MaxAsks
    /\ given.asked = MaxAsks - 1 => ~Busy({"batch", "replay"})
    /\ given' = [given EXCEPT !.asked = @ + 1, !.calm = @ /\ ~Busy({"batch", "replay"}), !.alone = @ /\ alone]

(***************************************************************************)
(* freeze_or_get_master_top: looked up, fetched, saved.  A batch asks for  *)
(* the day it began on.                                                    *)
(***************************************************************************)
BeginBatch(s) ==
    /\ Busy({"free"}) /\ Asked(s, TRUE)
    /\ asks' = [asks EXCEPT ![s] = [Free EXCEPT !.kind = "batch", !.pc = "lookup", !.date = today]]
    /\ UNCHANGED <<market, today, snapshots, memory>>

\* A batch has its ranking; a backtest goes on from it.
Has(s, ranking, failed) ==
    IF asks[s].kind = "batch"
    THEN /\ asks' = [asks EXCEPT ![s] = Free]
         /\ given' = [given EXCEPT !.batches = @ \cup {[date |-> asks[s].date, ranking |-> ranking, failed |-> failed]}]
    ELSE /\ asks' = [asks EXCEPT ![s].pc = "simulate", ![s].ranking = ranking]
         /\ UNCHANGED given

LookUp(s) ==
    /\ asks[s].pc = "lookup"
    /\ IF Accepted(snapshots, asks[s].date) THEN Has(s, snapshots[asks[s].date], FALSE)
       ELSE Goes(s, "fetch") /\ UNCHANGED given
    /\ UNCHANGED <<market, today, snapshots, memory>>

LookUpFails(s) ==
    /\ asks[s].pc = "lookup" /\ Fault
    /\ Goes(s, "fetch")
    /\ UNCHANGED <<market, today, snapshots, memory>>

\* A list with nothing ordinary on it is as good as none.
Fetch(s, listing) ==
    /\ asks[s].pc = "fetch" /\ market # "BITHUMB_KRW"
    /\ Ranked(listing).codes # <<>>
    /\ asks' = [asks EXCEPT ![s].pc = "save", ![s].ranking = Ranked(listing)]
    /\ UNCHANGED <<market, today, snapshots, memory, given>>

\* Nothing is fetched of Bithumb.
FetchFails(s) ==
    /\ asks[s].pc = "fetch"
    /\ IF market = "BITHUMB_KRW" THEN UNCHANGED given
       ELSE given.faults < MaxFaults /\ given' = [given EXCEPT !.faults = @ + 1, !.calm = @ /\ Stock]
    /\ asks' = [asks EXCEPT ![s].pc = "save", ![s].ranking = Fallback, ![s].failed = TRUE]
    /\ UNCHANGED <<market, today, snapshots, memory>>

Freeze(s) ==
    /\ asks[s].pc = "save"
    /\ snapshots' = Put(snapshots, asks[s].date, asks[s].ranking)
    /\ Has(s, asks[s].ranking, asks[s].failed)
    /\ UNCHANGED <<market, today, memory>>

FreezeFails(s) ==
    /\ asks[s].pc = "save" /\ given.faults < MaxFaults
    /\ IF asks[s].kind = "batch"
       THEN /\ asks' = [asks EXCEPT ![s] = Free]
            /\ given' = [given EXCEPT !.faults = @ + 1, !.calm = FALSE,
                            !.batches = @ \cup {[date |-> asks[s].date, ranking |-> asks[s].ranking, failed |-> asks[s].failed]}]
       ELSE Goes(s, "simulate") /\ Fault
    /\ UNCHANGED <<market, today, snapshots, memory>>

(***************************************************************************)
(* backfill_historical_master_top: from memory, from the table, and the    *)
(* rest simulated from today's ranking and those found.                    *)
(***************************************************************************)
Ends(s, found) ==
    /\ asks' = [asks EXCEPT ![s] = Free]
    /\ given' = [given EXCEPT !.replays = @ \cup {found}]

BeginReplay(s, from, to) ==
    LET cached == Restrict(memory, DOMAIN memory \cap (from..to)) IN
    /\ Busy({"free"}) /\ Asked(s, ~Busy({"replay"}))
    /\ asks' = [asks EXCEPT ![s] = [Free EXCEPT !.kind = "replay", !.pc = "rows", !.days = from..to, !.found = cached]]
    /\ UNCHANGED <<market, today, snapshots, memory>>

Missing(s) == asks[s].days \ DOMAIN asks[s].found

\* Then today's ranking is needed, or nothing more is.
WithRows(s, rows) ==
    LET found == [d \in DOMAIN asks[s].found \cup rows |->
                    IF d \in rows THEN snapshots[d] ELSE asks[s].found[d]]
    IN  /\ memory' = [d \in DOMAIN memory \cup rows |-> IF d \in rows THEN snapshots[d] ELSE memory[d]]
        /\ IF DOMAIN found = asks[s].days THEN Ends(s, found)
           ELSE /\ asks' = [asks EXCEPT ![s].pc = "lookup", ![s].date = today, ![s].found = found]
                /\ UNCHANGED given

ReadRows(s) ==
    LET asked == {d \in Missing(s) : Cardinality({e \in Missing(s) : e < d}) < PerQuery} IN
    /\ asks[s].pc = "rows"
    /\ WithRows(s, {d \in asked : Accepted(snapshots, d)})
    /\ UNCHANGED <<market, today, snapshots>>

ReadRowsFails(s) ==
    /\ asks[s].pc = "rows" /\ Missing(s) # {} /\ Fault
    /\ asks' = [asks EXCEPT ![s].pc = "lookup", ![s].date = today]
    /\ UNCHANGED <<market, today, snapshots, memory>>

\* Each day's order drifts from that of the day before; where to is up to hash(), which no two
\* processes agree on.
Drifted(s, orders) ==
    [d \in Missing(s) |-> [codes |-> orders[d], made |-> "simulated",
                           caps |-> LET before == {e \in DOMAIN asks[s].found : e < d}
                                    IN  IF before = {} THEN asks[s].ranking.caps ELSE asks[s].found[Max(before)].caps]]

\* Mutant: what was simulated is not remembered.
Remembered(drifted) == memory
Cached(drifted) ==
    [d \in DOMAIN memory \cup DOMAIN drifted |-> IF d \in DOMAIN drifted THEN drifted[d] ELSE memory[d]]

Simulate(s, orders) ==
    LET drifted == Drifted(s, orders) IN
    /\ asks[s].pc = "simulate"
    /\ memory' = Cached(drifted)
    /\ Ends(s, [d \in asks[s].days |-> IF d \in DOMAIN drifted THEN drifted[d] ELSE asks[s].found[d]])
    /\ UNCHANGED <<market, today, snapshots>>

NewDate ==
    /\ today < LastDate
    /\ today' = today + 1
    /\ UNCHANGED <<market, snapshots, memory, asks, given>>

\* Memory and requests are gone; the table is not.
RestartManager ==
    /\ given.faults < MaxFaults
    /\ memory' = [d \in {} |-> NoRanking]
    /\ asks' = [s \in Slots |-> Free]
    /\ given' = [given EXCEPT !.faults = @ + 1, !.replays = {}, !.alone = TRUE]
    /\ UNCHANGED <<market, today, snapshots>>

SimulateMissing(s) == \E orders \in [Missing(s) -> {BuiltIn, Reverse(BuiltIn)}] : Simulate(s, orders)

RequestNext(s) ==
    \/ BeginBatch(s) \/ LookUp(s) \/ LookUpFails(s)
    \/ (\E listing \in Listings : Fetch(s, listing)) \/ FetchFails(s) \/ Freeze(s) \/ FreezeFails(s)
    \/ \E from, to \in 1..LastDate : from <= to /\ BeginReplay(s, from, to)
    \/ ReadRows(s) \/ ReadRowsFails(s) \/ SimulateMissing(s)

UniverseNext == (\E s \in Slots : RequestNext(s)) \/ NewDate \/ RestartManager

UniverseSpec == UniverseInit /\ [][UniverseNext]_universeVars

(***************************************************************************)
(* Property.                                                               *)
(***************************************************************************)
\* What is simulated for a backtest never reaches the table or a batch.
OnlyReal ==
    /\ \A d \in DOMAIN snapshots : snapshots[d].made # "simulated"
    /\ \A b \in given.batches : b.ranking.made # "simulated"

\* A fallback without market caps is used by the batch that could not fetch, and by no other.
FallbackNotKept == \A b \in given.batches : ~b.ranking.caps => b.failed

\* All batches of a day have one ranking, if the database answered and none overlapped.
OneRankingADay ==
    (given.calm /\ market # "BITHUMB_KRW") => \A a, b \in given.batches : a.date = b.date => a.ranking = b.ranking

\* All backtests of a process have one ranking for a day, if none overlapped.
ReplaysAgree ==
    given.alone => \A f, g \in given.replays : \A d \in DOMAIN f \cap DOMAIN g : f[d] = g[d]

RankingsAgree == OnlyReal /\ FallbackNotKept /\ OneRankingADay /\ ReplaysAgree

=============================================================================
