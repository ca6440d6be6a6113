---------------------------- MODULE ManagerProofs ----------------------------
(***************************************************************************)
(* Proofs about the manager's rankings (Universe), for any market, lists   *)
(* and numbers of days, requests, failures and restarts, and about what    *)
(* the account promises that its ledger implements (BudgetAccount).        *)
(***************************************************************************)
EXTENDS BudgetAccount, Universe, TLAPS

(***************************************************************************)
(* The account: Init, Next and Spec are BudgetAccount's.                   *)
(***************************************************************************)
(* However many entries and resets there were, and after any reset that    *)
(* follows something the account does not cover, the balance is not        *)
(* negative and is the sum of the epoch's rows (budget_manager's first     *)
(* invariant).                                                             *)
THEOREM AccountExplained == Spec => []BalanceExplained
<1>1. Init => BalanceExplained
  BY DEF Init, BalanceExplained
<1>2. BalanceExplained /\ [Next]_accountVars => BalanceExplained'
  <2> SUFFICES ASSUME BalanceExplained, [Next]_accountVars PROVE BalanceExplained'
    OBVIOUS
  <2>1. CASE Move \/ Credit
    <3>1. exact /\ Entry
      BY <2>1 DEF Move, Credit
    <3>2. /\ balance \in Nat /\ total = balance /\ balance' \in Nat /\ total' \in Int
          /\ balance' - balance = total' - total
      BY <3>1 DEF Entry, BalanceExplained
    <3> QED
      BY <3>2 DEF BalanceExplained
  <2>2. CASE Reset
    BY <2>2 DEF Reset, BalanceExplained
  <2>3. CASE Stray
    BY <2>3 DEF Stray, BalanceExplained
  <2>4. CASE UNCHANGED accountVars
    BY <2>4 DEF accountVars, BalanceExplained
  <2> QED
    BY <2>1, <2>2, <2>3, <2>4 DEF Next
<1> QED
  BY <1>1, <1>2, PTL DEF Spec

(***************************************************************************)
(* The rankings: the invariant.                                            *)
(***************************************************************************)
RequestFields == {"kind", "pc", "date", "days", "found", "ranking", "failed"}
GivenFields == {"batches", "replays", "asked", "faults", "calm", "alone"}

Shaped ==
    /\ DOMAIN asks = Slots /\ asks = [s \in Slots |-> asks[s]]
    /\ \A s \in Slots : /\ DOMAIN asks[s] = RequestFields
                        /\ asks[s].kind \in {"free", "batch", "replay"}
                        /\ asks[s].kind = "free" => asks[s].pc = ""
                        /\ asks[s].pc \in {"rows", "simulate"} => asks[s].kind = "replay"
    /\ DOMAIN given = GivenFields

\* What is frozen or about to be was fetched, or is the fallback of who could not fetch.
Real ==
    /\ \A d \in DOMAIN snapshots : snapshots[d].made # "simulated"
    /\ \A b \in given.batches : b.ranking.made # "simulated" /\ (~b.ranking.caps => b.failed)
    /\ \A s \in Slots : asks[s].pc = "save" =>
          asks[s].ranking.made # "simulated" /\ (~asks[s].ranking.caps => asks[s].failed)

\* As long as the database answers and requests come one after the other, what a batch
\* was given is frozen, and who fetches does so for a day that has no ranking.
Calm == given.calm /\ market # "BITHUMB_KRW"
Frozen ==
    Calm =>
      /\ \A b \in given.batches : Accepted(snapshots, b.date) /\ snapshots[b.date] = b.ranking
      /\ \A s \in Slots : asks[s].pc \in {"fetch", "save"} => ~Accepted(snapshots, asks[s].date)
      /\ \A s \in Slots : asks[s].pc = "save" => asks[s].ranking.caps
      /\ \A s, t \in Slots : asks[s].kind # "free" /\ asks[t].kind # "free" => s = t

\* As long as backtests come one after the other, memory has what each was given, and
\* the one under way has what memory has of its days.
Remembers(s) ==
    /\ DOMAIN asks[s].found = asks[s].days \cap DOMAIN memory
    /\ \A d \in DOMAIN asks[s].found : asks[s].found[d] = memory[d]
Replayed ==
    given.alone =>
      /\ \A f \in given.replays : \A d \in DOMAIN f : d \in DOMAIN memory /\ f[d] = memory[d]
      /\ \A s \in Slots : asks[s].kind = "replay" => Remembers(s)
      /\ \A s, t \in Slots : asks[s].kind = "replay" /\ asks[t].kind = "replay" => s = t

UniverseInv == Shaped /\ Real /\ Frozen /\ Replayed

(***************************************************************************)
(* One request changes.                                                    *)
(***************************************************************************)
Others(s) == DOMAIN asks' = Slots /\ asks' = [t \in Slots |-> asks'[t]] /\ \A t \in Slots \ {s} : asks'[t] = asks[t]

LEMMA Replaced ==
    ASSUME Shaped, NEW s \in Slots, NEW r, asks' = [asks EXCEPT ![s] = r]
    PROVE  Others(s) /\ asks'[s] = r
  BY DEF Shaped, Others

LEMMA Gone ==
    ASSUME Shaped, NEW s \in Slots, NEW pc, Goes(s, pc)
    PROVE  /\ Others(s) /\ DOMAIN asks'[s] = RequestFields
           /\ asks'[s].kind = asks[s].kind /\ asks'[s].pc = pc /\ asks'[s].date = asks[s].date
           /\ asks'[s].days = asks[s].days /\ asks'[s].found = asks[s].found
           /\ asks'[s].ranking = asks[s].ranking /\ asks'[s].failed = asks[s].failed
<1>1. PICK r : r = [asks[s] EXCEPT !.pc = pc]
  OBVIOUS
<1>2. asks' = [asks EXCEPT ![s] = r]
  BY <1>1 DEF Goes
<1>3. asks'[s] = r /\ Others(s)
  BY <1>2, Replaced
<1>4. DOMAIN asks[s] = RequestFields
  BY DEF Shaped
<1> QED
  BY <1>1, <1>3, <1>4 DEF RequestFields

LEMMA FreeIs ==
    /\ DOMAIN Free = RequestFields /\ Free.kind = "free" /\ Free.pc = ""
  BY DEF Free, RequestFields

\* Histories that a step changes by at most the counts.
LEMMA GivenFault ==
    ASSUME Shaped, Fault
    PROVE  /\ DOMAIN given' = GivenFields /\ ~given'.calm /\ given'.alone = given.alone
           /\ given'.batches = given.batches /\ given'.replays = given.replays
  BY DEF Shaped, Fault, GivenFields

\* The table still has only what is real, and all it had while calm.
TableGrows ==
    /\ \A d \in DOMAIN snapshots' : snapshots'[d].made # "simulated"
    /\ Calm' => \A d : Accepted(snapshots, d) => Accepted(snapshots', d) /\ snapshots'[d] = snapshots[d]

LEMMA TableStands == ASSUME UniverseInv, snapshots' = snapshots PROVE TableGrows
  BY DEF UniverseInv, Real, TableGrows

LEMMA OthersFree ==
    ASSUME UniverseInv, Calm, NEW s \in Slots, asks[s].kind # "free", NEW t \in Slots \ {s}
    PROVE  asks[t].kind = "free" /\ asks[t].pc = ""
  BY DEF UniverseInv, Frozen, Shaped

\* A request under way goes on.
LEMMA GoesOn ==
    ASSUME UniverseInv, NEW s \in Slots, Others(s), DOMAIN asks'[s] = RequestFields,
           asks'[s].kind = asks[s].kind, asks[s].kind # "free",
           asks'[s].pc \in {"fetch", "save", "simulate"}, asks'[s].pc = "simulate" => asks[s].kind = "replay",
           asks'[s].pc = "save" => /\ asks'[s].ranking.made # "simulated"
                                   /\ ~asks'[s].ranking.caps => asks'[s].failed
                                   /\ Calm' => asks'[s].ranking.caps,
           asks'[s].pc \in {"fetch", "save"} /\ Calm' => ~Accepted(snapshots', asks'[s].date),
           asks'[s].found = asks[s].found, asks'[s].days = asks[s].days,
           DOMAIN given' = GivenFields, given'.batches = given.batches, given'.replays = given.replays,
           given'.calm => given.calm, given'.alone = given.alone,
           TableGrows, UNCHANGED <<market, memory>>
    PROVE  UniverseInv'
<1>1. Shaped /\ Real /\ Frozen /\ Replayed
  BY DEF UniverseInv
<1>2. Calm' => Calm
  BY DEF Calm
<1>3. Shaped'
  <2>1. ASSUME NEW t \in Slots
        PROVE  /\ DOMAIN asks'[t] = RequestFields /\ asks'[t].kind \in {"free", "batch", "replay"}
               /\ asks'[t].kind = "free" => asks'[t].pc = ""
               /\ asks'[t].pc \in {"rows", "simulate"} => asks'[t].kind = "replay"
    <3>1. CASE t = s
      BY <1>1, <3>1 DEF Shaped
    <3>2. CASE t # s
      BY <1>1, <3>2 DEF Shaped, Others
    <3> QED
      BY <3>1, <3>2
  <2> QED
    BY <2>1 DEF Shaped, Others
<1>4. Real'
  <2>1. ASSUME NEW t \in Slots, asks'[t].pc = "save"
        PROVE  asks'[t].ranking.made # "simulated" /\ (~asks'[t].ranking.caps => asks'[t].failed)
    <3>1. CASE t = s
      BY <2>1, <3>1
    <3>2. CASE t # s
      BY <1>1, <2>1, <3>2 DEF Real, Others
    <3> QED
      BY <3>1, <3>2
  <2> QED
    BY <1>1, <2>1 DEF Real, TableGrows
<1>5. Frozen'
  <2> SUFFICES ASSUME Calm' PROVE Frozen'
    BY DEF Frozen
  <2>1. \A b \in given'.batches : Accepted(snapshots', b.date) /\ snapshots'[b.date] = b.ranking
    BY <1>1, <1>2 DEF Frozen, TableGrows
  <2>2. ASSUME NEW t \in Slots \ {s} PROVE asks'[t].kind = "free" /\ asks'[t].pc = ""
    <3>1. asks[t].kind = "free" /\ asks[t].pc = ""
      BY <1>2, OthersFree
    <3> QED
      BY <3>1 DEF Others
  <2>3. \A t \in Slots : asks'[t].pc \in {"fetch", "save"} => ~Accepted(snapshots', asks'[t].date)
    BY <2>2
  <2>4. \A t \in Slots : asks'[t].pc = "save" => asks'[t].ranking.caps
    BY <2>2
  <2>5. \A t, u \in Slots : asks'[t].kind # "free" /\ asks'[u].kind # "free" => t = u
    BY <2>2
  <2> QED
    BY <2>1, <2>3, <2>4, <2>5 DEF Frozen, Accepted
<1>6. Replayed'
  <2> SUFFICES ASSUME given'.alone PROVE Replayed'
    BY DEF Replayed
  <2>1. \A f \in given'.replays : \A d \in DOMAIN f : d \in DOMAIN memory' /\ f[d] = memory'[d]
    BY <1>1 DEF Replayed
  <2>2. \A t \in Slots : asks'[t].kind = "replay" => Remembers(t)'
    BY <1>1 DEF Replayed, Others, Remembers
  <2>3. \A t, u \in Slots : asks'[t].kind = "replay" /\ asks'[u].kind = "replay" => t = u
    BY <1>1 DEF Replayed, Others
  <2> QED
    BY <2>1, <2>2, <2>3 DEF Replayed
<1> QED
  BY <1>3, <1>4, <1>5, <1>6 DEF UniverseInv

\* A batch has its ranking.
LEMMA BatchEnds ==
    ASSUME UniverseInv, NEW s \in Slots, Others(s), asks'[s] = Free, asks[s].kind # "free", NEW b,
           DOMAIN given' = GivenFields, given'.batches = given.batches \cup {b}, given'.replays = given.replays,
           given'.calm => given.calm, given'.alone = given.alone,
           b.ranking.made # "simulated", ~b.ranking.caps => b.failed,
           Calm' => Accepted(snapshots', b.date) /\ snapshots'[b.date] = b.ranking,
           TableGrows, UNCHANGED <<market, memory>>
    PROVE  UniverseInv'
<1>1. Shaped /\ Real /\ Frozen /\ Replayed
  BY DEF UniverseInv
<1>2. Calm' => Calm
  BY DEF Calm
<1>3. Shaped'
  BY <1>1, FreeIs DEF Shaped, Others
<1>4. Real'
  <2>1. ASSUME NEW t \in Slots, asks'[t].pc = "save"
        PROVE  asks'[t].ranking.made # "simulated" /\ (~asks'[t].ranking.caps => asks'[t].failed)
    <3>1. t # s /\ asks'[t] = asks[t]
      BY <2>1, FreeIs DEF Others
    <3> QED
      BY <1>1, <2>1, <3>1 DEF Real
  <2> QED
    BY <1>1, <2>1 DEF Real, TableGrows
<1>5. Frozen'
  <2> SUFFICES ASSUME Calm' PROVE Frozen'
    BY DEF Frozen
  <2>1. \A c \in given'.batches : Accepted(snapshots', c.date) /\ snapshots'[c.date] = c.ranking
    BY <1>1, <1>2 DEF Frozen, TableGrows
  <2>2. ASSUME NEW t \in Slots PROVE asks'[t].kind = "free" /\ asks'[t].pc = ""
    <3>1. CASE t = s
      BY <3>1, FreeIs
    <3>2. CASE t # s
      <4>1. asks[t].kind = "free" /\ asks[t].pc = ""
        BY <1>2, <3>2, OthersFree
      <4> QED
        BY <3>2, <4>1 DEF Others
    <3> QED
      BY <3>1, <3>2
  <2> QED
    BY <2>1, <2>2 DEF Frozen, Accepted
<1>6. Replayed'
  <2> SUFFICES ASSUME given'.alone PROVE Replayed'
    BY DEF Replayed
  <2>1. \A f \in given'.replays : \A d \in DOMAIN f : d \in DOMAIN memory' /\ f[d] = memory'[d]
    BY <1>1 DEF Replayed
  <2>2. asks'[s].kind # "replay"
    BY FreeIs
  <2>3. ASSUME NEW t \in Slots, asks'[t].kind = "replay"
        PROVE  Remembers(t)' /\ \A u \in Slots : asks'[u].kind = "replay" => t = u
    <3>1. t # s /\ asks'[t] = asks[t]
      BY <2>2, <2>3 DEF Others
    <3>2. Remembers(t)'
      BY <1>1, <2>3, <3>1 DEF Replayed, Remembers
    <3>3. ASSUME NEW u \in Slots, asks'[u].kind = "replay" PROVE t = u
      <4>1. u # s /\ asks'[u] = asks[u]
        BY <2>2, <3>3 DEF Others
      <4> QED
        BY <1>1, <2>3, <3>1, <3>3, <4>1 DEF Replayed
    <3> QED
      BY <3>2, <3>3
  <2> QED
    BY <2>1, <2>2, <2>3 DEF Replayed
<1> QED
  BY <1>3, <1>4, <1>5, <1>6 DEF UniverseInv

LEMMA HasRanking ==
    ASSUME UniverseInv, NEW s \in Slots, asks[s].kind # "free", NEW ranking, NEW failed, Has(s, ranking, failed),
           ranking.made # "simulated", ~ranking.caps => failed,
           Calm' => Accepted(snapshots', asks[s].date) /\ snapshots'[asks[s].date] = ranking,
           TableGrows, UNCHANGED <<market, memory>>
    PROVE  UniverseInv'
<1>1. /\ Shaped /\ DOMAIN given = GivenFields /\ DOMAIN asks[s] = RequestFields
      /\ asks[s].kind \in {"batch", "replay"}
  BY DEF UniverseInv, Shaped
<1>2. CASE asks[s].kind = "batch"
  <2>1. Others(s) /\ asks'[s] = Free
    BY <1>1, <1>2, Replaced DEF Has
  <2>2. PICK b : b = [date |-> asks[s].date, ranking |-> ranking, failed |-> failed]
    OBVIOUS
  <2>3. given' = [given EXCEPT !.batches = given.batches \cup {b}]
    BY <1>2, <2>2 DEF Has
  <2>4. /\ DOMAIN given' = GivenFields /\ given'.batches = given.batches \cup {b} /\ given'.replays = given.replays
        /\ given'.calm = given.calm /\ given'.alone = given.alone
    BY <1>1, <2>3 DEF GivenFields
  <2>5. b.date = asks[s].date /\ b.ranking = ranking /\ b.failed = failed
    BY <2>2
  <2> QED
    BY <2>1, <2>4, <2>5, BatchEnds
<1>3. CASE asks[s].kind # "batch"
  <2>1. PICK r : r = [asks[s] EXCEPT !.pc = "simulate", !.ranking = ranking]
    OBVIOUS
  <2>2. asks' = [asks EXCEPT ![s] = r] /\ given' = given
    BY <1>1, <1>3, <2>1 DEF Has, Shaped
  <2>3. Others(s) /\ asks'[s] = r
    BY <1>1, <2>2, Replaced
  <2>4. /\ DOMAIN r = RequestFields /\ r.kind = asks[s].kind /\ r.pc = "simulate"
        /\ r.found = asks[s].found /\ r.days = asks[s].days
    BY <1>1, <2>1 DEF RequestFields
  <2> QED
    BY <1>1, <1>3, <2>2, <2>3, <2>4, GoesOn
<1> QED
  BY <1>2, <1>3

(***************************************************************************)
(* freeze_or_get_master_top.                                               *)
(***************************************************************************)
LEMMA LooksUp == ASSUME UniverseInv, NEW s \in Slots, LookUp(s) \/ LookUpFails(s) PROVE UniverseInv'
<1>1. Shaped /\ DOMAIN given = GivenFields /\ asks[s].kind # "free" /\ Real
  BY DEF UniverseInv, Shaped, LookUp, LookUpFails
<1>2. TableGrows /\ UNCHANGED <<market, snapshots, memory>>
  BY TableStands DEF LookUp, LookUpFails
<1>3. CASE LookUp(s) /\ Accepted(snapshots, asks[s].date)
  <2>1. Has(s, snapshots[asks[s].date], FALSE)
    BY <1>3 DEF LookUp
  <2>2. /\ snapshots[asks[s].date].made # "simulated" /\ snapshots[asks[s].date].caps
        /\ Accepted(snapshots', asks[s].date)
    BY <1>1, <1>2, <1>3 DEF Real, Accepted
  <2> QED
    BY <1>1, <1>2, <2>1, <2>2, HasRanking
<1>4. CASE LookUp(s) /\ ~Accepted(snapshots, asks[s].date)
  <2>1. Goes(s, "fetch") /\ given' = given
    BY <1>4 DEF LookUp
  <2>2. ~Accepted(snapshots', asks[s].date)
    BY <1>2, <1>4 DEF Accepted
  <2>3. /\ Others(s) /\ DOMAIN asks'[s] = RequestFields /\ asks'[s].kind = asks[s].kind /\ asks'[s].pc = "fetch"
        /\ asks'[s].date = asks[s].date /\ asks'[s].days = asks[s].days /\ asks'[s].found = asks[s].found
    BY <1>1, <2>1, Gone
  <2> QED
    BY <1>1, <1>2, <2>1, <2>2, <2>3, GoesOn
<1>5. CASE LookUpFails(s)
  <2>1. Goes(s, "fetch") /\ Fault
    BY <1>5 DEF LookUpFails
  <2>2. /\ DOMAIN given' = GivenFields /\ ~given'.calm /\ given'.alone = given.alone
        /\ given'.batches = given.batches /\ given'.replays = given.replays
    BY <1>1, <2>1, GivenFault
  <2>3. ~Calm'
    BY <2>2 DEF Calm
  <2>4. /\ Others(s) /\ DOMAIN asks'[s] = RequestFields /\ asks'[s].kind = asks[s].kind /\ asks'[s].pc = "fetch"
        /\ asks'[s].days = asks[s].days /\ asks'[s].found = asks[s].found
    BY <1>1, <2>1, Gone
  <2> QED
    BY <1>1, <1>2, <2>2, <2>3, <2>4, GoesOn
<1> QED
  BY <1>3, <1>4, <1>5

LEMMA Fetches ==
    ASSUME UniverseInv, NEW s \in Slots, (\E listing \in Listings : Fetch(s, listing)) \/ FetchFails(s)
    PROVE  UniverseInv'
<1>1. /\ Shaped /\ DOMAIN given = GivenFields /\ asks[s].kind # "free" /\ asks[s].pc = "fetch" /\ Frozen
      /\ DOMAIN asks[s] = RequestFields
  BY DEF UniverseInv, Shaped, Fetch, FetchFails
<1>2. TableGrows /\ UNCHANGED <<market, snapshots, memory>>
  BY TableStands DEF Fetch, FetchFails
<1>3. ASSUME NEW listing \in Listings, Fetch(s, listing) PROVE UniverseInv'
  <2>1. PICK ranking : ranking = Ranked(listing)
    OBVIOUS
  <2>2. ranking.made = "fetched" /\ ranking.caps
    BY <2>1 DEF Ranked
  <2>3. PICK r : r = [asks[s] EXCEPT !.pc = "save", !.ranking = ranking]
    OBVIOUS
  <2>4. asks' = [asks EXCEPT ![s] = r] /\ given' = given
    BY <1>1, <1>3, <2>1, <2>3 DEF Fetch, Shaped
  <2>5. Others(s) /\ asks'[s] = r
    BY <1>1, <2>4, Replaced
  <2>6. /\ DOMAIN r = RequestFields /\ r.kind = asks[s].kind /\ r.pc = "save" /\ r.ranking = ranking
        /\ r.found = asks[s].found /\ r.days = asks[s].days /\ r.date = asks[s].date
    BY <1>1, <2>3 DEF RequestFields
  <2>7. Calm' => ~Accepted(snapshots', asks[s].date)
    BY <1>1, <1>2, <2>4 DEF Calm, Frozen, Accepted
  <2> QED
    BY <1>1, <1>2, <2>2, <2>4, <2>5, <2>6, <2>7, GoesOn
<1>4. CASE FetchFails(s)
  <2>1. PICK r : r = [asks[s] EXCEPT !.pc = "save", !.ranking = Fallback, !.failed = TRUE]
    OBVIOUS
  <2>2. asks' = [asks EXCEPT ![s] = r]
    BY <1>1, <1>4, <2>1 DEF FetchFails, Shaped
  <2>3. Others(s) /\ asks'[s] = r
    BY <1>1, <2>2, Replaced
  <2>4. /\ DOMAIN r = RequestFields /\ r.kind = asks[s].kind /\ r.pc = "save" /\ r.ranking = Fallback /\ r.failed
        /\ r.found = asks[s].found /\ r.days = asks[s].days /\ r.date = asks[s].date
    BY <1>1, <2>1 DEF RequestFields
  <2>5. /\ DOMAIN given' = GivenFields /\ given'.batches = given.batches /\ given'.replays = given.replays
        /\ given'.alone = given.alone /\ (given'.calm => given.calm)
        /\ given'.calm /\ market # "BITHUMB_KRW" => Stock
    BY <1>1, <1>4 DEF FetchFails, GivenFields
  <2>6. Fallback.made = "fallback" /\ (Calm' => Fallback.caps)
    BY <1>2, <2>5 DEF Fallback, Calm
  <2>7. Calm' => ~Accepted(snapshots', asks[s].date)
    BY <1>1, <1>2, <2>5 DEF Calm, Frozen, Accepted
  <2> QED
    BY <1>1, <1>2, <2>3, <2>4, <2>5, <2>6, <2>7, GoesOn
<1> QED
  BY <1>3, <1>4

LEMMA Freezes == ASSUME UniverseInv, NEW s \in Slots, Freeze(s) \/ FreezeFails(s) PROVE UniverseInv'
<1>1. /\ Shaped /\ DOMAIN given = GivenFields /\ asks[s].kind # "free" /\ asks[s].pc = "save" /\ Real /\ Frozen
      /\ DOMAIN asks[s] = RequestFields /\ asks[s].kind \in {"batch", "replay"}
  BY DEF UniverseInv, Shaped, Freeze, FreezeFails
<1>2. PICK d, ranking : d = asks[s].date /\ ranking = asks[s].ranking
  OBVIOUS
<1>3. ranking.made # "simulated" /\ (~ranking.caps => asks[s].failed)
  BY <1>1, <1>2 DEF Real
<1>4. CASE Freeze(s)
  <2>1. snapshots' = Put(snapshots, d, ranking) /\ Has(s, ranking, asks[s].failed) /\ UNCHANGED <<market, memory>>
    BY <1>2, <1>4 DEF Freeze
  <2>2. /\ DOMAIN snapshots' = DOMAIN snapshots \cup {d} /\ snapshots'[d] = ranking
        /\ \A e \in DOMAIN snapshots \ {d} : snapshots'[e] = snapshots[e]
    BY <2>1 DEF Put
  <2>3. given'.calm = given.calm
    BY <1>1, <2>1 DEF Has, GivenFields
  <2>4. Calm' => Calm
    BY <2>1, <2>3 DEF Calm
  <2>5. TableGrows
    BY <1>1, <1>2, <1>3, <2>2, <2>4 DEF TableGrows, Real, Frozen, Accepted
  <2>6. Calm' => Accepted(snapshots', d) /\ snapshots'[d] = ranking
    BY <1>1, <1>2, <2>2, <2>4 DEF Frozen, Accepted
  <2> QED
    BY <1>1, <1>2, <1>3, <2>1, <2>5, <2>6, HasRanking
<1>5. CASE FreezeFails(s) /\ asks[s].kind = "batch"
  <2>1. PICK b : b = [date |-> asks[s].date, ranking |-> asks[s].ranking, failed |-> asks[s].failed]
    OBVIOUS
  <2>2. /\ asks' = [asks EXCEPT ![s] = Free]
        /\ given' = [given EXCEPT !.faults = @ + 1, !.calm = FALSE, !.batches = @ \cup {b}]
        /\ UNCHANGED <<market, snapshots, memory>>
    BY <1>5, <2>1 DEF FreezeFails
  <2>3. Others(s) /\ asks'[s] = Free
    BY <1>1, <2>2, Replaced
  <2>4. /\ DOMAIN given' = GivenFields /\ given'.batches = given.batches \cup {b} /\ given'.replays = given.replays
        /\ ~given'.calm /\ given'.alone = given.alone
    BY <1>1, <2>2 DEF GivenFields
  <2>5. b.ranking = ranking /\ b.failed = asks[s].failed
    BY <1>2, <2>1
  <2>6. ~Calm' /\ TableGrows
    BY <2>2, <2>4, TableStands DEF Calm
  <2> QED
    BY <1>1, <1>3, <2>2, <2>3, <2>4, <2>5, <2>6, BatchEnds
<1>6. CASE FreezeFails(s) /\ asks[s].kind # "batch"
  <2>1. Goes(s, "simulate") /\ Fault /\ UNCHANGED <<market, snapshots, memory>>
    BY <1>6 DEF FreezeFails
  <2>2. TableGrows
    BY <2>1, TableStands
  <2>3. /\ DOMAIN given' = GivenFields /\ ~given'.calm /\ given'.alone = given.alone
        /\ given'.batches = given.batches /\ given'.replays = given.replays
    BY <1>1, <2>1, GivenFault
  <2>4. /\ Others(s) /\ DOMAIN asks'[s] = RequestFields /\ asks'[s].kind = asks[s].kind /\ asks'[s].pc = "simulate"
        /\ asks'[s].days = asks[s].days /\ asks'[s].found = asks[s].found
    BY <1>1, <2>1, Gone
  <2> QED
    BY <1>1, <1>6, <2>1, <2>2, <2>3, <2>4, GoesOn
<1> QED
  BY <1>4, <1>5, <1>6

(***************************************************************************)
(* Requests that begin, days that pass, restarts.                          *)
(***************************************************************************)
LEMMA Asks ==
    ASSUME UniverseInv, NEW s \in Slots, Others(s), DOMAIN asks'[s] = RequestFields,
           asks'[s].kind \in {"batch", "replay"},
           asks'[s].pc \in {"lookup", "rows"}, asks'[s].pc = "rows" => asks'[s].kind = "replay",
           NEW alone \in BOOLEAN, Asked(s, alone),
           asks'[s].kind = "replay" => Remembers(s)' /\ (alone => ~Busy({"replay"})),
           UNCHANGED <<market, snapshots, memory>>
    PROVE  UniverseInv'
<1>1. Shaped /\ Real /\ Frozen /\ Replayed
  BY DEF UniverseInv
<1>2. /\ DOMAIN given' = GivenFields /\ given'.batches = given.batches /\ given'.replays = given.replays
      /\ given'.calm => given.calm /\ ~Busy({"batch", "replay"})
      /\ given'.alone => given.alone /\ alone
  BY <1>1 DEF Asked, Shaped, GivenFields
<1>3. Shaped'
  BY <1>1, <1>2 DEF Shaped, Others
<1>4. Real'
  BY <1>1, <1>2 DEF Real, Others
<1>5. Frozen'
  <2> SUFFICES ASSUME Calm' PROVE Frozen'
    BY DEF Frozen
  <2>1. Calm /\ \A t \in Slots : asks[t].kind = "free" /\ asks[t].pc = ""
    BY <1>1, <1>2 DEF Calm, Busy, Shaped
  <2>2. \A b \in given'.batches : Accepted(snapshots', b.date) /\ snapshots'[b.date] = b.ranking
    BY <1>1, <1>2, <2>1 DEF Frozen, Accepted
  <2>3. \A t \in Slots : asks'[t].pc \notin {"fetch", "save"}
    BY <2>1 DEF Others
  <2>4. \A t \in Slots \ {s} : asks'[t].kind = "free"
    BY <2>1 DEF Others
  <2> QED
    BY <2>2, <2>3, <2>4 DEF Frozen
<1>6. Replayed'
  <2> SUFFICES ASSUME given'.alone PROVE Replayed'
    BY DEF Replayed
  <2>1. \A f \in given'.replays : \A d \in DOMAIN f : d \in DOMAIN memory' /\ f[d] = memory'[d]
    BY <1>1, <1>2 DEF Replayed
  <2>2. ASSUME NEW t \in Slots \ {s}, asks'[t].kind = "replay"
        PROVE  /\ Remembers(t)' /\ asks'[s].kind # "replay"
               /\ \A u \in Slots \ {s} : asks'[u].kind = "replay" => t = u
    <3>1. asks'[t] = asks[t] /\ \A u \in Slots \ {s} : asks'[u] = asks[u]
      BY DEF Others
    <3>2. Remembers(t)'
      BY <1>1, <1>2, <2>2, <3>1 DEF Replayed, Remembers
    <3>3. Busy({"replay"})
      BY <2>2, <3>1 DEF Busy
    <3> QED
      BY <1>1, <1>2, <2>2, <3>1, <3>2, <3>3 DEF Replayed
  <2> QED
    BY <2>1, <2>2 DEF Replayed
<1> QED
  BY <1>3, <1>4, <1>5, <1>6 DEF UniverseInv

LEMMA Begins ==
    ASSUME UniverseInv, NEW s \in Slots, BeginBatch(s) \/ \E from, to \in 1..LastDate : BeginReplay(s, from, to)
    PROVE  UniverseInv'
<1>1. Shaped /\ DOMAIN Free = RequestFields
  BY FreeIs DEF UniverseInv
<1>2. CASE BeginBatch(s)
  <2>1. PICK r : r = [Free EXCEPT !.kind = "batch", !.pc = "lookup", !.date = today]
    OBVIOUS
  <2>2. DOMAIN r = RequestFields /\ r.kind = "batch" /\ r.pc = "lookup"
    BY <1>1, <2>1 DEF RequestFields
  <2>3. asks' = [asks EXCEPT ![s] = r] /\ Asked(s, TRUE) /\ UNCHANGED <<market, snapshots, memory>>
    BY <1>2, <2>1 DEF BeginBatch
  <2>4. Others(s) /\ asks'[s] = r
    BY <1>1, <2>3, Replaced
  <2> QED
    BY <2>2, <2>3, <2>4, Asks
<1>3. ASSUME NEW from, NEW to, BeginReplay(s, from, to) PROVE UniverseInv'
  <2>1. PICK cached : cached = Restrict(memory, DOMAIN memory \cap (from..to))
    OBVIOUS
  <2>2. PICK r : r = [Free EXCEPT !.kind = "replay", !.pc = "rows", !.days = from..to, !.found = cached]
    OBVIOUS
  <2>3. DOMAIN r = RequestFields /\ r.kind = "replay" /\ r.pc = "rows" /\ r.days = from..to /\ r.found = cached
    BY <1>1, <2>2 DEF RequestFields
  <2>4. asks' = [asks EXCEPT ![s] = r] /\ Asked(s, ~Busy({"replay"})) /\ UNCHANGED <<market, snapshots, memory>>
    BY <1>3, <2>1, <2>2 DEF BeginReplay
  <2>5. Others(s) /\ asks'[s] = r
    BY <1>1, <2>4, Replaced
  <2>6. /\ DOMAIN cached = (from..to) \cap DOMAIN memory
        /\ \A d \in DOMAIN cached : cached[d] = memory[d]
    BY <2>1 DEF Restrict
  <2>7. Remembers(s)'
    BY <2>3, <2>4, <2>5, <2>6 DEF Remembers
  <2>8. Busy({"replay"}) \in BOOLEAN
    BY DEF Busy
  <2> QED
    BY <2>3, <2>4, <2>5, <2>7, <2>8, Asks
<1> QED
  BY <1>2, <1>3

LEMMA Restarts == ASSUME UniverseInv, RestartManager PROVE UniverseInv'
<1>1. Shaped /\ Real /\ Frozen /\ DOMAIN given = GivenFields
  BY DEF UniverseInv, Shaped
<1>2. /\ asks' = [s \in Slots |-> Free] /\ UNCHANGED <<market, snapshots>>
      /\ DOMAIN given' = GivenFields /\ given'.batches = given.batches /\ given'.replays = {}
      /\ given'.calm = given.calm
  BY <1>1 DEF RestartManager, GivenFields
<1>3. \A s \in Slots : asks'[s].kind = "free" /\ asks'[s].pc = "" /\ DOMAIN asks'[s] = RequestFields
  BY <1>2, FreeIs
<1>4. Shaped'
  BY <1>2, <1>3 DEF Shaped
<1>5. Real'
  BY <1>1, <1>2, <1>3 DEF Real
<1>6. Frozen'
  BY <1>1, <1>2, <1>3 DEF Frozen, Calm, Accepted
<1>7. Replayed'
  BY <1>2, <1>3 DEF Replayed
<1> QED
  BY <1>4, <1>5, <1>6, <1>7 DEF UniverseInv

(***************************************************************************)
(* backfill_historical_master_top.                                         *)
(***************************************************************************)
\* What was found, and m.
Patched(f, m, s) == \A d \in DOMAIN f : IF d \in DOMAIN m THEN f[d] = m[d]
                                       ELSE d \in DOMAIN asks[s].found /\ f[d] = asks[s].found[d]
GoesOnWith(f, m, s) ==
    /\ asks'[s].kind = "replay" /\ asks'[s].pc = "lookup" /\ asks'[s].days = asks[s].days
    /\ asks'[s].found = f /\ DOMAIN f = DOMAIN asks[s].found \cup DOMAIN m
    /\ given'.replays = given.replays
EndsWith(f, s) == asks'[s].kind = "free" /\ asks'[s].pc = "" /\ given'.replays = given.replays \cup {f}

\* Days the backtest missed are remembered, and it goes on with f or ends with it.
LEMMA Backfills ==
    ASSUME UniverseInv, NEW s \in Slots, asks[s].kind = "replay", Others(s), DOMAIN asks'[s] = RequestFields,
           NEW m, DOMAIN m \subseteq Missing(s),
           memory' = [d \in DOMAIN memory \cup DOMAIN m |-> IF d \in DOMAIN m THEN m[d] ELSE memory[d]],
           NEW f, Patched(f, m, s), GoesOnWith(f, m, s) \/ EndsWith(f, s),
           DOMAIN given' = GivenFields, given'.batches = given.batches,
           given'.calm = given.calm, given'.alone = given.alone,
           UNCHANGED <<market, snapshots>>
    PROVE  UniverseInv'
<1>1. Shaped /\ Real /\ Frozen /\ Replayed
  BY DEF UniverseInv
<1>0. /\ asks'[s].kind \in {"free", "replay"} /\ asks'[s].pc \in {"", "lookup"}
      /\ asks'[s].kind = "free" => asks'[s].pc = ""
      /\ given'.replays \subseteq given.replays \cup {f}
  BY DEF GoesOnWith, EndsWith
<1>2. Shaped'
  BY <1>0, <1>1 DEF Shaped, Others
<1>3. Real'
  BY <1>0, <1>1 DEF Real, Others
<1>4. Frozen'
  <2> SUFFICES ASSUME Calm' PROVE Frozen'
    BY DEF Frozen
  <2>1. Calm
    BY DEF Calm
  <2>2. ASSUME NEW t \in Slots \ {s} PROVE asks'[t].kind = "free" /\ asks'[t].pc = ""
    <3>1. asks[t].kind = "free" /\ asks[t].pc = ""
      BY <2>1, OthersFree
    <3> QED
      BY <3>1 DEF Others
  <2>3. \A b \in given'.batches : Accepted(snapshots', b.date) /\ snapshots'[b.date] = b.ranking
    BY <1>1, <2>1 DEF Frozen, Accepted
  <2>4. \A t \in Slots : asks'[t].pc \notin {"fetch", "save"}
    BY <1>0, <2>2
  <2> QED
    BY <2>2, <2>3, <2>4 DEF Frozen
<1>5. Replayed'
  <2> SUFFICES ASSUME given'.alone PROVE Replayed'
    BY DEF Replayed
  <2>1. Remembers(s) /\ DOMAIN m \cap DOMAIN memory = {} /\ DOMAIN m \subseteq asks[s].days
    BY <1>1 DEF Replayed, Remembers, Missing
  <2>2. ASSUME NEW d \in DOMAIN memory PROVE d \in DOMAIN memory' /\ memory'[d] = memory[d]
    BY <2>1
  <2>3. ASSUME NEW d \in DOMAIN f PROVE d \in DOMAIN memory' /\ f[d] = memory'[d]
    <3>1. CASE d \in DOMAIN m
      BY <3>1 DEF Patched
    <3>2. CASE d \notin DOMAIN m
      <4>0. d \in DOMAIN asks[s].found /\ f[d] = asks[s].found[d]
        BY <3>2 DEF Patched
      <4>1. d \in DOMAIN memory /\ asks[s].found[d] = memory[d]
        BY <2>1, <4>0 DEF Remembers
      <4> QED
        BY <2>2, <4>0, <4>1
    <3> QED
      BY <3>1, <3>2
  <2>4. ASSUME NEW g \in given'.replays, NEW d \in DOMAIN g PROVE d \in DOMAIN memory' /\ g[d] = memory'[d]
    <3>1. CASE g \in given.replays
      <4>1. d \in DOMAIN memory /\ g[d] = memory[d]
        BY <1>1, <3>1 DEF Replayed
      <4> QED
        BY <2>2, <4>1
    <3>2. CASE g = f
      BY <2>3, <3>2
    <3> QED
      BY <1>0, <3>1, <3>2
  <2>5. ASSUME NEW t \in Slots \ {s}, asks'[t].kind = "replay" PROVE FALSE
    <3>1. asks[t].kind = "replay"
      BY <2>5 DEF Others
    <3> QED
      BY <1>1, <3>1 DEF Replayed
  <2>6. asks'[s].kind = "replay" => Remembers(s)'
    <3> SUFFICES ASSUME asks'[s].kind = "replay" PROVE Remembers(s)'
      OBVIOUS
    <3>1. asks'[s].found = f /\ DOMAIN f = DOMAIN asks[s].found \cup DOMAIN m /\ asks'[s].days = asks[s].days
      BY DEF GoesOnWith, EndsWith
    <3>2. DOMAIN memory' = DOMAIN memory \cup DOMAIN m
      OBVIOUS
    <3>3. DOMAIN f = asks[s].days \cap DOMAIN memory'
      BY <2>1, <3>1, <3>2 DEF Remembers
    <3> QED
      BY <2>3, <3>1, <3>3 DEF Remembers
  <2>7. ASSUME NEW t \in Slots, asks'[t].kind = "replay"
        PROVE  Remembers(t)' /\ \A u \in Slots : asks'[u].kind = "replay" => t = u
    <3>1. t = s
      BY <2>5, <2>7
    <3>2. Remembers(t)'
      BY <2>6, <2>7, <3>1
    <3>3. ASSUME NEW u \in Slots, asks'[u].kind = "replay" PROVE t = u
      BY <2>5, <3>1, <3>3
    <3> QED
      BY <3>2, <3>3
  <2> QED
    BY <2>4, <2>7 DEF Replayed
<1> QED
  BY <1>2, <1>3, <1>4, <1>5 DEF UniverseInv

LEMMA ReadsRows == ASSUME UniverseInv, NEW s \in Slots, ReadRows(s) PROVE UniverseInv'
<1>1. /\ Shaped /\ DOMAIN given = GivenFields /\ DOMAIN asks[s] = RequestFields /\ asks[s].kind = "replay"
      /\ DOMAIN Free = RequestFields
  BY FreeIs DEF UniverseInv, Shaped, ReadRows
<1>2. PICK rows \in SUBSET Missing(s) : WithRows(s, rows)
  <2>1. PICK rows : rows = {d \in {e \in Missing(s) : Cardinality({c \in Missing(s) : c < e}) < PerQuery} :
                              Accepted(snapshots, d)}
    OBVIOUS
  <2>2. rows \in SUBSET Missing(s)
    BY <2>1
  <2> QED
    BY <2>1, <2>2 DEF ReadRows
<1>3. PICK m : m = [d \in rows |-> snapshots[d]]
  OBVIOUS
<1>4. PICK f : f = [d \in DOMAIN asks[s].found \cup rows |-> IF d \in rows THEN snapshots[d] ELSE asks[s].found[d]]
  OBVIOUS
<1>5. DOMAIN m \subseteq Missing(s) /\ DOMAIN f = DOMAIN asks[s].found \cup DOMAIN m /\ Patched(f, m, s)
  BY <1>2, <1>3, <1>4 DEF Patched
<1>6. memory' = [d \in DOMAIN memory \cup DOMAIN m |-> IF d \in DOMAIN m THEN m[d] ELSE memory[d]]
  BY <1>2, <1>3 DEF WithRows
<1>7. UNCHANGED <<market, snapshots>>
  BY DEF ReadRows
<1>8. CASE DOMAIN f = asks[s].days
  <2>1. asks' = [asks EXCEPT ![s] = Free] /\ given' = [given EXCEPT !.replays = given.replays \cup {f}]
    BY <1>2, <1>4, <1>8 DEF WithRows, Ends
  <2>2. Others(s) /\ asks'[s] = Free
    BY <1>1, <2>1, Replaced
  <2>3. /\ DOMAIN given' = GivenFields /\ given'.batches = given.batches /\ given'.replays = given.replays \cup {f}
        /\ given'.calm = given.calm /\ given'.alone = given.alone
    BY <1>1, <2>1 DEF GivenFields
  <2>4. EndsWith(f, s) /\ DOMAIN asks'[s] = RequestFields
    BY <2>2, <2>3, FreeIs DEF EndsWith
  <2> QED
    BY <1>1, <1>5, <1>6, <1>7, <2>2, <2>3, <2>4, Backfills
<1>9. CASE DOMAIN f # asks[s].days
  <2>1. PICK r : r = [asks[s] EXCEPT !.pc = "lookup", !.date = today, !.found = f]
    OBVIOUS
  <2>2. asks' = [asks EXCEPT ![s] = r] /\ given' = given
    BY <1>1, <1>2, <1>4, <1>9, <2>1 DEF WithRows, Shaped
  <2>3. Others(s) /\ asks'[s] = r
    BY <1>1, <2>2, Replaced
  <2>4. /\ DOMAIN r = RequestFields /\ r.kind = "replay" /\ r.pc = "lookup" /\ r.days = asks[s].days /\ r.found = f
    BY <1>1, <2>1 DEF RequestFields
  <2>5. GoesOnWith(f, m, s)
    BY <1>5, <2>2, <2>3, <2>4 DEF GoesOnWith
  <2> QED
    BY <1>1, <1>5, <1>6, <1>7, <2>2, <2>3, <2>4, <2>5, Backfills
<1> QED
  BY <1>8, <1>9

LEMMA Simulates == ASSUME UniverseInv, NEW s \in Slots, SimulateMissing(s) PROVE UniverseInv'
<1>1. PICK orders : Simulate(s, orders)
  BY DEF SimulateMissing
<1>2. /\ Shaped /\ DOMAIN given = GivenFields /\ DOMAIN asks[s] = RequestFields /\ asks[s].kind = "replay"
      /\ DOMAIN Free = RequestFields
  BY <1>1, FreeIs DEF UniverseInv, Shaped, Simulate
<1>3. PICK m : m = Drifted(s, orders)
  OBVIOUS
<1>4. DOMAIN m = Missing(s)
  BY <1>3 DEF Drifted
<1>5. PICK f : f = [d \in asks[s].days |-> IF d \in DOMAIN m THEN m[d] ELSE asks[s].found[d]]
  OBVIOUS
<1>6. Patched(f, m, s)
  BY <1>4, <1>5 DEF Missing, Patched
<1>7. /\ memory' = [d \in DOMAIN memory \cup DOMAIN m |-> IF d \in DOMAIN m THEN m[d] ELSE memory[d]]
      /\ asks' = [asks EXCEPT ![s] = Free] /\ given' = [given EXCEPT !.replays = given.replays \cup {f}]
      /\ UNCHANGED <<market, snapshots>>
  BY <1>1, <1>3, <1>5 DEF Simulate, Cached, Ends
<1>8. Others(s) /\ asks'[s] = Free
  BY <1>2, <1>7, Replaced
<1>9. /\ DOMAIN given' = GivenFields /\ given'.batches = given.batches /\ given'.replays = given.replays \cup {f}
      /\ given'.calm = given.calm /\ given'.alone = given.alone
  BY <1>2, <1>7 DEF GivenFields
<1>10. EndsWith(f, s) /\ DOMAIN asks'[s] = RequestFields
  BY <1>8, <1>9, FreeIs DEF EndsWith
<1> QED
  BY <1>2, <1>4, <1>6, <1>7, <1>8, <1>9, <1>10, Backfills

\* The rows are not read: today's ranking is asked for all the same.
LEMMA RowsUnread == ASSUME UniverseInv, NEW s \in Slots, ReadRowsFails(s) PROVE UniverseInv'
<1>1. /\ Shaped /\ Real /\ Frozen /\ Replayed /\ DOMAIN asks[s] = RequestFields /\ asks[s].kind = "replay"
  BY DEF UniverseInv, Shaped, ReadRowsFails
<1>2. PICK r : r = [asks[s] EXCEPT !.pc = "lookup", !.date = today]
  OBVIOUS
<1>3. asks' = [asks EXCEPT ![s] = r] /\ Fault /\ UNCHANGED <<market, snapshots, memory>>
  BY <1>1, <1>2 DEF ReadRowsFails, Shaped
<1>4. Others(s) /\ asks'[s] = r
  BY <1>1, <1>3, Replaced
<1>5. /\ DOMAIN r = RequestFields /\ r.kind = "replay" /\ r.pc = "lookup" /\ r.days = asks[s].days
      /\ r.found = asks[s].found
  BY <1>1, <1>2 DEF RequestFields
<1>6. /\ DOMAIN given' = GivenFields /\ ~given'.calm /\ given'.alone = given.alone
      /\ given'.batches = given.batches /\ given'.replays = given.replays
  BY <1>1, <1>3, GivenFault
<1>7. Shaped'
  BY <1>1, <1>4, <1>5, <1>6 DEF Shaped, Others
<1>8. Real'
  BY <1>1, <1>3, <1>4, <1>5, <1>6 DEF Real, Others
<1>9. Frozen'
  BY <1>6 DEF Frozen, Calm
<1>10. Replayed'
  <2> SUFFICES ASSUME given'.alone PROVE Replayed'
    BY DEF Replayed
  <2>1. \A t \in Slots : asks'[t].kind = asks[t].kind /\ asks'[t].found = asks[t].found /\ asks'[t].days = asks[t].days
    BY <1>1, <1>4, <1>5 DEF Others
  <2>2. given.alone
    BY <1>6
  <2> QED
    BY <1>1, <1>3, <1>6, <2>1, <2>2 DEF Replayed, Remembers
<1> QED
  BY <1>7, <1>8, <1>9, <1>10 DEF UniverseInv

(***************************************************************************)
(* The theorem.                                                            *)
(***************************************************************************)
LEMMA FirstInv == UniverseInit => UniverseInv
<1> SUFFICES ASSUME UniverseInit PROVE UniverseInv
  OBVIOUS
<1>1. /\ asks = [s \in Slots |-> Free] /\ given.batches = {} /\ given.replays = {} /\ DOMAIN given = GivenFields
      /\ DOMAIN snapshots = {} /\ DOMAIN memory = {}
  BY DEF UniverseInit, GivenFields
<1>2. \A s \in Slots : asks[s].kind = "free" /\ asks[s].pc = "" /\ DOMAIN asks[s] = RequestFields
  BY <1>1, FreeIs
<1>3. Shaped
  BY <1>1, <1>2 DEF Shaped
<1> QED
  BY <1>1, <1>2, <1>3 DEF UniverseInv, Real, Frozen, Replayed

LEMMA NextInv == UniverseInv /\ [UniverseNext]_universeVars => UniverseInv'
<1> SUFFICES ASSUME UniverseInv, [UniverseNext]_universeVars PROVE UniverseInv'
  OBVIOUS
<1>1. ASSUME NEW s \in Slots, RequestNext(s) PROVE UniverseInv'
  BY <1>1, LooksUp, Fetches, Freezes, Begins, ReadsRows, RowsUnread, Simulates DEF RequestNext
<1>2. CASE NewDate \/ UNCHANGED universeVars
  <2>1. market' = market /\ snapshots' = snapshots /\ memory' = memory /\ asks' = asks /\ given' = given
    BY <1>2 DEF NewDate, universeVars
  <2>2. Shaped' = Shaped
    BY <2>1 DEF Shaped
  <2>3. Real' = Real
    BY <2>1 DEF Real
  <2>4. Frozen' = Frozen
    BY <2>1 DEF Frozen, Calm, Accepted
  <2>5. Replayed' = Replayed
    BY <2>1 DEF Replayed, Remembers
  <2> QED
    BY <2>2, <2>3, <2>4, <2>5 DEF UniverseInv
<1> QED
  BY <1>1, <1>2, Restarts DEF UniverseNext

(* Nothing simulated reaches the table or a batch, a fallback is used only  *)
(* by who could not fetch, all batches of a day have one ranking as long as *)
(* the database answers and requests do not overlap, and all backtests of a *)
(* process replay a day alike, if they do not overlap: for any market, any  *)
(* lists and any numbers of days, requests, failures and restarts           *)
(* (freeze_or_get_master_top, backfill_historical_master_top).              *)
THEOREM RankingsHold == UniverseSpec => []RankingsAgree
<1>1. UniverseInv => RankingsAgree
  <2> SUFFICES ASSUME UniverseInv PROVE RankingsAgree
    OBVIOUS
  <2>1. Real /\ Frozen /\ Replayed
    BY DEF UniverseInv
  <2>2. OnlyReal /\ FallbackNotKept
    BY <2>1 DEF Real, OnlyReal, FallbackNotKept
  <2>3. OneRankingADay
    BY <2>1 DEF Frozen, Calm, OneRankingADay
  <2>4. ReplaysAgree
    <3> SUFFICES ASSUME given.alone, NEW f \in given.replays, NEW g \in given.replays,
                        NEW d \in DOMAIN f \cap DOMAIN g
                 PROVE  f[d] = g[d]
      BY DEF ReplaysAgree
    <3>1. f[d] = memory[d] /\ g[d] = memory[d]
      BY <2>1 DEF Replayed
    <3> QED
      BY <3>1
  <2> QED
    BY <2>2, <2>3, <2>4 DEF RankingsAgree
<1> QED
  BY FirstInv, NextInv, <1>1, PTL DEF UniverseSpec
=============================================================================
