------------------------------ MODULE OrderStore ------------------------------
(***************************************************************************)
(* The bot's order store: OrderManager (src/src/core/order_manager.py) and *)
(* the retry queue of src/src/core/db_sync.py.                             *)
(*                                                                         *)
(* Orders live in the process' memory; every change is also sent to the    *)
(* `orders` table by a background task of its own (asyncio.to_thread), so  *)
(* writes are applied in any order.  A write that fails is put in a queue  *)
(* kept in a file, which a loop replays every 30 s.  The memory is         *)
(* replaced by the table at the start of each polling cycle.  The manager  *)
(* backend writes the same table behind the bot's back, and the process    *)
(* may stop and start again at any time.                                   *)
(*                                                                         *)
(* An order's fields are abstracted to a version, `ver`, that every update *)
(* of the bot raises, and to `req`: its status is "cancel_requested".      *)
(*                                                                         *)
(* An upsert task, and the queue entry it leaves when it fails, hold the   *)
(* order's dict by reference: until the dict is sent or the memory is      *)
(* replaced, a later update is seen through the reference (`live`).        *)
(***************************************************************************)
EXTENDS Naturals, Sequences

CONSTANTS
    Uuids,       \* order uuids the exchanges and the manager may issue
    NoUuid,      \* no uuid: the missing half of a pure upsert or a pure delete
    Users,       \* users
    Owner,       \* Owner[u]: the user an order with this uuid belongs to
    Reloaders,   \* coroutines that call reload_from_db_async
    MaxTasks,    \* bound: background writes in flight at once
    MaxVer,      \* bound: versions of one order
    MaxOps,      \* bound: calls of the bot that change an order
    MaxManager,  \* bound: writes of the manager
    MaxCrashes   \* bound: restarts of the process

ASSUME StoreAssumption ==
    /\ NoUuid \notin Uuids
    /\ Owner \in [Uuids -> Users]
    /\ MaxTasks \in Nat /\ MaxVer \in Nat \ {0} /\ MaxOps \in Nat
    /\ MaxManager \in Nat /\ MaxCrashes \in Nat

VARIABLES
    up,        \* the process runs
    mem,       \* OrderManager.orders with its two indexes: uuid -> row
    db,        \* the orders table: uuid -> row
    file,      \* data/orders.json: uuid -> row
    tasks,     \* _bg_tasks: the background writes in flight
    queue,     \* db_sync._queue
    qfile,     \* data/db_sync_queue.json
    sync,      \* sync_loop and the _process_queue call it is in
    reload,    \* the reload_from_db_async call each reloader is in
    ops,       \* calls of the bot so far, for MaxOps
    manager,   \* writes of the manager so far, for MaxManager
    crashes,   \* restarts so far, for MaxCrashes
    anc,       \* history: anc[u] = u and the uuids it replaced; {} if never issued
    claimed,   \* history: uuids of the orders the bot is meant to track
    dirty,     \* history: uuids outside the contract of a flushed reload
    dropped    \* history: uuids of queued upserts that were given up

proc == <<up, ops, manager, crashes>>
hist == <<anc, claimed, dirty, dropped>>
vars == <<proc, mem, db, file, tasks, queue, qfile, sync, reload, hist>>

Slots == 1..MaxTasks
Row   == [ver : 0..MaxVer, req : BOOLEAN]
NoRow == [ver |-> 0, req |-> FALSE]     \* the uuid has no row
Table == [Uuids -> Row]
Empty == [u \in Uuids |-> NoRow]
Named == Uuids \cup {NoUuid}

(* A background write: upserts `row` under `uuid` unless uuid = NoUuid and  *)
(* then deletes `old` unless old = NoUuid; `payUuid` and `pay` are what was *)
(* serialised when the request was sent.  Once it failed, payUuid is the   *)
(* key it is to be queued under.                                           *)
Write  == [phase : {"free", "new", "sent", "delete", "enqUpsert", "enqDelete"},
           uuid : Named, row : Row, live : BOOLEAN, old : Named,
           payUuid : Named, pay : Row]
Task   == {t \in Write : /\ t.phase \in {"new", "sent", "enqUpsert"} => t.uuid # NoUuid
                         /\ t.phase \in {"sent", "enqUpsert"} => t.payUuid # NoUuid
                         /\ t.phase \in {"delete", "enqDelete"} => t.old # NoUuid}
NoTask == [phase |-> "free", uuid |-> NoUuid, row |-> NoRow, live |-> FALSE,
           old |-> NoUuid, payUuid |-> NoUuid, pay |-> NoRow]

(* A queued write: upserts `row` under `uuid`, or deletes `key`.            *)
Entry == [key : Uuids, delete : BOOLEAN, uuid : Named, row : Row, live : BOOLEAN]

(* `processed` entries are done; the next one is being sent as payUuid, pay.*)
Replays == [phase : {"off", "idle", "run", "end"}, processed : Nat,
            sending : BOOLEAN, payUuid : Named, pay : Row]
Sync   == {x \in Replays : x.phase \notin {"run", "end"} => x.processed = 0 /\ ~x.sending}
NoSync == [phase |-> "off", processed |-> 0, sending |-> FALSE,
           payUuid |-> NoUuid, pay |-> NoRow]

Reload   == [phase : {"idle", "flush", "fetch", "got"}, wait : SUBSET Slots, rows : Table]
NoReload == [phase |-> "idle", wait |-> {}, rows |-> Empty]

TypeOK ==
    /\ up \in BOOLEAN
    /\ mem \in Table /\ db \in Table /\ file \in Table
    /\ tasks \in [Slots -> Task]
    /\ queue \in Seq(Entry) /\ qfile \in Seq(Entry)
    /\ sync \in Sync
    /\ sync.processed <= Len(queue) /\ (sync.sending => sync.processed < Len(queue))
    /\ reload \in [Reloaders -> Reload]
    /\ ops \in Nat /\ manager \in Nat /\ crashes \in Nat
    /\ anc \in [Uuids -> SUBSET Uuids]
    /\ claimed \in SUBSET Uuids /\ dirty \in SUBSET Uuids /\ dropped \in SUBSET Named

Init ==
    /\ up = TRUE
    /\ mem = Empty /\ db = Empty /\ file = Empty
    /\ tasks = [s \in Slots |-> NoTask]
    /\ queue = <<>> /\ qfile = <<>>
    /\ sync = NoSync
    /\ reload = [r \in Reloaders |-> NoReload]
    /\ ops = 0 /\ manager = 0 /\ crashes = 0
    /\ anc = [u \in Uuids |-> {}]
    /\ claimed = {} /\ dirty = {} /\ dropped = {}

-----------------------------------------------------------------------------
(* Background writes                                                        *)

Busy == {s \in Slots : tasks[s].phase # "free"}

Touches(t) == {t.uuid, t.old, t.payUuid} \ {NoUuid}

(* The uuids some write in flight is about.                                 *)
InFlight == UNION {Touches(tasks[s]) : s \in Busy}

(* The dict of order u becomes row r of uuid v in every reference to it.    *)
RedirectTasks(u, v, r) ==
    [s \in Slots |-> IF tasks[s].live /\ tasks[s].uuid = u
                     THEN [tasks[s] EXCEPT !.uuid = v, !.row = r]
                     ELSE tasks[s]]
RedirectQueue(u, v, r) ==
    [i \in 1..Len(queue) |-> IF queue[i].live /\ queue[i].uuid = u
                             THEN [queue[i] EXCEPT !.uuid = v, !.row = r]
                             ELSE queue[i]]

(* The dicts of these orders leave the memory: references keep their value. *)
DetachTasks(us) ==
    [s \in Slots |-> IF tasks[s].uuid \in us THEN [tasks[s] EXCEPT !.live = FALSE] ELSE tasks[s]]
DetachQueue(us) ==
    [i \in 1..Len(queue) |-> IF queue[i].uuid \in us
                             THEN [queue[i] EXCEPT !.live = FALSE]
                             ELSE queue[i]]

(* create_task: the write takes the first free slot of ts.                  *)
Spawn(t, ts) ==
    \E s \in Slots :
        /\ ts[s].phase = "free"
        /\ \A s2 \in Slots : s2 < s => ts[s2].phase # "free"
        /\ tasks' = [ts EXCEPT ![s] = t]

UpsertTask(u, r) == [NoTask EXCEPT !.phase = "new", !.uuid = u, !.row = r, !.live = TRUE]
DeleteTask(u)    == [NoTask EXCEPT !.phase = "delete", !.old = u]
ReplaceTask(old, new, r) ==      \* order_copy: a copy, serialised as it is now
    [NoTask EXCEPT !.phase = "sent", !.uuid = new, !.row = r, !.old = old,
                   !.payUuid = new, !.pay = r]

(* An operation on the orders us falls outside the contract of a flushed    *)
(* reload when it overlaps a write about one of them or a reload.           *)
Overlapped(us) ==
    IF us \cap InFlight # {} \/ \E r \in Reloaders : reload[r].phase # "idle"
    THEN us ELSE {}

-----------------------------------------------------------------------------
(* OrderManager's operations; each runs to its end between two awaits.      *)
(* Until sync_loop is started (phase "off") only startup_recovery runs; it  *)
(* adds orders and updates them.                                            *)

Call == /\ up
        /\ ops < MaxOps
        /\ ops' = ops + 1
        /\ UNCHANGED <<up, manager, crashes, dropped>>

AddOrder(u) ==
    LET r == [ver |-> 1, req |-> FALSE] IN
    /\ Call
    /\ anc[u] = {}
    /\ mem' = [mem EXCEPT ![u] = r]
    /\ Spawn(UpsertTask(u, r), tasks)
    /\ anc' = [anc EXCEPT ![u] = {u}]
    /\ claimed' = claimed \cup {u}
    /\ dirty' = dirty \cup Overlapped({u})
    /\ UNCHANGED <<db, file, queue, qfile, sync, reload>>

(* update_order: a status write also clears a cancel request.               *)
UpdateOrder(u, keepStatus) ==
    LET r == [ver |-> mem[u].ver + 1, req |-> mem[u].req /\ keepStatus] IN
    /\ Call
    /\ mem[u].ver \in 1..MaxVer - 1
    /\ mem' = [mem EXCEPT ![u] = r]
    /\ Spawn(UpsertTask(u, r), RedirectTasks(u, u, r))
    /\ queue' = RedirectQueue(u, u, r)
    /\ dirty' = dirty \cup Overlapped({u})
    /\ UNCHANGED <<db, file, qfile, sync, reload, anc, claimed>>

(* The claims that are left when the orders us are given up.                *)
ClaimsWithout(us) == {v \in claimed : anc[v] \cap us = {}}

ReplaceOrderUuid(old, new) ==
    LET r == [ver |-> mem[old].ver, req |-> FALSE] IN
    /\ Call
    /\ sync.phase # "off"
    /\ mem[old].ver > 0
    /\ new # old /\ anc[new] = {}      \* the exchange issues fresh uuids
    /\ mem' = [mem EXCEPT ![old] = NoRow, ![new] = r]
    /\ Spawn(ReplaceTask(old, new, r), RedirectTasks(old, new, r))
    /\ queue' = RedirectQueue(old, new, r)
    /\ IF old \in claimed
       THEN /\ anc' = [anc EXCEPT ![new] = anc[old] \cup {new}]
            /\ claimed' = (claimed \ {old}) \cup {new}
       ELSE /\ anc' = [anc EXCEPT ![new] = {new}]
            /\ claimed' = ClaimsWithout({old})
    /\ dirty' = dirty \cup Overlapped({old, new}) \cup (IF old \in dirty THEN {new} ELSE {})
    /\ UNCHANGED <<db, file, qfile, sync, reload>>

RemoveOrder(u) ==
    /\ Call
    /\ sync.phase # "off"
    /\ mem[u].ver > 0
    /\ mem' = [mem EXCEPT ![u] = NoRow]
    /\ Spawn(DeleteTask(u), DetachTasks({u}))
    /\ queue' = DetachQueue({u})
    /\ claimed' = ClaimsWithout({u})
    /\ dirty' = dirty \cup Overlapped({u})
    /\ UNCHANGED <<db, file, qfile, sync, reload, anc>>

(* The table's rows go by one synchronous request; its failure is only      *)
(* logged, and the memory is cleared either way.                            *)
ClearUserOrders(user, ok) ==
    LET us   == {u \in Uuids : Owner[u] = user}
        Clear(t) == [u \in Uuids |-> IF u \in us THEN NoRow ELSE t[u]]
    IN
    /\ Call
    /\ sync.phase # "off"
    /\ \E u \in us : mem[u].ver > 0
    /\ db' = IF ok THEN Clear(db) ELSE db
    /\ mem' = Clear(mem)
    /\ tasks' = DetachTasks(us)
    /\ queue' = DetachQueue(us)
    /\ claimed' = ClaimsWithout(us)
    /\ dirty' = dirty \cup (IF ok THEN Overlapped(us) ELSE us)
    /\ UNCHANGED <<file, qfile, sync, reload, anc>>

-----------------------------------------------------------------------------
(* A background write's own steps.  A request may fail before or after the  *)
(* table has applied it (a lost answer).                                    *)

Set(t, u, r) == [t EXCEPT ![u] = r]

(* The slot is free again, and a flush that waited for it goes on.          *)
Finish(s) ==
    /\ tasks' = [tasks EXCEPT ![s] = NoTask]
    /\ reload' = [r \in Reloaders |-> [reload[r] EXCEPT !.wait = @ \ {s}]]

(* except branch: the file gets the memory, and the write is to be queued   *)
(* under the uuid its dict has by now, once enqueue_task has the lock.      *)
Fail(s, phase) ==
    /\ file' = mem
    /\ tasks' = [tasks EXCEPT ![s].phase = phase, ![s].payUuid = tasks[s].uuid]
    /\ dirty' = dirty \cup Touches(tasks[s])
    /\ UNCHANGED reload

(* The worker thread serialises the dict as it is by then.                  *)
SendUpsert(s) ==
    /\ up
    /\ tasks[s].phase = "new"
    /\ tasks' = [tasks EXCEPT ![s].phase = "sent",
                              ![s].payUuid = tasks[s].uuid, ![s].pay = tasks[s].row]
    /\ UNCHANGED <<proc, mem, db, file, queue, qfile, sync, reload, hist>>

(* Mutant: _db_replace forgets the row of the old uuid.                     *)
UpsertAnsweredNoDelete(s) ==
    /\ up
    /\ tasks[s].phase = "sent"
    /\ db' = Set(db, tasks[s].payUuid, tasks[s].pay)
    /\ Finish(s)
    /\ UNCHANGED <<proc, mem, file, queue, qfile, sync, hist>>

UpsertAnswered(s) ==
    /\ up
    /\ tasks[s].phase = "sent"
    /\ db' = Set(db, tasks[s].payUuid, tasks[s].pay)
    /\ IF tasks[s].old = NoUuid
       THEN Finish(s)
       ELSE /\ tasks' = [tasks EXCEPT ![s].phase = "delete"]
            /\ UNCHANGED reload
    /\ UNCHANGED <<proc, mem, file, queue, qfile, sync, hist>>

(* Mutant: a failed upsert is logged and not queued.                        *)
UpsertFailsUnqueued(s, applied) ==
    /\ up
    /\ tasks[s].phase = "sent"
    /\ db' = IF applied THEN Set(db, tasks[s].payUuid, tasks[s].pay) ELSE db
    /\ file' = mem
    /\ dirty' = dirty \cup Touches(tasks[s])
    /\ Finish(s)
    /\ UNCHANGED <<proc, mem, queue, qfile, sync, anc, claimed, dropped>>

UpsertFails(s, applied) ==
    /\ up
    /\ tasks[s].phase = "sent"
    /\ db' = IF applied THEN Set(db, tasks[s].payUuid, tasks[s].pay) ELSE db
    /\ Fail(s, "enqUpsert")
    /\ UNCHANGED <<proc, mem, queue, qfile, sync, anc, claimed, dropped>>

DeleteAnswered(s) ==
    /\ up
    /\ tasks[s].phase = "delete"
    /\ db' = Set(db, tasks[s].old, NoRow)
    /\ Finish(s)
    /\ UNCHANGED <<proc, mem, file, queue, qfile, sync, hist>>

DeleteFails(s, applied) ==
    /\ up
    /\ tasks[s].phase = "delete"
    /\ db' = IF applied THEN Set(db, tasks[s].old, NoRow) ELSE db
    /\ Fail(s, "enqDelete")
    /\ UNCHANGED <<proc, mem, queue, qfile, sync, anc, claimed, dropped>>

-----------------------------------------------------------------------------
(* db_sync: the queue of failed writes                                      *)

Entries(q) == {q[i] : i \in 1..Len(q)}

OnDisk(q) == [i \in 1..Len(q) |-> [q[i] EXCEPT !.live = FALSE]]

(* The queue without the write of this key; enqueue_task leaves no two.     *)
Without(q, key) ==
    IF \E i \in 1..Len(q) : q[i].key = key
    THEN LET i == CHOOSE j \in 1..Len(q) : q[j].key = key
         IN  SubSeq(q, 1, i - 1) \o SubSeq(q, i + 1, Len(q))
    ELSE q

(* Until sync_loop has loaded the file, saving the queue discards the       *)
(* writes the file still holds from before the restart.                     *)
Overwritten(q) ==
    {e.uuid : e \in {f \in Entries(qfile) : /\ ~f.delete
                                            /\ f.key \notin {g.key : g \in Entries(q)}}}

(* enqueue_task: under the lock; the newest write of a key replaces it.     *)
Enqueue(key, delete, uuid, row, live) ==
    LET e == [key |-> key, delete |-> delete, uuid |-> uuid, row |-> row, live |-> live]
    IN  /\ sync.phase \notin {"run", "end"}
        /\ queue' = Append(Without(queue, key), e)
        /\ qfile' = OnDisk(queue')
        /\ dropped' = dropped \cup Overwritten(queue')
        /\ UNCHANGED <<anc, claimed, dirty>>

EnqueueUpsert(s) ==
    LET t == tasks[s] IN
    /\ up
    /\ t.phase = "enqUpsert"
    /\ Enqueue(t.payUuid, FALSE, t.uuid, t.row, t.live)
    /\ IF t.old = NoUuid
       THEN Finish(s)
       ELSE /\ tasks' = [tasks EXCEPT ![s].phase = "enqDelete"]
            /\ UNCHANGED reload
    /\ UNCHANGED <<proc, mem, db, file, sync>>

EnqueueDelete(s) ==
    /\ up
    /\ tasks[s].phase = "enqDelete"
    /\ Enqueue(tasks[s].old, TRUE, NoUuid, NoRow, FALSE)
    /\ Finish(s)
    /\ UNCHANGED <<proc, mem, db, file, sync>>

(* sync_loop's first step, after startup_recovery: the queue is the file.   *)
LoadQueue ==
    /\ up
    /\ sync.phase = "off"
    /\ queue' = qfile
    /\ sync' = [sync EXCEPT !.phase = "idle"]
    /\ UNCHANGED <<proc, mem, db, file, tasks, qfile, reload, hist>>

(* _process_queue: not empty, the table answers, the lock is taken.         *)
StartProcess ==
    /\ up
    /\ sync.phase = "idle"
    /\ queue # <<>>
    /\ sync' = [NoSync EXCEPT !.phase = "run"]
    /\ UNCHANGED <<proc, mem, db, file, tasks, queue, qfile, reload, hist>>

(* Mutant: the entry that failed is cut off with the processed ones.        *)
UntriedWithoutTheFailed ==
    SubSeq(queue, sync.processed + (IF sync.phase = "end" THEN 2 ELSE 1), Len(queue))

Untried == SubSeq(queue, sync.processed + 1, Len(queue))

(* The next entry in order; its data is serialised when it is sent.         *)
SendQueued ==
    LET e == queue[sync.processed + 1] IN
    /\ up
    /\ sync.phase = "run" /\ ~sync.sending
    /\ sync.processed < Len(queue)
    /\ sync' = [sync EXCEPT !.sending = TRUE, !.payUuid = e.uuid, !.pay = e.row]
    /\ UNCHANGED <<proc, mem, db, file, tasks, queue, qfile, reload, hist>>

Replay == IF queue[sync.processed + 1].delete
          THEN Set(db, queue[sync.processed + 1].key, NoRow)
          ELSE Set(db, sync.payUuid, sync.pay)

(* Mutant: a refused entry is counted twice.                                *)
QueuedDoneTwice(refused) ==
    /\ up
    /\ sync.phase = "run" /\ sync.sending
    /\ db' = IF refused THEN db ELSE Replay
    /\ sync' = [NoSync EXCEPT !.phase = "run",
                              !.processed = sync.processed + (IF refused THEN 2 ELSE 1)]
    /\ dropped' = IF refused THEN dropped \cup {sync.payUuid} ELSE dropped
    /\ UNCHANGED <<proc, mem, file, tasks, queue, qfile, reload, anc, claimed, dirty>>

(* processed += 1: the entry was applied, or refused for good (a 4xx other  *)
(* than 401, 403 and 429) and is dropped.                                   *)
QueuedDone(refused) ==
    /\ up
    /\ sync.phase = "run" /\ sync.sending
    /\ db' = IF refused THEN db ELSE Replay
    /\ sync' = [NoSync EXCEPT !.phase = "run", !.processed = sync.processed + 1]
    /\ dropped' = IF refused THEN dropped \cup {sync.payUuid} ELSE dropped
    /\ UNCHANGED <<proc, mem, file, tasks, queue, qfile, reload, anc, claimed, dirty>>

(* break: the entries from this one on stay in the queue.                   *)
QueuedFails(applied) ==
    /\ up
    /\ sync.phase = "run" /\ sync.sending
    /\ db' = IF applied THEN Replay ELSE db
    /\ sync' = [NoSync EXCEPT !.phase = "end", !.processed = sync.processed]
    /\ UNCHANGED <<proc, mem, file, tasks, queue, qfile, reload, hist>>

(* Mutant: a failure leaves _process_queue without releasing the lock.      *)
EndProcessHoldingTheLock ==
    /\ up
    /\ sync.phase = "run" /\ ~sync.sending /\ sync.processed = Len(queue)
    /\ queue' = Untried
    /\ qfile' = IF sync.processed > 0 THEN OnDisk(Untried) ELSE qfile
    /\ sync' = [NoSync EXCEPT !.phase = "idle"]
    /\ UNCHANGED <<proc, mem, db, file, tasks, reload, hist>>

(* The processed prefix is cut off, the file rewritten, the lock released.  *)
EndProcess ==
    /\ up
    /\ \/ sync.phase = "end"
       \/ sync.phase = "run" /\ ~sync.sending /\ sync.processed = Len(queue)
    /\ queue' = Untried
    /\ qfile' = IF sync.processed > 0 THEN OnDisk(Untried) ELSE qfile
    /\ sync' = [NoSync EXCEPT !.phase = "idle"]
    /\ UNCHANGED <<proc, mem, db, file, tasks, reload, hist>>

-----------------------------------------------------------------------------
(* Reloads                                                                  *)

ReloadUnchanged == UNCHANGED <<proc, db, file, qfile, sync, anc, claimed, dropped>>

(* Mutant: the reload does not wait for the writes in flight.               *)
StartFlushNoWait(r) ==
    /\ up
    /\ sync.phase # "off"
    /\ reload[r].phase = "idle"
    /\ reload' = [reload EXCEPT ![r] = [NoReload EXCEPT !.phase = "flush"]]
    /\ ReloadUnchanged
    /\ UNCHANGED <<mem, tasks, queue, dirty>>

(* reload_from_db_async: flush_pending_writes waits for the writes that are *)
(* in flight when it is called.                                             *)
StartFlush(r) ==
    /\ up
    /\ sync.phase # "off"
    /\ reload[r].phase = "idle"
    /\ reload' = [reload EXCEPT ![r] = [NoReload EXCEPT !.phase = "flush", !.wait = Busy]]
    /\ ReloadUnchanged
    /\ UNCHANGED <<mem, tasks, queue, dirty>>

(* Mutant: the lock is taken without waiting for the flush to end.          *)
TakeLockAtOnce(r) ==
    /\ up
    /\ reload[r].phase = "flush"
    /\ \A r2 \in Reloaders : reload[r2].phase \notin {"fetch", "got"}
    /\ reload' = [reload EXCEPT ![r].phase = "fetch"]
    /\ ReloadUnchanged
    /\ UNCHANGED <<mem, tasks, queue, dirty>>

TakeLock(r) ==
    /\ up
    /\ reload[r].phase = "flush"
    /\ reload[r].wait = {}
    /\ \A r2 \in Reloaders : reload[r2].phase \notin {"fetch", "got"}
    /\ reload' = [reload EXCEPT ![r].phase = "fetch"]
    /\ ReloadUnchanged
    /\ UNCHANGED <<mem, tasks, queue, dirty>>

Fetch(r) ==
    /\ up
    /\ reload[r].phase = "fetch"
    /\ reload' = [reload EXCEPT ![r].phase = "got", ![r].rows = db]
    /\ ReloadUnchanged
    /\ UNCHANGED <<mem, tasks, queue, dirty>>

FetchFails(r) ==
    /\ up
    /\ reload[r].phase = "fetch"
    /\ reload' = [reload EXCEPT ![r] = NoReload]
    /\ ReloadUnchanged
    /\ UNCHANGED <<mem, tasks, queue, dirty>>

(* The memory is the table as it was read; the old dicts are left to their  *)
(* references.                                                              *)
FinishReload(r) ==
    /\ up
    /\ reload[r].phase = "got"
    /\ mem' = reload[r].rows
    /\ tasks' = DetachTasks(Uuids)
    /\ queue' = DetachQueue(Uuids)
    /\ reload' = [reload EXCEPT ![r] = NoReload]
    /\ ReloadUnchanged
    /\ UNCHANGED dirty

(* reload_from_db, called by /dbsync: the same without flush and lock.      *)
ReloadNow ==
    /\ up
    /\ sync.phase # "off"
    /\ mem' = db
    /\ tasks' = DetachTasks(Uuids)
    /\ queue' = DetachQueue(Uuids)
    /\ dirty' = dirty \cup {u \in Uuids : mem[u] # db[u]}
    /\ ReloadUnchanged
    /\ UNCHANGED reload

-----------------------------------------------------------------------------
(* The process stops at any point and starts again                          *)

Crash ==
    /\ up
    /\ crashes < MaxCrashes
    /\ up' = FALSE
    /\ crashes' = crashes + 1
    /\ mem' = Empty
    /\ tasks' = [s \in Slots |-> NoTask]
    /\ queue' = <<>>
    /\ sync' = NoSync
    /\ reload' = [r \in Reloaders |-> NoReload]
    /\ UNCHANGED <<ops, manager, db, file, qfile, hist>>

(* _load_orders: the table, or the file when the table cannot be read.      *)
Boot(fromDb) ==
    /\ ~up
    /\ up' = TRUE
    /\ mem' = IF fromDb THEN db ELSE file
    /\ dirty' = IF fromDb THEN dirty ELSE dirty \cup {u \in Uuids : file[u] # db[u]}
    /\ UNCHANGED <<ops, manager, crashes, db, file, tasks, queue, qfile, sync, reload,
                   anc, claimed, dropped>>

-----------------------------------------------------------------------------
(* The manager backend writes the table directly                            *)

ManagerCall ==
    /\ manager < MaxManager
    /\ manager' = manager + 1
    /\ UNCHANGED <<up, ops, crashes, mem, file, tasks, queue, qfile, sync, reload, dropped>>

(* run_strategy_progression uploads an order with status "reserved".        *)
ManagerReserve(u) ==
    /\ ManagerCall
    /\ anc[u] = {}
    /\ db' = Set(db, u, [ver |-> 1, req |-> FALSE])
    /\ anc' = [anc EXCEPT ![u] = {u}]
    /\ claimed' = claimed \cup {u}
    /\ dirty' = dirty \cup {u}

(* reset_budget_plan sets an open order's status to "cancel_requested".     *)
ManagerRequestCancel(u) ==
    /\ ManagerCall
    /\ db[u].ver > 0 /\ ~db[u].req
    /\ db' = [db EXCEPT ![u].req = TRUE]
    /\ dirty' = dirty \cup {u}
    /\ UNCHANGED <<anc, claimed>>

(* The reconciliation deletes a stale order of the day before.              *)
ManagerDelete(u) ==
    /\ ManagerCall
    /\ db[u].ver > 0
    /\ db' = Set(db, u, NoRow)
    /\ dirty' = dirty \cup {u}
    /\ claimed' = ClaimsWithout({u})
    /\ UNCHANGED anc

-----------------------------------------------------------------------------
TaskStep(s) ==
    \/ SendUpsert(s)
    \/ UpsertAnswered(s)
    \/ \E applied \in BOOLEAN : UpsertFails(s, applied)
    \/ DeleteAnswered(s)
    \/ \E applied \in BOOLEAN : DeleteFails(s, applied)
    \/ EnqueueUpsert(s)
    \/ EnqueueDelete(s)

SyncStep ==
    \/ LoadQueue
    \/ StartProcess
    \/ SendQueued
    \/ \E refused \in BOOLEAN : QueuedDone(refused)
    \/ \E applied \in BOOLEAN : QueuedFails(applied)
    \/ EndProcess

ReloadStep(r) ==
    StartFlush(r) \/ TakeLock(r) \/ Fetch(r) \/ FetchFails(r) \/ FinishReload(r)

OrderStep(u) ==
    \/ AddOrder(u)
    \/ \E keepStatus \in BOOLEAN : UpdateOrder(u, keepStatus)
    \/ \E new \in Uuids : ReplaceOrderUuid(u, new)
    \/ RemoveOrder(u)
    \/ ManagerReserve(u)
    \/ ManagerRequestCancel(u)
    \/ ManagerDelete(u)

Next ==
    \/ \E u \in Uuids : OrderStep(u)
    \/ \E user \in Users, ok \in BOOLEAN : ClearUserOrders(user, ok)
    \/ \E s \in Slots : TaskStep(s)
    \/ SyncStep
    \/ \E r \in Reloaders : ReloadStep(r)
    \/ ReloadNow
    \/ Crash
    \/ \E fromDb \in BOOLEAN : Boot(fromDb)

Spec == Init /\ [][Next]_vars

(* The event loop runs every task that can go on; asyncio.Lock is fair; the *)
(* table, asked again and again, answers some day.                          *)
FairSpec ==
    /\ Spec
    /\ \A s \in Slots : WF_vars(TaskStep(s))
    /\ WF_vars(SyncStep)
    /\ SF_vars(QueuedDone(FALSE))
    /\ \A r \in Reloaders : /\ SF_vars(TakeLock(r))
                            /\ WF_vars(Fetch(r) \/ FetchFails(r))
                            /\ WF_vars(FinishReload(r))

-----------------------------------------------------------------------------
(* Properties                                                               *)

Durable(u) == db[u].ver > 0 \/ \E e \in Entries(qfile) : ~e.delete /\ e.uuid = u

(* The order, or an order it replaced, would be found again after a crash.  *)
Kept(v) == \E w \in anc[v] : Durable(w)

(* Once the table or the queue file has a tracked order, one of them has it *)
(* (under its uuid or one it replaced) for as long as it is tracked,        *)
(* whatever is reordered, fails or restarts; the only ways out are a queued *)
(* write the table refuses for good and a queue file overwritten before it  *)
(* was loaded.  The order of _db_replace and of the queue is what keeps it. *)
DurableOrdersStayDurable ==
    [][\A v \in claimed \cap claimed' :
           Kept(v) => Kept(v)' \/ (anc[v] \cap dropped' # {})]_vars

(* What flush_pending_writes buys: an order none of whose writes failed,    *)
(* overlapped another write about it, ran during a reload or met a write of *)
(* the manager is the same in the memory before and after a reload.         *)
ReloadKeepsFlushedOrders ==
    [][\A r \in Reloaders :
           reload[r].phase = "got" /\ reload'[r].phase = "idle" /\ up' =>
               \A u \in Uuids \ dirty : mem'[u] = mem[u]]_vars

(* Such an order, once its writes are done, is in the table as it is in the *)
(* memory, and a removed or replaced one is in neither.                     *)
FlushedOrdersAgree ==
    up => \A u \in Uuids \ (dirty \cup InFlight) : mem[u] = db[u]

(* Every flush comes to an end, even if the table fails for ever.           *)
FlushEnds == \A r \in Reloaders : reload[r].phase = "flush" ~> reload[r].phase = "idle"

(* Without a crash, every tracked order reaches the table, unless it is     *)
(* given up first or its queued write was dropped.                          *)
TrackedOrdersReachTheTable ==
    \A u \in Uuids : u \in claimed ~> db[u].ver > 0 \/ u \notin claimed \/ u \in dropped

-----------------------------------------------------------------------------
(* Why the flush contract holds: the inductive invariant                    *)

Writers(u) == {s \in Busy : u \in Touches(tasks[s])}

(* A write by reference has nothing to delete; a replacement is a copy.     *)
TaskShapes ==
    \A s \in Busy :
        /\ tasks[s].phase = "new" => tasks[s].old = NoUuid /\ tasks[s].payUuid = NoUuid
        /\ tasks[s].old # NoUuid => /\ ~tasks[s].live
                                    /\ tasks[s].payUuid = tasks[s].uuid
                                    /\ tasks[s].uuid # tasks[s].old

NothingRunsWhenDown ==
    ~up => Busy = {} /\ \A r \in Reloaders : reload[r].phase = "idle"

(* Failed writes, queued or about to be, are about dirty orders only.       *)
FailedWritesAreDirty ==
    /\ \A s \in Slots : tasks[s].phase \in {"enqUpsert", "enqDelete"} =>
                            Touches(tasks[s]) \subseteq dirty
    /\ \A i \in 1..Len(queue) : queue[i].key \in dirty /\ queue[i].uuid \in dirty \cup {NoUuid}
    /\ \A i \in 1..Len(qfile) : qfile[i].key \in dirty /\ qfile[i].uuid \in dirty \cup {NoUuid}
    /\ sync.sending => sync.payUuid \in dirty \cup {NoUuid}

(* Task t will leave order u in the table as it is in the memory.           *)
WillAgree(t, u) ==
    /\ t.phase = "new" => t.uuid = u /\ t.row = mem[u]
    /\ t.phase = "sent" => IF t.old = u THEN mem[u] = NoRow
                           ELSE t.payUuid = u /\ t.pay = mem[u]
    /\ t.phase = "delete" => IF t.old = u THEN mem[u] = NoRow ELSE db[u] = mem[u]

(* Reload x waits for the writer of u, reads after it, and keeps u.         *)
WillKeep(x, u) ==
    /\ x.phase = "flush" => Writers(u) \subseteq x.wait
    /\ x.phase \in {"fetch", "got"} => Writers(u) = {}
    /\ x.phase = "got" => x.rows[u] = mem[u]

CleanOrder(u) ==
    /\ \A s1, s2 \in Writers(u) : s1 = s2
    /\ \A s \in Writers(u) : WillAgree(tasks[s], u)
    /\ up /\ Writers(u) = {} => mem[u] = db[u]
    /\ \A r \in Reloaders : WillKeep(reload[r], u)

(* An order inside the flush contract has at most one write in flight, the  *)
(* one that makes table and memory agree, and every reload under way waits  *)
(* for it; nothing the queue replays is about such an order.                *)
FlushContract ==
    /\ TaskShapes
    /\ NothingRunsWhenDown
    /\ FailedWritesAreDirty
    /\ \A u \in Uuids \ dirty : CleanOrder(u)

-----------------------------------------------------------------------------
(* What comments and documents say, and the code does not do                *)

(* order_manager.py:120: flush_pending_writes keeps a reload from undoing   *)
(* changes of the memory the table does not have yet.                       *)
ReloadUndoesNothing ==
    [][\A r \in Reloaders :
           reload[r].phase = "got" /\ reload'[r].phase = "idle" /\ up' =>
               \A u \in claimed \ InFlight : mem'[u].ver >= mem[u].ver]_vars

(* docs/202_order_manager.md: an order in cancel_requested leaves that      *)
(* status only because the bot, having seen it, cancels or fills it.        *)
CancelRequestsAreSeen ==
    [][\A u \in Uuids : db[u].req /\ db'[u].ver > 0 => db'[u].req \/ mem[u].req]_vars

=============================================================================
